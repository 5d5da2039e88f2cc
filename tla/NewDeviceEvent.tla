--------------------------- MODULE NewDeviceEvent ---------------------------
(***************************************************************************)
(* The event entity of a router (event.py): after every poll it compares   *)
(* the connected devices with those it holds for connected and tells Home  *)
(* Assistant who came and who left.  A device counts as gone when it was   *)
(* in no poll for longer than a period of grace.                           *)
(*                                                                         *)
(* A poll first puts what it found into the history of devices and only    *)
(* then reaches the entity.  After the first of several failed polls the   *)
(* listeners run once more, with the data of the last good one.  A reload  *)
(* of the entry forgets who was held for connected.                        *)
(***************************************************************************)
EXTENDS Naturals, FiniteSets

CONSTANTS
    Macs,
    Grace       \* 60 seconds, in steps of the clock

VARIABLES
    up,         \* the entity exists
    ok,         \* last_update_success
    data,       \* the connected devices of the last good poll
    known,      \* _device_history: the devices any poll has listed
    age,        \* age[m]: time since _connected_macs[m], or Gone
    events,     \* the events fired by this step
    missed,     \* ghost: time since m was in a good poll
    unknown     \* ghost: devices that first turned up in this step, while the
                \* entity was there

vars == <<up, ok, data, known, age, events, missed, unknown>>

GracePositive == Grace \in Nat \ {0}

Gone == Grace + 2               \* not in _connected_macs
Times == 0 .. Grace + 1         \* longer times are all alike

Init ==
    /\ up = FALSE /\ ok = TRUE
    /\ data = {} /\ known = {}
    /\ age = [m \in Macs |-> Gone]
    /\ events = {}
    /\ missed = [m \in Macs |-> Grace + 1]
    /\ unknown = {}

\* Bug for the tests of the properties: devices that are gone grow older too.
LaterForAll(t) == t + 1

Later(t) == IF t \in 0 .. Grace THEN t + 1 ELSE t

\* The clock of the event loop.
Tick ==
    /\ age' = [m \in Macs |-> Later(age[m])]
    /\ missed' = [m \in Macs |-> Later(missed[m])]
    /\ events' = {} /\ unknown' = {}
    /\ UNCHANGED <<up, ok, data, known>>

-----------------------------------------------------------------------------
\* Bug for the tests of the properties: only a new device gets a time stamp.
StampsNewOnly(present, a) ==
    [m \in Macs |->
        IF m \in present /\ a[m] = Gone THEN 0
        ELSE IF m \notin present /\ a[m] = Grace + 1 THEN Gone ELSE a[m]]

\* _connected_macs after an update with these devices.
Stamps(present, a) ==
    [m \in Macs |->
        IF m \in present THEN 0 ELSE IF a[m] = Grace + 1 THEN Gone ELSE a[m]]

\* "Determine if it's truly new or just reconnected"
Arrival(m, history) ==
    IF m \notin history THEN "new_device_connected" ELSE "device_connected"

\* The events of an update: arrivals first, then those gone too long.
Fired(present, a, history) ==
    {<<m, Arrival(m, history)>> : m \in {n \in present : a[n] = Gone}}
        \cup {<<m, "device_disconnected">> :
                  m \in {n \in Macs \ present : a[n] = Grace + 1}}

\* _handle_coordinator_update
Update(present, history) ==
    IF up
    THEN /\ events' = Fired(present, age, history)
         /\ age' = Stamps(present, age)
    ELSE events' = {} /\ UNCHANGED age

\* A good poll lists some devices, some of them connected.
PollPublished ==
    /\ \E listed \in SUBSET Macs : \E present \in SUBSET listed :
        /\ known' = known \cup listed
        /\ data' = present
        /\ unknown' = IF up THEN present \ known ELSE {}
        /\ Update(present, known \cup listed)
        /\ missed' = [m \in Macs |-> IF m \in present THEN 0 ELSE missed[m]]
    /\ ok' = TRUE
    /\ UNCHANGED up

PollFailed ==
    /\ IF ok THEN Update(data, known) ELSE events' = {} /\ UNCHANGED age
    /\ ok' = FALSE
    /\ unknown' = {}
    /\ UNCHANGED <<up, data, known, missed>>

\* The entry is set up (again) after its first good poll: a new entity takes
\* the connected devices of that poll for known.  The history is a stored one.
Setup ==
    /\ \E listed \in SUBSET Macs : \E present \in SUBSET listed :
        /\ known' = known \cup listed
        /\ data' = present
        /\ age' = [m \in Macs |-> IF m \in present THEN 0 ELSE Gone]
        /\ missed' = [m \in Macs |-> IF m \in present THEN 0 ELSE missed[m]]
    /\ up' = TRUE /\ ok' = TRUE
    /\ events' = {} /\ unknown' = {}

Next == Tick \/ PollPublished \/ PollFailed \/ Setup

Spec == Init /\ [][Next]_vars

-----------------------------------------------------------------------------
(* Properties. *)

EventTypes == {"new_device_connected", "device_connected", "device_disconnected"}

TypeOK ==
    /\ {up, ok} \subseteq BOOLEAN
    /\ data \subseteq known /\ known \subseteq Macs
    /\ age \in [Macs -> Times \cup {Gone}]
    /\ events \subseteq Macs \X EventTypes
    /\ missed \in [Macs -> Times]
    /\ unknown \subseteq Macs

\* "with 60s grace period to handle polling glitches": a device that a good poll
\* listed as connected within the period is not told gone, and one told gone is
\* told so once, however polls fail and the entry reloads.
DisconnectMeansGone ==
    \A m \in Macs : <<m, "device_disconnected">> \in events =>
        missed[m] > Grace /\ age[m] = Gone

-----------------------------------------------------------------------------
(* What the code's comments say and TLC refutes.                            *)

\* "fires when a new device connects to the network", with "Determine if it's
\* truly new or just reconnected": a device that no poll had listed before is
\* told as a new one.
UnknownIsNew ==
    \A m \in unknown : <<m, "new_device_connected">> \in events

=============================================================================
