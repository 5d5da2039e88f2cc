--------------------------- MODULE DeviceTracking ---------------------------
(***************************************************************************)
(* Is a device at home?  (coordinator/tracking.py, device_tracker.py,      *)
(* device_trackers/entity.py)                                              *)
(*                                                                         *)
(* Every config entry polls its router, keeps a device that disappears     *)
(* connected for a while, notes in a persistent history when it has seen   *)
(* it, and claims it in a state all entries share when it is associated    *)
(* with its radio.  One device tracker, created by whichever entry meets   *)
(* the device first, combines the shared claim, the data of its entry and  *)
(* its history into what Home Assistant shows.                             *)
(*                                                                         *)
(* Time is counted in polls: in each period every entry polls once, in any *)
(* order, and its router may be read before another entry's poll is        *)
(* processed.  Instants are kept as ages, cut off where they stop mattering.*)
(***************************************************************************)
EXTENDS DeviceScan, FiniteSets

CONSTANTS
    Entries,        \* config entries, each with its router
    Gateways,       \* entries whose router routes the device's traffic
    ConsiderHome,   \* grace period
    StaleAfter,     \* age at which a claim nobody renews is dropped
    TrackWired,     \* option
    ForcedWireless, \* option: the device is in force_wireless_macs
    Leased,         \* the gateways keep a DHCP lease for the device
    ArpWhenAway,    \* states the neighbour table can show for a device that left
    FdbSupported,   \* the bridges can be asked
    MayFail,        \* routers go down and calls fail
    MaxRestarts,    \* bound: restarts of Home Assistant
    None

ASSUME TrackingConstants ==
    /\ Gateways \subseteq Entries
    /\ IsFiniteSet(Entries)
    /\ ConsiderHome \in Nat
    /\ StaleAfter \in Nat
    /\ {TrackWired, ForcedWireless, Leased, FdbSupported, MayFail} \subseteq BOOLEAN
    /\ ArpWhenAway \subseteq NeighborStates
    /\ ArpWhenAway # {}
    /\ MaxRestarts \in Nat
    /\ None \notin Entries \cup Nat

Ages == 0..ConsiderHome

Histories == [age : Ages, wireless : BOOLEAN]
TrackerRecords == [entry : Entries, seen : Ages \cup {None}]

ASSUME NoneIsNoRecord == None \notin Histories \cup TrackerRecords

VARIABLES
    at,         \* where the device is
    polled,     \* entries that have polled in this period
    answers,    \* the device in the list a poll has fetched and not yet processed
    data,       \* the device in coordinator.data
    success,    \* last_update_success
    lastSuccess,\* age of last_successful_update
    seen,       \* age of _device_last_seen
    history,    \* _device_history
    everWireless,   \* the shared wireless_history
    claim,      \* the shared tracker_wireless_state
    tracker,    \* the device tracker: its entry and its _last_seen
    shown,      \* its state in Home Assistant
    met,        \* ghost: last list of a tracker's entry with the device connected
    restarts

coordinators == <<polled, answers, data, success, lastSuccess, seen, history>>
entity == <<tracker, shown>>
shared == <<everWireless, claim>>
vars == <<at, coordinators, shared, entity, met, restarts>>

ClaimAges == 0..(1 + IF ConsiderHome > StaleAfter THEN ConsiderHome ELSE StaleAfter)

TypeOK ==
    /\ at \in Entries \cup {"wire", "away"}
    /\ polled \subseteq Entries
    /\ answers \in [Entries -> Devices \cup {None}]
    /\ \A e \in Entries : answers[e] # None => e \in polled
    /\ data \in [Entries -> Devices \cup {None}]
    /\ \A e \in Entries : data[e] # None /\ data[e].connected => data[e].listed
    /\ success \in [Entries -> BOOLEAN]
    /\ lastSuccess \in [Entries -> Ages]
    /\ seen \in [Entries -> Ages \cup {None}]
    /\ history \in [Entries -> Histories \cup {None}]
    /\ everWireless \in BOOLEAN
    /\ claim \in [owner : Entries, age : ClaimAges, connected : BOOLEAN] \cup {None}
    /\ tracker \in TrackerRecords \cup {None}
    /\ shown \in {"unknown", "home", "away", "unavailable"}
    /\ tracker = None <=> shown = "unknown"
    /\ met \in [entry : Entries, age : Ages] \cup {None}
    /\ restarts \in 0..MaxRestarts

Init ==
    /\ at \in Entries \cup {"wire", "away"}
    /\ polled = {}
    /\ answers = [e \in Entries |-> None]
    /\ data = [e \in Entries |-> None]
    /\ success = [e \in Entries |-> TRUE]
    /\ lastSuccess = [e \in Entries |-> ConsiderHome]
    /\ seen = [e \in Entries |-> None]
    /\ history = [e \in Entries |-> None]
    /\ everWireless = FALSE
    /\ claim = None
    /\ tracker = None
    /\ shown = "unknown"
    /\ met = None
    /\ restarts = 0

-----------------------------------------------------------------------------
(* The device and the routers. *)

Errors == IF MayFail THEN {"error"} ELSE {}

Association(e) == {IF at = e THEN "yes" ELSE "no"} \cup Errors

Lease(e) == e \in Gateways /\ Leased

PossibleAnswers(e) ==
    LET gateway == e \in Gateways
        home == at # "away"
    IN [lease : {Lease(e)}, static : {FALSE},
        iwinfo : Association(e), hostapd : Association(e),
        arp : IF ~gateway THEN {"none"}
              ELSE IF home THEN {"REACHABLE", "STALE"} ELSE ArpWhenAway,
        fdb : IF ~FdbSupported THEN {"unsupported"}
              ELSE IF gateway /\ home THEN {"recent", "old"} ELSE {"absent"}]

Moves ==
    /\ at' \in (Entries \cup {"wire", "away"}) \ {at}
    /\ UNCHANGED <<coordinators, shared, entity, met, restarts>>

-----------------------------------------------------------------------------
(* The poll: stabilisation, history and the shared claim. *)

Previous(e) == IF data[e] = None THEN Unlisted ELSE data[e]

\* _device_last_seen after a poll whose list has the device as d.  It is kept
\* up only while some device was connected before, here or among the others.
SeenAfter(e, d, others) ==
    LET prev == Previous(e).connected
        now == IF d.connected /\ (prev \/ (others /\ data[e] # None)) THEN 0 ELSE seen[e]
    IN IF prev /\ now = None
       THEN IF history[e] = None THEN 0 ELSE history[e].age
       ELSE now

\* Bug for the tests of the properties: a missing device is only flagged.
StabilizedByFlag(e, d, seenAge) ==
    [d EXCEPT !.connected = @ \/ (Previous(e).connected /\ seenAge < ConsiderHome)]

\* A device that was connected stays so while it was seen within the grace period.
Stabilized(e, d, seenAge) ==
    LET prev == Previous(e)
    IN IF ~prev.connected \/ d.connected \/ seenAge >= ConsiderHome THEN d
       ELSE IF ~d.listed THEN prev
       ELSE [d EXCEPT !.connected = TRUE,
                      !.wireless = @ \/ prev.wireless,
                      !.iface = IF @ = "none" THEN prev.iface ELSE @,
                      !.neighbor = IF @ = "none" THEN prev.neighbor ELSE @]

Forced(d) == [d EXCEPT !.wireless = @ \/ (d.listed /\ ForcedWireless)]

\* Whatever lists the device, a lease included, counts as a sighting.
HistoryAfter(h, d, lease) ==
    IF d.listed
    THEN [age |-> 0, wireless |-> d.wireless \/ (h # None /\ h.wireless)]
    ELSE IF lease
    THEN [age |-> 0, wireless |-> h # None /\ h.wireless]
    ELSE h

\* Bug for the tests of the properties: no claim is dropped for its age alone.
ClaimAfterNeverStale(e, d) ==
    IF d.wireless /\ d.connected THEN [owner |-> e, age |-> 0, connected |-> TRUE]
    ELSE IF d.listed /\ claim # None /\ claim.owner = e /\ claim.age >= ConsiderHome
    THEN [claim EXCEPT !.connected = FALSE]
    ELSE claim

\* _async_update_global_wireless_state
ClaimAfter(e, d) ==
    LET expired == /\ d.listed
                   /\ claim # None /\ claim.owner = e
                   /\ claim.age >= ConsiderHome
        stale == claim # None /\ claim.age > StaleAfter
    IN IF d.wireless /\ d.connected THEN [owner |-> e, age |-> 0, connected |-> TRUE]
       ELSE IF expired \/ stale THEN [claim EXCEPT !.connected = FALSE]
       ELSE claim

-----------------------------------------------------------------------------
(* The device tracker. *)

Youngest(ages) ==
    IF ages = {} THEN None ELSE CHOOSE a \in ages : \A b \in ages : a <= b

\* Bug for the tests of the properties: the history is not a candidate.
EffectiveWithoutHistory(seenAge, c, h) ==
    Youngest(({seenAge} \cup IF c = None THEN {} ELSE {c.age}) \ {None})

\* _get_effective_last_seen
EffectiveLastSeen(seenAge, c, h) ==
    Youngest(({seenAge} \cup (IF c = None THEN {} ELSE {c.age})
                        \cup (IF h = None THEN {} ELSE {h.age})) \ {None})

\* What is_connected passes to _check_consider_home.
Connected(ok, d, c, h, ever) ==
    /\ ok
    /\ IF c # None THEN c.connected
       ELSE /\ d.listed
            /\ d.wireless \/ ~(ever \/ (h # None /\ h.wireless))
            /\ IF d.neighbor # "none" THEN d.neighbor \in ActiveStates
               ELSE TrustStaleArp \/ ~(d.wireless \/ ever \/ (h # None /\ h.wireless))
            /\ TrackWired \/ d.wireless
            /\ d.connected

\* The state an entity writes: is_connected and available.
Written(seenAge, ok, last, d, c, h, ever) ==
    LET effective == EffectiveLastSeen(seenAge, c, h)
        recent == effective # None /\ effective < ConsiderHome
    IN IF Connected(ok, d, c, h, ever) THEN [seen |-> 0, shown |-> "home"]
       ELSE [seen |-> effective,
             shown |-> IF recent THEN "home"
                       ELSE IF ok \/ last < ConsiderHome THEN "away"
                       ELSE "unavailable"]

\* What the tracker writes for its entry's present data, and a given claim,
\* history and wireless_history.
WrittenNow(c, h, ever) ==
    Written(tracker.seen, success[tracker.entry], lastSuccess[tracker.entry],
            Previous(tracker.entry), c, h, ever)

-----------------------------------------------------------------------------
(* A period: polls that succeed or fail. *)

\* The list of the router is read.
Fetches(e) ==
    /\ e \notin polled
    /\ polled' = polled \cup {e}
    /\ \E a \in PossibleAnswers(e) :
           answers' = [answers EXCEPT ![e] = Scan(a, Previous(e))]
    /\ UNCHANGED <<at, data, success, lastSuccess, seen, history, shared,
                   entity, met, restarts>>

\* _async_filter_and_track_devices, _async_update_global_wireless_state, the new
\* data and the listeners; a tracker is added when the device has none.
Processes(e) ==
    /\ answers[e] # None
    /\ answers' = [answers EXCEPT ![e] = None]
    /\ \E others \in BOOLEAN :
        LET scan == answers[e]
            seenAge == SeenAfter(e, scan, others)
            d == Forced(Stabilized(e, scan, seenAge))
            h == HistoryAfter(history[e], d, Lease(e))
            ever == everWireless \/ (d.listed /\ h.wireless)
            c == ClaimAfter(e, d)
            affected == c # claim \/ (d.wireless /\ d.connected)
            \* written while the claim is updated, before the data is replaced
            early == IF tracker # None /\ affected
                     THEN WrittenNow(c, IF tracker.entry = e THEN h
                                        ELSE history[tracker.entry], ever)
                     ELSE [seen |-> IF tracker = None THEN None ELSE tracker.seen,
                           shown |-> shown]
            mine == IF tracker = None
                    THEN /\ d.listed \/ h # None
                         /\ TrackWired \/ d.wireless \/ ever \/ (h # None /\ h.wireless)
                    ELSE tracker.entry = e
            late == Written(early.seen, TRUE, 0, d, c, h, ever)
        IN /\ seen' = [seen EXCEPT ![e] = seenAge]
           /\ history' = [history EXCEPT ![e] = h]
           /\ everWireless' = ever
           /\ claim' = c
           /\ data' = [data EXCEPT ![e] = d]
           /\ IF mine
              THEN /\ tracker' = [entry |-> e, seen |-> late.seen]
                   /\ shown' = late.shown
              ELSE /\ tracker' = IF tracker = None THEN None
                                 ELSE [tracker EXCEPT !.seen = early.seen]
                   /\ shown' = early.shown
           /\ met' = IF mine /\ scan.connected THEN [entry |-> e, age |-> 0] ELSE met
    /\ success' = [success EXCEPT ![e] = TRUE]
    /\ lastSuccess' = [lastSuccess EXCEPT ![e] = 0]
    /\ UNCHANGED <<at, polled, restarts>>

\* A poll fails.  Home Assistant tells the listeners of the first failure only.
PollFails(e) ==
    /\ MayFail
    /\ e \notin polled
    /\ polled' = polled \cup {e}
    /\ success' = [success EXCEPT ![e] = FALSE]
    /\ IF tracker # None /\ tracker.entry = e /\ success[e]
       THEN LET w == Written(tracker.seen, FALSE, lastSuccess[e], Previous(e),
                             claim, history[e], everWireless)
            IN /\ tracker' = [tracker EXCEPT !.seen = w.seen]
               /\ shown' = w.shown
       ELSE UNCHANGED entity
    /\ UNCHANGED <<at, answers, data, lastSuccess, seen, history, shared, met,
                   restarts>>

Older(age, ages) == IF age # None /\ age + 1 \in ages THEN age + 1 ELSE age

OlderRecord(r, ages) == IF r = None THEN None ELSE [r EXCEPT !.age = Older(@, ages)]

Period ==
    /\ polled = Entries
    /\ \A e \in Entries : answers[e] = None
    /\ polled' = {}
    /\ lastSuccess' = [e \in Entries |-> Older(lastSuccess[e], Ages)]
    /\ seen' = [e \in Entries |-> Older(seen[e], Ages)]
    /\ history' = [e \in Entries |-> OlderRecord(history[e], Ages)]
    /\ claim' = OlderRecord(claim, ClaimAges)
    /\ tracker' = IF tracker = None THEN None
                  ELSE [tracker EXCEPT !.seen = Older(@, Ages)]
    /\ met' = OlderRecord(met, Ages)
    /\ UNCHANGED <<at, answers, data, success, everWireless, shown, restarts>>

\* Home Assistant starts again; the history is loaded from the store.
Restarts ==
    /\ restarts < MaxRestarts
    /\ restarts' = restarts + 1
    /\ answers' = [e \in Entries |-> None]
    /\ polled' = {}
    /\ data' = [e \in Entries |-> None]
    /\ success' = [e \in Entries |-> TRUE]
    /\ lastSuccess' = [e \in Entries |-> ConsiderHome]
    /\ seen' = [e \in Entries |-> None]
    /\ everWireless' = \E e \in Entries : history[e] # None /\ history[e].wireless
    /\ claim' = None
    /\ tracker' = None
    /\ shown' = "unknown"
    /\ UNCHANGED <<at, history, met>>

Polls(e) == Fetches(e) \/ Processes(e) \/ PollFails(e)

Next ==
    \/ Moves
    \/ Period
    \/ Restarts
    \/ \E e \in Entries : Polls(e)

Spec == Init /\ [][Next]_vars

\* Polls are scheduled by Home Assistant and time goes on.
FairSpec == Spec /\ WF_vars(Period) /\ \A e \in Entries : WF_vars(Polls(e))

-----------------------------------------------------------------------------
(* Properties. *)

\* A device the tracker's own router has reported as connected within the grace
\* period, or any access point has claimed in it, is shown at home: whatever
\* other entries report, in whatever order, across outages and restarts.
SeenIsHome ==
    tracker # None /\ (\/ met # None /\ met.entry = tracker.entry /\ met.age < ConsiderHome
                       \/ claim # None /\ claim.age < ConsiderHome)
        => shown = "home"

\* "Consider Home: Set the grace period (in seconds) for device presence
\* detection": a device that has left for good is not shown at home for ever.
AwayInTheEnd == <>[](at = "away") => <>[](shown # "home")

-----------------------------------------------------------------------------
(* What comments of the code say and TLC refutes (see README.md). *)

\* "Authority: Only wireless connected devices update the state": an entry claims
\* the device only when its router reports it associated.
OnlyAssociatedClaims ==
    [][\A e \in Entries : answers[e] # None /\ answers'[e] = None
          /\ claim' # None /\ claim'.owner = e /\ claim'.age = 0 /\ claim # claim'
          => answers[e].wireless]_vars

\* "If we were the owner but no longer see it wireless/connected, mark as away
\* only after consider_home window has passed": then it is marked.
OwnerLetsGo ==
    [][\A e \in Entries : answers[e] # None /\ answers'[e] = None
          /\ claim # None /\ claim.owner = e /\ claim.age >= ConsiderHome
          /\ ~(answers[e].wireless /\ answers[e].connected)
          => ~claim'.connected]_vars

\* "Retain availability during short router disconnections or reboots as long as
\* the consider_home window has not expired": no longer.
OutageIsShown ==
    tracker # None /\ ~success[tracker.entry]
        /\ lastSuccess[tracker.entry] >= ConsiderHome
        /\ polled = Entries
        => \/ EffectiveLastSeen(tracker.seen, claim, history[tracker.entry])
                \in 0..(ConsiderHome - 1)
           \/ shown = "unavailable"

=============================================================================
