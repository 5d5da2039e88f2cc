---------------------------- MODULE PresenceEvent ----------------------------
(***************************************************************************)
(* Presence over MQTT (helpers/presence_templates): every access point     *)
(* runs presence_event.sh for the events of its radios and publishes, with *)
(* the retained flag, whether one device is at home.  The access points    *)
(* share nothing but the broker.                                           *)
(*                                                                         *)
(* A connection publishes "home" and the name of the access point at once; *)
(* a disconnection starts a timer process, which after the grace period    *)
(* looks whether the device is seen by a radio of this access point or     *)
(* claimed by another one, and only then publishes "not_home".             *)
(*                                                                         *)
(* One device is modelled: devices have topics, timers and lists of their  *)
(* own.  mosquitto_pub succeeds here within its three attempts.            *)
(***************************************************************************)
EXTENDS Integers, Sequences, FiniteSets

CONSTANTS
    Ifaces,     \* radios; hostapd_cli runs one script at a time for each
    APs,        \* access points
    ApOf,       \* the access point of a radio
    Nowhere,    \* the device is not associated
    Nobody,     \* no access point in the attributes
    MaxMoves    \* bound: associations of the device

ASSUME PresenceConstants ==
    /\ ApOf \in [Ifaces -> APs]
    /\ Nowhere \notin Ifaces
    /\ Nobody \notin APs
    /\ MaxMoves \in Nat

VARIABLES
    at,         \* the radio the device is associated with
    stations,   \* radios that list the device (iw station dump)
    queue,      \* events hostapd_cli has not handed to the script
    handler,    \* the running script of a radio: its event and its phase
    timer,      \* the timer process a radio's script has started
    state,      \* retained message of the topic
    owner,      \* retained connected_ap of the attributes
    late,       \* messages of killed scripts that mosquitto_pub still delivers
    moves,
    prompt      \* ghost: no script overlapped another one, sleeping timers apart

device == <<at, stations, moves, prompt>>
broker == <<state, owner>>
vars == <<device, queue, handler, timer, broker, late>>

Events == {"connected", "disconnected"}

Idle == [event |-> "connected", phase |-> "idle"]

TypeOK ==
    /\ at \in Ifaces \cup {Nowhere}
    /\ stations \subseteq Ifaces
    /\ at # Nowhere => at \in stations
    /\ \A i \in Ifaces : queue[i] \in Seq(Events) /\ Len(queue[i]) <= 2 * MaxMoves
    /\ handler \in [Ifaces -> [event : Events,
                               phase : {"idle", "cancel", "state", "attributes", "start"}]]
    /\ timer \in [Ifaces -> {"none", "sleep", "seen", "owner", "state", "attributes"}]
    /\ state \in {"home", "not_home"}
    /\ owner \in APs \cup {Nobody}
    /\ late \subseteq {"state", "attributes"}
    /\ moves \in 0..MaxMoves
    /\ prompt \in BOOLEAN

Init ==
    /\ at = Nowhere
    /\ stations = {}
    /\ queue = [i \in Ifaces |-> <<>>]
    /\ handler = [i \in Ifaces |-> Idle]
    /\ timer = [i \in Ifaces |-> "none"]
    /\ state = "not_home"
    /\ owner = Nobody
    /\ late = {}
    /\ moves = 0
    /\ prompt = TRUE

Radios(ap) == {i \in Ifaces : ApOf[i] = ap}

Working ==
    \/ \E i \in Ifaces : queue[i] # <<>> \/ handler[i].phase # "idle"
    \/ \E i \in Ifaces : timer[i] \notin {"none", "sleep"}

Begins == prompt' = (prompt /\ ~Working)

-----------------------------------------------------------------------------
(* The device and hostapd. *)

\* The device associates, possibly while its old radio still lists it.
Associates(i) ==
    /\ Begins
    /\ at # i
    /\ moves < MaxMoves
    /\ moves' = moves + 1
    /\ at' = i
    /\ stations' = stations \cup {i}
    /\ queue' = [queue EXCEPT ![i] = Append(@, "connected")]
    /\ UNCHANGED <<handler, timer, broker, late>>

\* The device goes out of range; nobody has noticed yet.
Leaves ==
    /\ Begins
    /\ at # Nowhere
    /\ at' = Nowhere
    /\ UNCHANGED <<stations, moves, queue, handler, timer, broker, late>>

\* hostapd drops a station that roamed or left.
Dropped(i) ==
    /\ Begins
    /\ i \in stations
    /\ at # i
    /\ stations' = stations \ {i}
    /\ queue' = [queue EXCEPT ![i] = Append(@, "disconnected")]
    /\ UNCHANGED <<at, moves, handler, timer, broker, late>>

-----------------------------------------------------------------------------
(* The script, run by hostapd_cli for an event. *)

EventTaken(i) ==
    /\ handler[i].phase = "idle"
    /\ queue[i] # <<>>
    /\ handler' = [handler EXCEPT ![i] = [event |-> Head(queue[i]), phase |-> "cancel"]]
    /\ queue' = [queue EXCEPT ![i] = Tail(@)]
    /\ UNCHANGED <<device, timer, broker, late>>

AfterCancel(i) == IF handler[i].event = "connected" THEN "state" ELSE "start"

\* Bug for the tests of the properties: a killed timer runs on to its end.
CancelWithoutEffect(i) ==
    /\ handler[i].phase = "cancel"
    /\ handler' = [handler EXCEPT ![i].phase = AfterCancel(i)]
    /\ timer' = [j \in Ifaces |-> IF ApOf[j] = ApOf[i] THEN "none" ELSE timer[j]]
    /\ late' = late \cup ({timer[j] : j \in Radios(ApOf[i])} \ {"none"})
    /\ UNCHANGED <<device, queue, broker>>

\* cancel_grace kills the timer processes of this access point.  A message
\* being sent by one of them is sent by a process of its own, which goes on.
CancelGrace(i) ==
    /\ handler[i].phase = "cancel"
    /\ handler' = [handler EXCEPT ![i].phase = AfterCancel(i)]
    /\ timer' = [j \in Ifaces |-> IF ApOf[j] = ApOf[i] THEN "none" ELSE timer[j]]
    /\ late' = late \cup ({timer[j] : j \in Radios(ApOf[i])}
                            \cap {"state", "attributes"})
    /\ UNCHANGED <<device, queue, broker>>

PublishHome(i) ==
    /\ handler[i].phase = "state"
    /\ handler' = [handler EXCEPT ![i].phase = "attributes"]
    /\ state' = "home"
    /\ UNCHANGED <<device, queue, timer, owner, late>>

PublishOwner(i) ==
    /\ handler[i].phase = "attributes"
    /\ handler' = [handler EXCEPT ![i] = Idle]
    /\ owner' = ApOf[i]
    /\ UNCHANGED <<device, queue, timer, state, late>>

StartGrace(i) ==
    /\ handler[i].phase = "start"
    /\ handler' = [handler EXCEPT ![i] = Idle]
    /\ timer' = [timer EXCEPT ![i] = "sleep"]
    /\ UNCHANGED <<device, queue, broker, late>>

-----------------------------------------------------------------------------
(* The timer process. *)

GraceOver(i) ==
    /\ timer[i] = "sleep"
    /\ Begins
    /\ timer' = [timer EXCEPT ![i] = "seen"]
    /\ UNCHANGED <<at, stations, moves, queue, handler, broker, late>>

\* Bug for the tests of the properties: only this radio is looked at.
SeenByThisRadio(i) ==
    /\ timer[i] = "seen"
    /\ timer' = [timer EXCEPT ![i] = IF i \in stations THEN "none" ELSE "owner"]
    /\ UNCHANGED <<device, queue, handler, broker, late>>

\* is_seen_anywhere: the radios of this access point.
SeenAnywhere(i) ==
    /\ timer[i] = "seen"
    /\ timer' = [timer EXCEPT ![i] =
           IF stations \cap Radios(ApOf[i]) # {} THEN "none" ELSE "owner"]
    /\ UNCHANGED <<device, queue, handler, broker, late>>

\* is_owned_by_other_ap
OwnedByOtherAp(i) ==
    /\ timer[i] = "owner"
    /\ timer' = [timer EXCEPT ![i] =
           IF owner \in {ApOf[i], Nobody} THEN "state" ELSE "none"]
    /\ UNCHANGED <<device, queue, handler, broker, late>>

PublishNotHome(i) ==
    /\ timer[i] = "state"
    /\ timer' = [timer EXCEPT ![i] = "attributes"]
    /\ state' = "not_home"
    /\ UNCHANGED <<device, queue, handler, owner, late>>

PublishNobody(i) ==
    /\ timer[i] = "attributes"
    /\ timer' = [timer EXCEPT ![i] = "none"]
    /\ owner' = Nobody
    /\ UNCHANGED <<device, queue, handler, state, late>>

DeliveredLate ==
    /\ UNCHANGED <<device, queue, handler, timer>>
    /\ \/ /\ "state" \in late
          /\ state' = "not_home"
          /\ late' = late \ {"state"}
          /\ UNCHANGED owner
       \/ /\ "attributes" \in late
          /\ owner' = Nobody
          /\ late' = late \ {"attributes"}
          /\ UNCHANGED state

Next ==
    \/ Leaves
    \/ DeliveredLate
    \/ \E i \in Ifaces :
        \/ Associates(i) \/ Dropped(i)
        \/ EventTaken(i) \/ CancelGrace(i) \/ PublishHome(i) \/ PublishOwner(i)
        \/ StartGrace(i) \/ GraceOver(i) \/ SeenAnywhere(i) \/ OwnedByOtherAp(i)
        \/ PublishNotHome(i) \/ PublishNobody(i)

Spec == Init /\ [][Next]_vars

-----------------------------------------------------------------------------
(* Properties. *)

\* Everything that was started has ended, one script after the other.
Settled ==
    /\ prompt
    /\ stations \subseteq {at}
    /\ ~Working
    /\ late = {}
    /\ \A i \in Ifaces : timer[i] = "none"

\* Once the dust has settled the retained state is right, and the attributes
\* name the access point the device is at: a device that roams between radios
\* and access points stays home, one that left is not_home.
SettledRight ==
    Settled =>
        /\ (state = "home") <=> (at # Nowhere)
        /\ owner = IF at = Nowhere THEN Nobody ELSE ApOf[at]

\* "If another AP has claimed this device during grace, suppress not_home":
\* not_home is never published over the claim of another access point.
SuppressedWhenClaimed ==
    [][\A i \in Ifaces : timer[i] = "state" /\ timer'[i] = "attributes"
          => owner \in {ApOf[i], Nobody}]_vars

=============================================================================
