---------------------------- MODULE RadioDevices ----------------------------
(***************************************************************************)
(* The devices of the wireless networks in Home Assistant's registry and   *)
(* the one of a client below them (coordinator/device_registry.py,         *)
(* get_via_device), with the lists of networks they are made from          *)
(* (get_wireless_interfaces of the three transports).                      *)
(*                                                                         *)
(* A poll asks the router three things about its networks: their status,   *)
(* their configuration, and what the driver says of each.  Each can fail   *)
(* by itself, and none alone knows everything: the status leaves disabled  *)
(* networks out, the configuration has no kernel names, and the driver no  *)
(* radio.  The device of a network is named after its SSID, its band and   *)
(* its radio, so the same network comes under different names from one     *)
(* poll to the next.                                                       *)
(*                                                                         *)
(* Every interface here has a radio and a band of its own.                 *)
(***************************************************************************)
EXTENDS FiniteSets

CONSTANTS
    Interfaces,     \* the wifi-iface sections of the router
    SSIDs,
    Transports,     \* a subset of {"ubus", "ssh", "luci"}
    Away, NoName, Router, NoDevice

VARIABLES
    transport,
    ssid, on,       \* the networks at the router
    place,          \* interface that the client is associated with, or Away
    first,          \* coordinator.data is still None
    listed,         \* listed[i]: what data.wireless_interfaces has of i
    stableId,       \* interface_to_stable_id, by kernel name
    devices,        \* SSID devices in the registry
    parent          \* via_device of the client's device, or NoDevice

router == <<transport, ssid, on, place>>
vars == <<router, first, listed, stableId, devices, parent>>

\* radio, kernel: whether it is known.
Sightings == [ssid : SSIDs, radio : BOOLEAN, kernel : BOOLEAN]

\* format_ap_stable_id
Ids == [ssid : SSIDs, band : Interfaces, radio : BOOLEAN]
Id(i, e) == [ssid |-> e.ssid, band |-> i, radio |-> e.radio]

\* The device that a network has when the router answers everything.
Proper(i) == [ssid |-> ssid[i], band |-> i, radio |-> TRUE]

Init ==
    /\ transport \in Transports
    /\ ssid \in [Interfaces -> SSIDs]
    /\ on \in [Interfaces -> BOOLEAN]
    /\ place \in {i \in Interfaces : on[i]} \cup {Away}
    /\ first = TRUE
    /\ listed = [i \in Interfaces |-> {}]
    /\ stableId = [i \in Interfaces |-> NoName]
    /\ devices = {}
    /\ parent = NoDevice

-----------------------------------------------------------------------------
(* get_wireless_interfaces *)

\* What comes back: status and config tell whether network.wireless and uci
\* answered, driver what iwinfo did: it answered, said nothing, or failed when asked
\* about an interface.
Replies == [status : BOOLEAN, config : BOOLEAN, driver : {"yes", "nothing", "error"}]

Answers == [status |-> TRUE, config |-> TRUE, driver |-> "yes"]

\* An entry by the status, by the configuration and by the driver alone.
ByStatus(i) == [ssid |-> ssid[i], radio |-> TRUE, kernel |-> TRUE]
ByConfig(i) == [ssid |-> ssid[i], radio |-> TRUE, kernel |-> FALSE]
ByDriver(i) == [ssid |-> ssid[i], radio |-> FALSE, kernel |-> TRUE]

\* What the last list had under the name of an entry.
Previous(i, e) == {p \in listed[i] : p.kernel = e.kernel}

\* The driver's queries about an entry raise.  Over ubus they do for a section
\* that has no interface; over LuCI they are not made for it.
Fails(i, e, r) ==
    IF e.kernel THEN r.driver = "error"
    ELSE transport = "ubus" \/ (transport = "ssh" /\ r.driver = "error")

\* Then the last entry of that name takes the place of this one, over LuCI its
\* SSID alone.
Detailed(i, e, r) ==
    IF Fails(i, e, r) /\ Previous(i, e) # {}
    THEN {IF transport = "luci" THEN [e EXCEPT !.ssid = p.ssid] ELSE p : p \in Previous(i, e)}
    ELSE {e}

\* An interface that only the driver names, with what the configuration knows.
\* Over ubus its SSID finds it its section, if that is listed.
ByDriverToo(i, known, r) ==
    IF ~on[i] \/ r.driver = "nothing" THEN known
    ELSE IF r.driver = "error" THEN known \cup Previous(i, ByDriver(i))
    ELSE IF transport = "ubus" /\ known # {} THEN {ByStatus(i)}
    ELSE known \cup {ByDriver(i)}

Listing(i, r) ==
    IF r.status /\ on[i] THEN Detailed(i, ByStatus(i), r)
    ELSE ByDriverToo(i, IF r.config THEN Detailed(i, ByConfig(i), r) ELSE {}, r)

-----------------------------------------------------------------------------
(* _async_update_device_registry and the entities added after it. *)

\* get_via_device
Via(at, names, present) ==
    IF at # Away /\ names[at] \in present THEN names[at] ELSE Router

\* Bug for the tests of the properties: a name once given stays.
NamesKept(list) ==
    [i \in Interfaces |->
        IF stableId[i] # NoName THEN stableId[i]
        ELSE LET known == {e \in list[i] : e.kernel}
             IN IF known = {} THEN NoName ELSE CHOOSE d \in {Id(i, e) : e \in known} : TRUE]

\* Sightings are only ever added or replaced.
Names(list) ==
    [i \in Interfaces |->
        LET known == {e \in list[i] : e.kernel}
        IN IF known = {} THEN stableId[i]
           ELSE CHOOSE d \in {Id(i, e) : e \in known} : TRUE]

Provided(list) == UNION {{Id(i, e) : e \in list[i]} : i \in Interfaces}

\* Nothing is removed while no network is listed.
Removed(provided) == IF provided = {} THEN {} ELSE devices \ provided

\* Children of a device that is removed are moved to the router.
Moved(p, removed) == IF p \in removed THEN Router ELSE p

\* _async_reparent_connected_devices, of a client that is listed at `at`.  The
\* first poll has no data to find the network in.
Reparented(at, names, present) ==
    IF parent = NoDevice \/ at = Away THEN parent
    ELSE IF first THEN Router
    ELSE Via(at, names, present)

\* A tracker's device is created when it is first added; after a set-up it is
\* added again, which gives the device the parent of that moment.
Added(p, at, names, present) ==
    IF (parent = NoDevice /\ at # Away) \/ (parent # NoDevice /\ first)
    THEN Via(at, names, present)
    ELSE p

\* A successful poll, with replies r, that lists the client at its interface or
\* misses it.
PollWith(r, at) ==
    LET list == [i \in Interfaces |-> Listing(i, r)]
        names == Names(list)
        provided == Provided(list)
        removed == Removed(provided)
        present == (devices \cup provided) \ removed
        moved == Moved(Reparented(at, names, devices \cup provided), removed)
    IN /\ listed' = list
       /\ stableId' = names
       /\ devices' = present
       /\ parent' = Added(moved, at, names, present)
       /\ first' = FALSE
       /\ UNCHANGED router

Poll == \E r \in Replies, at \in {place, Away} : PollWith(r, at)

\* Everything is answered, and the client is seen.
GoodPoll == PollWith(Answers, place)

-----------------------------------------------------------------------------
(* The entry and the router. *)

\* The entry is reloaded or Home Assistant restarts; the registry stays.
Reload ==
    /\ ~first
    /\ first' = TRUE
    /\ listed' = [i \in Interfaces |-> {}]
    /\ stableId' = [i \in Interfaces |-> NoName]
    /\ UNCHANGED <<router, devices, parent>>

\* The user gives a network another SSID, or switches it off or on; its clients
\* leave it.
Configured(i) ==
    /\ \/ ssid' \in {[ssid EXCEPT ![i] = s] : s \in SSIDs \ {ssid[i]}} /\ UNCHANGED on
       \/ on' = [on EXCEPT ![i] = ~@] /\ UNCHANGED ssid
    /\ place' = IF place = i THEN Away ELSE place
    /\ UNCHANGED <<transport, first, listed, stableId, devices, parent>>

ClientMoves ==
    /\ place' \in {i \in Interfaces : on[i]} \cup {Away}
    /\ place' # place
    /\ UNCHANGED <<transport, ssid, on, first, listed, stableId, devices, parent>>

Next ==
    \/ Poll
    \/ Reload
    \/ \E i \in Interfaces : Configured(i)
    \/ ClientMoves

Spec == Init /\ [][Next]_vars

-----------------------------------------------------------------------------
(* Properties. *)

TypeOK ==
    /\ transport \in Transports
    /\ ssid \in [Interfaces -> SSIDs]
    /\ on \in [Interfaces -> BOOLEAN]
    /\ place \in Interfaces \cup {Away}
    /\ first \in BOOLEAN
    /\ listed \in [Interfaces -> SUBSET Sightings]
    /\ stableId \in [Interfaces -> Ids \cup {NoName}]
    /\ devices \subseteq Ids
    /\ parent \in Ids \cup {Router, NoDevice}

\* "Move existing wireless client devices below their current SSID": whatever was
\* renamed, switched, lost in failed queries or reloaded before, a poll that the
\* router answers puts the device of a client below the one of its network; that of
\* a client which is away stays below a device that exists.
BelowItsNetwork ==
    [][GoodPoll => IF place = Away THEN parent' \in devices' \cup {Router, NoDevice}
                                   ELSE parent' = Proper(place)]_vars

-----------------------------------------------------------------------------
(* What comments of the code say and TLC refutes (see README.md). *)

\* "Never purge legitimate named SSIDs or physical radios; only remove ghost
\* names": the device of a network that the router still has is not removed.
NamedNetworksStay ==
    [][\A i \in Interfaces :
        Proper(i) \in devices /\ Proper(i)' = Proper(i) => Proper(i) \in devices']_vars

=============================================================================
