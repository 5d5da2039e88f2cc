------------------------------ MODULE Trackers ------------------------------
(***************************************************************************)
(* Which entry has the tracker of a device (device_tracker.py).            *)
(*                                                                         *)
(* The unique id of a tracker is made of the MAC address alone, so of all  *)
(* entries only one may have it.  registered_macs, a set the entries       *)
(* share, says which devices have one; an entry that meets a device which  *)
(* is in the set remembers it as tracked and does not look at it again     *)
(* before it is set up anew.  Home Assistant keeps the trackers it was     *)
(* given in its registry, whose entries outlive reloads and restarts and   *)
(* may be disabled; a tracker that is disabled is refused.  A set-up       *)
(* removes from the registry what the options no longer want.              *)
(*                                                                         *)
(* Devices do not depend on each other: a behaviour is about one device.   *)
(***************************************************************************)
EXTENDS FiniteSets

CONSTANTS
    Entries,        \* the routers set up in Home Assistant
    NoEntry

VARIABLES
    random,         \* the device has a random MAC: its tracker starts disabled
    loaded,         \* entries that are set up
    options,        \* options[e]: what e is to track
    history,        \* history[e]: how e has seen the device
    everWireless,   \* wireless_history, shared, of this run of Home Assistant
    tracked,        \* entries that have it in their tracked_macs
    registered,     \* it is in registered_macs, which the entries share
    live,           \* entries that have a tracker of it in Home Assistant
    owner,          \* the entry of its registry entry
    disabled,       \* the registry entry is disabled
    clashed         \* ghost: this step handed over an id that is in use

vars == <<random, loaded, options, history, everWireless, tracked, registered,
          live, owner, disabled, clashed>>

\* tracking: devices are tracked, and not by MQTT; chosen: the devices the user
\* chose, if any.
Options == [tracking : BOOLEAN, wired : BOOLEAN, skipRandom : BOOLEAN,
            chosen : {"all", "it", "others"}]

Init ==
    /\ random \in BOOLEAN
    /\ loaded = {}
    /\ options \in [Entries -> {o \in Options : o.tracking /\ o.chosen = "all"
                                                 /\ (o.skipRandom => random)}]
    /\ history = [e \in Entries |-> "none"]
    /\ everWireless = FALSE
    /\ tracked = {} /\ registered = FALSE /\ live = {}
    /\ owner = NoEntry /\ disabled = FALSE
    /\ clashed = FALSE

-----------------------------------------------------------------------------
(* _async_add_new_devices, with options o of entry e, which has seen the     *)
(* device as h.                                                             *)

\* Connected devices, the history, the chosen devices, and the registry.
Candidate(e, o, h) ==
    \/ o.chosen = "it"
    \/ o.chosen = "all" /\ (h # "none" \/ owner = e)

Wanted(e, o, h) ==
    /\ o.tracking
    /\ Candidate(e, o, h)
    /\ random => ~o.skipRandom
    /\ o.wired \/ h = "wireless" \/ everWireless

\* Bug for the tests of the properties: another entry's tracker does not count.
NewHere(e, wanted, mine) == wanted /\ ~mine

\* Entry e makes a tracker.
New(e, wanted, mine) == wanted /\ ~mine /\ ~registered

\* Home Assistant refuses it: it is disabled, by default or by the user.
Refused == IF owner = NoEntry THEN random ELSE disabled

\* The listener of e, which had the device tracked or not (mine); at a set-up
\* the clean-up may come right after it.
Processes(e, wanted, mine, cleaned) ==
    LET new == New(e, wanted, mine)
        added == new /\ ~Refused /\ live = {}
        own == IF new THEN e ELSE owner
        removed == cleaned /\ own = e
    IN /\ tracked' = IF mine \/ wanted THEN tracked \cup {e} ELSE tracked \ {e}
       /\ live' = (IF added THEN live \cup {e} ELSE live) \ (IF removed THEN {e} ELSE {})
       /\ registered' = ((registered \/ new) /\ ~(removed /\ (added \/ e \in live)))
       /\ owner' = IF removed THEN NoEntry ELSE own
       /\ disabled' = (~removed /\ IF new THEN Refused ELSE disabled)
       /\ clashed' = (new /\ live # {})

\* A poll may list the device, unless it is not a chosen one or has a random
\* address and those are skipped.
Listed(e, o) ==
    IF o.chosen = "others" \/ (random /\ o.skipRandom) THEN {history[e]}
    ELSE {history[e], "wireless"} \cup (IF history[e] = "none" THEN {"wired"} ELSE {})

\* The history of an entry is stored; the set of all of them is filled from it.
Sees(e, seen) ==
    /\ history' = [history EXCEPT ![e] = seen]
    /\ everWireless' = (everWireless \/ seen = "wireless")

PollPublished(e) ==
    /\ e \in loaded
    /\ \E seen \in Listed(e, options[e]) :
        /\ Sees(e, seen)
        /\ Processes(e, Wanted(e, options[e], seen), e \in tracked, FALSE)
    /\ UNCHANGED <<random, loaded, options>>

-----------------------------------------------------------------------------
\* Unloading removes the tracker from Home Assistant, which gives up its place in
\* the set (async_will_remove_from_hass).
KeepsPlace(e) == registered /\ e \notin live

Unload(e) ==
    /\ e \in loaded
    /\ loaded' = loaded \ {e}
    /\ registered' = KeepsPlace(e)
    /\ live' = live \ {e}
    /\ tracked' = tracked \ {e}
    /\ clashed' = FALSE
    /\ UNCHANGED <<random, options, history, everWireless, owner, disabled>>

\* _async_cleanup_entities, a job that runs once the trackers were added.
Unwanted(e, o, h) ==
    \/ ~o.tracking
    \/ o.chosen = "others"
    \/ ~o.wired /\ h = "wired"

\* An entry is set up, perhaps with new options, after its first poll.
Setup(e) ==
    /\ e \notin loaded
    /\ \E o \in {p \in Options : p.skipRandom => random} :
        /\ options' = [options EXCEPT ![e] = o]
        /\ \E seen \in Listed(e, o) :
            /\ Sees(e, seen)
            /\ Processes(e, Wanted(e, o, seen), FALSE, Unwanted(e, o, seen))
    /\ loaded' = loaded \cup {e}
    /\ UNCHANGED random

\* The user deletes an entry, with what the registry has of it, and sets up the
\* router once more.
Delete(e) ==
    /\ e \notin loaded
    /\ history' = [history EXCEPT ![e] = "none"]
    /\ IF owner = e THEN owner' = NoEntry /\ disabled' = FALSE
                    ELSE UNCHANGED <<owner, disabled>>
    /\ clashed' = FALSE
    /\ UNCHANGED <<random, loaded, options, everWireless, tracked, registered, live>>

\* The user enables or disables the tracker in the registry; a disabled one is
\* removed from Home Assistant, an enabled one waits for its entry to reload.
Toggle ==
    /\ owner # NoEntry
    /\ disabled' = ~disabled
    /\ live' = IF disabled THEN live ELSE {}
    /\ registered' = (registered /\ (disabled \/ live = {}))
    /\ clashed' = FALSE
    /\ UNCHANGED <<random, loaded, options, history, everWireless, tracked, owner>>

\* Home Assistant restarts: what the entries share begins anew.
Restart ==
    /\ loaded' = {} /\ everWireless' = FALSE
    /\ tracked' = {} /\ registered' = FALSE /\ live' = {}
    /\ clashed' = FALSE
    /\ UNCHANGED <<random, options, history, owner, disabled>>

Next ==
    \/ \E e \in Entries : PollPublished(e) \/ Unload(e) \/ Setup(e) \/ Delete(e)
    \/ Toggle
    \/ Restart

Spec == Init /\ [][Next]_vars

-----------------------------------------------------------------------------
(* Properties. *)

TypeOK ==
    /\ {random, everWireless, registered, disabled, clashed} \subseteq BOOLEAN
    /\ {loaded, tracked, live} \subseteq SUBSET Entries
    /\ options \in [Entries -> Options]
    /\ history \in [Entries -> {"none", "wired", "wireless"}]
    /\ owner \in Entries \cup {NoEntry}

\* However entries are loaded, unloaded and deleted, with whatever options, and
\* trackers disabled and enabled: no entry hands Home Assistant a tracker of a
\* device that another entry's tracker stands for, and a tracker is in the
\* registry, enabled, for the entry that has it.
OneTrackerPerDevice ==
    /\ ~clashed
    /\ \A e \in live : e \in loaded /\ owner = e /\ ~disabled

-----------------------------------------------------------------------------
(* What the code's comments say and TLC refutes (see README.md).            *)

\* "Check if this MAC has already been registered by ANY integration instance":
\* a device that a loaded entry tracks has a tracker, unless that is disabled.
EveryDeviceIsTracked ==
    \A e \in loaded : Wanted(e, options[e], history[e]) => disabled \/ live # {}

=============================================================================
