--------------------------- MODULE EntityPlatforms ---------------------------
(***************************************************************************)
(* Which entities an entry has.                                            *)
(*                                                                         *)
(* Every platform (switch.py, sensor.py, ...) registers a listener that    *)
(* runs after each poll and adds an entity for everything the poll lists,  *)
(* if the permissions, the installed packages and the options of the entry *)
(* allow it.  Keys of a set remember what was added, until the entry is    *)
(* set up again.  When it is, __init__.py first removes the entities of    *)
(* disabled features from Home Assistant's registry, the listeners run for *)
(* the first time, and the platform then removes what it calls orphaned.   *)
(* A registry entry that is removed takes with it what the user has made   *)
(* of the entity: its name, its area, its being disabled.                  *)
(*                                                                         *)
(* The entities come in kinds, which share no keys and no unique ids; a    *)
(* behaviour is about one kind.  What an entity shows is left out, and so  *)
(* are the devices that only a DHCP lease lists.                           *)
(***************************************************************************)
EXTENDS Naturals, FiniteSets, EntityKinds

CONSTANTS Kinds

VARIABLES
    kind,       \* the kind of entity this behaviour is about
    option,     \* the option of its feature: "on", "off", "unset", or "data"
                \* (set in the data of the entry by the config flow, no option)
    wired,      \* option "track wired devices"
    random,     \* the device has a random MAC address ...
    skip,       \* ... and the option is to skip those
    running,    \* the entry is set up
    data,       \* what the last poll says
    history,    \* the device in the history: "none", "wired", "wireless"
    tracked,    \* the keys of the platform
    live,       \* the entities of this run, by unique id
    registry,   \* the entity registry
    lost,       \* ghost: entities this set-up has removed and created
    clashed     \* ghost: this step handed Home Assistant a unique id twice

vars == <<kind, option, wired, random, skip, running, data, history, tracked,
          live, registry, lost, clashed>>

K == Table[kind]

Options == {"on", "off", "unset", "data"}

Things == IF K.many THEN {1, 2} ELSE {1}

\* The polls that tell the kinds apart: what is listed and in which state; the
\* rest of the list is not empty; permission, package, and how the device is
\* connected.
Polls ==
    [seen: IF K.seen THEN {s \in SUBSET Things : K.device = "no" \/ Cardinality(s) < 2}
           ELSE {{1}},
     item: IF K.cleanup \cap {"bare", "other"} = {} THEN {"full"} ELSE {"bare", "full"},
     others: IF K.cleanup \cap {"gone", "other"} = {} THEN {TRUE} ELSE BOOLEAN,
     perm: IF K.perm THEN BOOLEAN ELSE {TRUE},
     pkg: IF K.pkg = "any" THEN {"yes"} ELSE {"yes", "no", "unknown"},
     wireless: IF K.device = "no" THEN {FALSE} ELSE BOOLEAN]

Init ==
    /\ kind \in Kinds
    /\ option \in Options
    /\ (option = "data") => (K.option = "data")
    /\ wired \in BOOLEAN /\ random \in BOOLEAN /\ skip \in BOOLEAN
    /\ (K.device = "no") => (wired /\ ~random)
    /\ random \/ skip
    /\ running = FALSE
    /\ data = [seen |-> {}, item |-> "full", others |-> TRUE, perm |-> TRUE,
               pkg |-> "yes", wireless |-> FALSE]
    /\ history = "none"
    /\ tracked = {} /\ live = {} /\ registry = {}
    /\ lost = FALSE /\ clashed = FALSE

-----------------------------------------------------------------------------
(* The listener of a platform.                                             *)

Key(v) == IF K.key = "one" THEN 1 ELSE v
Id(v) == IF K.id = "one" THEN 1 ELSE v

\* entry.options.get(option, default), for the features the config flow leaves
\* in the data of the entry with those as the default.
Enabled(o) ==
    CASE K.option = "none" -> TRUE
      [] K.option = "data" -> o \in {"on", "data"}
      [] OTHER -> o = "on" \/ (o = "unset" /\ K.option = "on")

DeviceAllowed(d) ==
    CASE K.device = "no" -> TRUE
      [] K.device = "access" -> ~(skip /\ random) /\ (wired \/ d.wireless)
      [] K.device = "sensors" -> ~(skip /\ random) /\ (wired \/ d.wireless \/ random)
      [] K.device = "wol" -> ~(skip /\ random) /\ wired /\ ~d.wireless
      [] K.device = "kick" -> ~(skip /\ random) /\ d.wireless

PackageAllowed(d) ==
    CASE K.pkg = "any" -> TRUE
      [] K.pkg = "notNo" -> d.pkg # "no"
      [] K.pkg = "yes" -> d.pkg = "yes"

\* The thing is considered at all.
Allowed(o, d) ==
    /\ K.perm => d.perm
    /\ Enabled(o) /\ DeviceAllowed(d) /\ PackageAllowed(d)

Adds(o, d, keys, reg) ==
    IF Allowed(o, d) /\ d.item \in K.adds
    THEN {v \in d.seen : Key(v) \notin keys \/ (K.rescues /\ Id(v) \notin reg)}
    ELSE {}

\* Bug for the tests of the properties: what is seen without the permission or
\* the package counts as added.
MarksBeforeTheGate(o, d) ==
    IF d.item \in K.marks THEN {Key(v) : v \in d.seen} ELSE {}

Marks(o, d) ==
    IF Allowed(o, d) /\ d.item \in K.marks THEN {Key(v) : v \in d.seen} ELSE {}

\* update_device_history comes before the listeners.
HistoryAfter(d) ==
    IF K.device = "no" \/ d.seen = {} \/ (skip /\ random) THEN history
    ELSE IF d.wireless \/ history = "wireless" THEN "wireless" ELSE "wired"

\* async_add_entities: an id that exists is refused.
Clashes(new, present) ==
    \/ Cardinality(new) > Cardinality({Id(v) : v \in new})
    \/ {Id(v) : v \in new} \cap present # {}

PollPublished ==
    /\ running
    /\ \E d \in Polls :
        /\ data' = d
        /\ history' = HistoryAfter(d)
        /\ LET new == Adds(option, d, tracked, registry)
           IN /\ tracked' = tracked \cup Marks(option, d)
              /\ live' = live \cup {Id(v) : v \in new}
              /\ registry' = registry \cup {Id(v) : v \in new}
              /\ clashed' = Clashes(new, live)
    /\ lost' = FALSE
    /\ UNCHANGED <<kind, option, wired, random, skip, running>>

-----------------------------------------------------------------------------
(* A set-up: after a start of Home Assistant, a reload, or new options.     *)

\* _async_cleanup_disabled_features looks at the options alone.
Disabled(o) == K.disabled # "no" /\ o # "on" /\ (o = "unset" => K.disabled # "on")

RemoveDisabled(o, reg) == IF Disabled(o) THEN {} ELSE reg

\* The reasons of _async_cleanup_entities for the entity of thing v.
Orphaned(o, d, h, v) ==
    \/ "gone" \in K.cleanup /\ v \notin d.seen /\ d.others
    \/ "missing" \in K.cleanup /\ v \notin d.seen
    \/ "bare" \in K.cleanup /\ d.item = "bare"
    \/ "other" \in K.cleanup /\ d.item = "bare" /\ d.others
    \/ "untracked" \in K.cleanup /\ o = "off"
    \/ "wired" \in K.cleanup /\ ~wired /\ h = "wired"
    \/ "wireless" \in K.cleanup /\ h = "wireless"
    \/ "option" \in K.cleanup /\ ~Enabled(o)

Setup ==
    /\ \E o \in {option, "on", "off"}, d \in Polls :
        LET kept == RemoveDisabled(o, registry)
            new == Adds(o, d, {}, {})
            added == {Id(v) : v \in new}
            orphans == {u \in kept \cup added : Orphaned(o, d, HistoryAfter(d), u)}
        IN /\ option' = o
           /\ data' = d
           /\ history' = HistoryAfter(d)
           /\ tracked' = Marks(o, d)
           /\ live' = added \ orphans
           /\ registry' = (kept \cup added) \ orphans
           /\ clashed' = Clashes(new, {})
           /\ lost' = (((registry \ kept) \cup orphans) \cap added # {})
    /\ running' = TRUE
    /\ UNCHANGED <<kind, wired, random, skip>>

Next == PollPublished \/ Setup

Spec == Init /\ [][Next]_vars

-----------------------------------------------------------------------------
(* Properties. *)

TypeOK ==
    /\ kind \in Kinds /\ option \in Options
    /\ {wired, random, skip, running, lost, clashed} \subseteq BOOLEAN
    /\ running => data \in Polls
    /\ history \in {"none", "wired", "wireless"}
    /\ {tracked, live} \subseteq SUBSET Things
    /\ live \subseteq registry /\ registry \subseteq Things

\* Kinds whose entities a poll or a set-up can leave out, or remove at once,
\* although it lists the thing (README, "Where the code and its documentation
\* part"): the address an interface did not have when it was first seen, the
\* wake-on-LAN button of a device that was wireless once, the kick button of one
\* that was met on an interface the poll did not list, the sensors of a wired
\* device with a random address.
LeftOut ==
    \/ kind \in {"addressSensor", "wolButton", "kickButton"}
    \/ kind \in {"deviceSensor", "nlbwmonSensor"} /\ random /\ ~wired

\* Whatever the polls before, and however permissions, packages and options came
\* and went: what a poll lists and the entry may show has its entity.
EveryThingHasItsEntity ==
    running /\ data.item = "full" /\ Allowed(option, data) /\ ~LeftOut
        => {Id(v) : v \in data.seen} \subseteq live

\* Kinds that take no notice of the option their removal goes by.
Unaware == {"sqmLimit", "nlbwmonSensor"}

\* "so entities are never created and removed again on every reload"
\* (tailscale.py): a set-up removes and creates no entity of an option that the
\* user has stored, nor of Tailscale when it is unset.
Tailscale == {"tailscaleSensor", "tailscaleStatus", "tailscalePeer"}

KeptOverReloads ==
    (option \in {"on", "off"} \/ (option = "unset" /\ kind \in Tailscale))
        /\ kind \notin Unaware /\ ~LeftOut /\ data.item = "full"
        => ~lost

-----------------------------------------------------------------------------
(* What comments of the code say and TLC refutes (see README.md).           *)

\* The same of all options: most defaults of the removal are not the platforms'.
KeptWithDefaults == kind \notin Unaware /\ ~LeftOut /\ data.item = "full" => ~lost

\* "Group credentials by SSID to avoid duplicates"
NoIdTwice == ~clashed

=============================================================================
