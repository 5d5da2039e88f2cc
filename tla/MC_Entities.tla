----------------------------- MODULE MC_Entities -----------------------------
(***************************************************************************)
(* Instances of Trackers, EntityPlatforms, NewDeviceEvent and RadioDevices *)
(* for TLC, in one run: a device and the two entries that may track it, an *)
(* entity of each sort, the events about two devices, and the registry's   *)
(* devices of two networks and a client.  Which of the four moves is       *)
(* chosen at the start; the others rest.                                   *)
(***************************************************************************)
EXTENDS Trackers, EntityKinds, TLC

CONSTANTS
    e1, e2, Kinds, Macs, Grace,
    i1, i2, s1, s2, Interfaces, SSIDs, Transports, Away, NoName, Router, NoDevice

VARIABLES
    part,
    kind, option, wired, randomMac, skip, running, data, seenAs, keys, entities,
    registry, lost, twice,
    up, ok, connected, known, age, events, missed, unknown,
    transport, ssid, on, place, first, listed, stableId, devices, parent

Platform == INSTANCE EntityPlatforms
    WITH random <- randomMac, history <- seenAs, tracked <- keys, live <- entities,
         clashed <- twice

Event == INSTANCE NewDeviceEvent WITH data <- connected

Radio == INSTANCE RadioDevices

ASSUME EventValues == Event!GracePositive

ASSUME PlatformValues == Kinds \subseteq DOMAIN Platform!Table

\* One kind for each set of rules.
OneOfEachSort ==
    {k \in DOMAIN Table : k = CHOOSE j \in DOMAIN Table : Table[j] = Table[k]}

\* Nothing tells two entries apart, nor two networks, nor their names.
Symmetric ==
    Permutations(Entries) \cup Permutations(Interfaces) \cup Permutations(SSIDs)

platformVars == <<kind, option, wired, randomMac, skip, running, data, seenAs, keys,
                  entities, registry, lost, twice>>
eventVars == <<up, ok, connected, known, age, events, missed, unknown>>
radioVars == <<transport, ssid, on, place, first, listed, stableId, devices, parent>>
entitiesVars == <<part, vars, platformVars, eventVars, radioVars>>

EntitiesInit ==
    /\ Init /\ Platform!Init /\ Event!Init /\ Radio!Init
    /\ part \in {"platforms", "trackers", "event", "networks"}
    /\ part # "platforms" =>
          kind = "systemSensor" /\ option = "on" /\ wired /\ ~randomMac /\ skip
    /\ part # "trackers" =>
          ~random /\ \A e \in Entries : options[e].wired /\ ~options[e].skipRandom
    /\ part # "networks" =>
          /\ transport = CHOOSE t \in Transports : TRUE
          /\ \E s \in SSIDs : ssid = [i \in Interfaces |-> s]
          /\ on = [i \in Interfaces |-> FALSE]

EntitiesNext ==
    \/ /\ part = "platforms" /\ Platform!Next
       /\ UNCHANGED <<part, vars, eventVars, radioVars>>
    \/ part = "trackers" /\ Next /\ UNCHANGED <<part, platformVars, eventVars, radioVars>>
    \/ part = "event" /\ Event!Next /\ UNCHANGED <<part, vars, platformVars, radioVars>>
    \/ part = "networks" /\ Radio!Next /\ UNCHANGED <<part, vars, platformVars, eventVars>>

EntitiesSpec == EntitiesInit /\ [][EntitiesNext]_entitiesVars

-----------------------------------------------------------------------------
(* The properties of the four. *)

\* The type invariants.
TypesOK == TypeOK /\ Platform!TypeOK /\ Event!TypeOK /\ Radio!TypeOK

\* What a poll lists has its entity, if it may (EntityPlatforms).
EveryThingHasItsEntity == Platform!EveryThingHasItsEntity

\* A set-up removes no entity that it creates again (EntityPlatforms).
KeptOverReloads == Platform!KeptOverReloads

\* A device that is told gone was in no poll for the grace (NewDeviceEvent).
DisconnectMeansGone == Event!DisconnectMeansGone

\* A client's device is moved below the one of its network (RadioDevices).
BelowItsNetwork == Radio!BelowItsNetwork

=============================================================================
