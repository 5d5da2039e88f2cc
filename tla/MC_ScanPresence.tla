--------------------------- MODULE MC_ScanPresence ---------------------------
(***************************************************************************)
(* Four small models in one run of TLC: the presence scripts of two access *)
(* points, the first with two radios, the announcement of a device by two  *)
(* entries, the device lists of successive polls, and the life of an       *)
(* entry.  They share no variable; which one moves is chosen at the start. *)
(*                                                                         *)
(* What is said of the announcement excepts behaviours in which something  *)
(* was interrupted, and such a behaviour never ceases to be one; so it is  *)
(* not continued.                                                          *)
(***************************************************************************)
EXTENDS PresenceEvent, DeviceScan

CONSTANTS
    r1, r2, r3, ap1, ap2, Entries, Transports,
    Configured, MaxBackoff, EntryTransports, GpsAvailable, AutoBackup, MaxFailures,
    MaxOutages, MaxInstalls

VARIABLES
    part, transport, answer, others, listed,
    mqtt, topic, loaded, presence, chosen, mem, stored, announced, started,
    polling, loops, interrupted,
    client, up, accepts, gps, entry, connected, poll, hasData, interval, lastOk,
    lostIssue, authIssue, flag, install, contact, failures, rebooted, outages,
    installs

Scans == INSTANCE DeviceScanPolls WITH device <- listed

Discovery == INSTANCE MqttDiscovery WITH broker <- mqtt

Life == INSTANCE Coordinator WITH transport <- client, Transports <- EntryTransports

ASSUME PollsValues == Scans!PollsConstants
ASSUME LifeValues == Life!CoordinatorConstants

ThreeRadios == [i \in {r1, r2, r3} |-> IF i = r3 THEN ap2 ELSE ap1]

discoveryVars == <<mqtt, topic, loaded, presence, chosen, mem, stored, announced,
                   started, polling, loops, interrupted>>
scanVars == <<transport, answer, others, listed>>
lifeVars == <<client, up, accepts, gps, entry, connected, poll, hasData, interval,
              lastOk, lostIssue, authIssue, flag, install, contact, failures, rebooted,
              outages, installs>>
partVars == <<part, vars, scanVars, discoveryVars, lifeVars>>

PartInit ==
    /\ Init /\ Scans!Init /\ Discovery!Init /\ Life!Init
    /\ part \in {"presence", "scan", "discovery", "life"}
    /\ part # "scan" => transport = "ubus" /\ answer = CHOOSE a \in Answers : TRUE
    /\ part # "discovery" => mqtt = "up"
    /\ part # "life" => client = CHOOSE t \in EntryTransports : TRUE

ScriptStep(A) == part = "presence" /\ A /\ UNCHANGED <<part, scanVars, discoveryVars, lifeVars>>
ScanStep(A) == part = "scan" /\ A /\ UNCHANGED <<part, vars, discoveryVars, lifeVars>>
DiscoveryStep(A) ==
    part = "discovery" /\ A /\ UNCHANGED <<part, vars, scanVars, lifeVars>>
LifeStep(A) == part = "life" /\ A /\ UNCHANGED <<part, vars, scanVars, discoveryVars>>

PartNext ==
    \/ ScriptStep(Next)
    \/ ScanStep(Scans!Next)
    \/ DiscoveryStep(~interrupted /\ Discovery!Next)
    \/ LifeStep(Life!Next)

\* The fairness of MqttDiscovery and Coordinator, for the one that moves.
PartFairness ==
    /\ \A e \in Entries :
          /\ WF_partVars(DiscoveryStep(Discovery!PollFilters(e)))
          /\ WF_partVars(DiscoveryStep(Discovery!PollSaves(e)))
          /\ WF_partVars(DiscoveryStep(Discovery!LoopStarts(e)))
          /\ WF_partVars(DiscoveryStep(Discovery!LoopCleans(e)))
    /\ WF_partVars(LifeStep(Life!SetupStep))
    /\ WF_partVars(LifeStep(Life!PollStart))
    /\ WF_partVars(LifeStep(Life!PollStep))
    /\ SF_partVars(LifeStep(Life!FetchAnswered))
    /\ SF_partVars(LifeStep(Life!PollConnects))

PartSpec == PartInit /\ [][PartNext]_partVars /\ PartFairness

-----------------------------------------------------------------------------
\* The type invariants.
TypesOK ==
    TypeOK /\ (part = "scan" => Scans!TypeOK) /\ Discovery!TypeOK
        /\ Life!TypeOK

\* More evidence never makes a device count as away (DeviceScanPolls).
MoreEvidenceNeverDisconnects == Scans!MoreEvidenceNeverDisconnects

\* Once MQTT presence is off for good, no device stays announced (MqttDiscovery).
SwitchedOffIsCleared == Discovery!SwitchedOffIsCleared

\* An entry whose router is back recovers (Coordinator).
EntryRecovers == part = "life" => Life!Recovers

=============================================================================
