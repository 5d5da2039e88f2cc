---------------------------- MODULE MqttDiscovery ----------------------------
(***************************************************************************)
(* The announcement of a device on MQTT (coordinator/discovery.py).        *)
(*                                                                         *)
(* Entries with the option "MQTT presence" announce the devices they list  *)
(* in a retained topic that has the MAC address in it and nothing of the   *)
(* entry; when the option is switched off, they clear it.  Each remembers  *)
(* what it announced until it is set up again.  Two flags, kept in the     *)
(* store of the history, say that a clear-up is due: the entry has had the *)
(* option, and it has not cleared up since.  A poll writes that store      *)
(* twice, first the history alone, in an old form without flags, then      *)
(* everything.  The loops over the history are tasks of their own, which   *)
(* a reload of the entry does not end.                                     *)
(*                                                                         *)
(* A behaviour is about one device.                                        *)
(***************************************************************************)
EXTENDS FiniteSets

CONSTANTS Entries

VARIABLES
    broker,         \* MQTT in Home Assistant: "none", "starting", "up"
    topic,          \* the discovery topic of the device is retained
    loaded,         \* entries that are set up
    presence,       \* entries with the option
    chosen,         \* entries that track the device, as far as the user chose
    mem,            \* mem[e]: history and flags of the coordinator
    stored,         \* stored[e]: the same on disk
    announced,      \* entries with the device in _mqtt_discovered
    started,        \* entries with _mqtt_discovery_started
    polling,        \* entries in a poll, between its two writes
    loops,          \* tasks: pairs of an entry and "start" or "clean"
    interrupted     \* ghost: a poll or a loop was under way at an unload or a stop,
                    \* or a clear-up met a broker that was not ready

options == <<presence, chosen>>
vars == <<broker, topic, loaded, options, mem, stored, announced, started, polling,
          loops, interrupted>>

Flags == [history : BOOLEAN, configured : BOOLEAN, done : BOOLEAN]

Nothing == [history |-> FALSE, configured |-> FALSE, done |-> FALSE]

Init ==
    /\ broker \in {"none", "up"} /\ topic = FALSE
    /\ loaded = {} /\ presence = {} /\ chosen = Entries
    /\ mem = [e \in Entries |-> Nothing] /\ stored = mem
    /\ announced = {} /\ started = {} /\ polling = {}
    /\ loops = {}
    /\ interrupted = FALSE

-----------------------------------------------------------------------------
(* The messages.                                                            *)

\* _async_discovery_mqtt_device
Announces(e) ==
    IF broker = "up" /\ e \notin announced
    THEN topic' = TRUE /\ announced' = announced \cup {e}
    ELSE UNCHANGED <<topic, announced>>

\* _async_discovery_mqtt_device_cleanup: the discovery topic goes, whoever else
\* may have announced the device; only the topics of its state are spared then.
Clears(e) ==
    /\ topic' = (topic /\ broker # "up")
    /\ announced' = announced \ {e}

SendsNothing == UNCHANGED <<topic, announced>>

-----------------------------------------------------------------------------
(* A poll.                                                                  *)

\* The filter of a poll: the device is listed, or not.
PollFilters(e) ==
    /\ e \in loaded \ polling
    /\ polling' = polling \cup {e}
    /\ \/ SendsNothing /\ UNCHANGED <<mem, stored>>
       \/ /\ e \notin chosen
          /\ IF e \in presence \cap announced THEN Clears(e) ELSE SendsNothing
          /\ UNCHANGED <<mem, stored>>
       \/ /\ e \in chosen
          /\ IF e \in presence THEN Announces(e) ELSE SendsNothing
          /\ mem' = [mem EXCEPT ![e].history = TRUE]
          /\ stored' = [stored EXCEPT ![e] = [Nothing EXCEPT !.history = TRUE]]
    /\ UNCHANGED <<broker, loaded, options, started, loops, interrupted>>

\* The flags a poll leaves.
FlagsAfter(e, m) ==
    IF e \in presence THEN [m EXCEPT !.configured = TRUE, !.done = FALSE] ELSE m

\* The rest of it: the flags, a loop if one is due, and the second write.
PollSaves(e) ==
    /\ e \in polling
    /\ polling' = polling \ {e}
    /\ mem' = [mem EXCEPT ![e] = FlagsAfter(e, mem[e])]
    /\ stored' = [stored EXCEPT ![e] = FlagsAfter(e, mem[e])]
    /\ IF e \in presence
       THEN /\ started' = started \cup {e}
            /\ loops' = IF e \in started THEN loops ELSE loops \cup {<<e, "start">>}
       ELSE /\ loops' = IF mem[e].configured /\ ~mem[e].done
                        THEN loops \cup {<<e, "clean">>} ELSE loops
            /\ UNCHANGED started
    /\ UNCHANGED <<broker, topic, loaded, options, announced, interrupted>>

-----------------------------------------------------------------------------
(* _async_discovery_loop.                                                   *)

\* It waits a minute for MQTT, then gives up for good.
LoopStarts(e) ==
    /\ <<e, "start">> \in loops
    /\ loops' = loops \ {<<e, "start">>}
    /\ IF broker # "up" \/ ~mem[e].history THEN SendsNothing
       ELSE IF e \in chosen THEN Announces(e) ELSE Clears(e)
    /\ UNCHANGED <<broker, loaded, options, mem, stored, started, polling, interrupted>>

\* A clear-up looks at the history, not at what is chosen.
ClearsHistory(e) == IF mem[e].history THEN Clears(e) ELSE SendsNothing

\* Without the integration it does nothing; without a broker it counts as done.
LoopCleans(e) ==
    /\ <<e, "clean">> \in loops
    /\ loops' = loops \ {<<e, "clean">>}
    /\ IF broker = "up" THEN ClearsHistory(e) ELSE SendsNothing
    /\ IF broker = "none" THEN UNCHANGED <<mem, stored>>
       ELSE LET m == [mem[e] EXCEPT !.configured = FALSE, !.done = TRUE]
            IN mem' = [mem EXCEPT ![e] = m] /\ stored' = [stored EXCEPT ![e] = m]
    /\ interrupted' = (interrupted \/ broker = "starting")
    /\ UNCHANGED <<broker, loaded, options, started, polling>>

-----------------------------------------------------------------------------
(* The entry and Home Assistant.                                            *)

\* Unloading ends a poll where it is; a loop goes on beside the new coordinator
\* (and, in the code, with the flags of the old one).
Unload(e) ==
    /\ e \in loaded
    /\ loaded' = loaded \ {e}
    /\ polling' = polling \ {e}
    /\ interrupted' = (interrupted \/ e \in polling \/ \E l \in loops : l[1] = e)
    /\ UNCHANGED <<broker, topic, options, mem, stored, announced, started, loops>>

\* Bug for the tests of the properties: the flags are not read.
LoadsHistory(s) == [Nothing EXCEPT !.history = s.history]

Loads(s) == s

\* It is set up, perhaps with new options.
Setup(e) ==
    /\ e \notin loaded
    /\ loaded' = loaded \cup {e}
    /\ presence' \in {presence \cup {e}, presence \ {e}}
    /\ chosen' \in {chosen \cup {e}, chosen \ {e}}
    /\ mem' = [mem EXCEPT ![e] = Loads(stored[e])]
    /\ announced' = announced \ {e}
    /\ started' = started \ {e}
    /\ UNCHANGED <<broker, topic, stored, polling, loops, interrupted>>

Stop ==
    /\ loaded' = {} /\ polling' = {} /\ loops' = {}
    /\ interrupted' = (interrupted \/ polling # {} \/ loops # {})
    /\ UNCHANGED <<broker, topic, options, mem, stored, announced, started>>

\* The user sets up MQTT, and its integration is loaded and unloaded.
BrokerChanges ==
    /\ broker' \in {"starting", "up"} \ {broker}
    /\ UNCHANGED <<topic, loaded, options, mem, stored, announced, started, polling,
                   loops, interrupted>>

Steps(e) == PollFilters(e) \/ PollSaves(e) \/ LoopStarts(e) \/ LoopCleans(e)

Next ==
    \/ \E e \in Entries : Steps(e) \/ Unload(e) \/ Setup(e)
    \/ Stop
    \/ BrokerChanges

Spec == Init /\ [][Next]_vars

\* Polls recur, and loops come to their end.
Fairness ==
    \A e \in Entries :
        WF_vars(PollFilters(e)) /\ WF_vars(PollSaves(e)) /\ WF_vars(LoopStarts(e))
            /\ WF_vars(LoopCleans(e))

FairSpec == Spec /\ Fairness

-----------------------------------------------------------------------------
(* Properties. *)

TypeOK ==
    /\ broker \in {"none", "starting", "up"}
    /\ {topic, interrupted} \subseteq BOOLEAN
    /\ {loaded, presence, chosen, announced, started} \subseteq SUBSET Entries
    /\ {mem, stored} \subseteq [Entries -> Flags]
    /\ polling \subseteq loaded
    /\ loops \subseteq Entries \X {"start", "clean"}

\* No entry has the option any more, nothing was interrupted, and the broker is there.
SwitchedOff ==
    loaded = Entries /\ presence = {} /\ broker = "up" /\ ~interrupted

\* However often the option was switched on and off before, by two entries and for
\* whatever devices: once it is off for good, no device stays announced.
SwitchedOffIsCleared == <>[]SwitchedOff => <>[]~topic

-----------------------------------------------------------------------------
(* What docstrings of the code say and TLC refutes (see README.md).         *)

\* The same without "nothing was interrupted".
AlwaysCleared ==
    <>[](loaded = Entries /\ presence = {} /\ broker = "up") => <>[]~topic

\* What an entry holds for announced is announced.
AnnouncedIsRetained == \A e \in loaded \cap announced : topic

=============================================================================
