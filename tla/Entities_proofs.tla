---------------------------- MODULE Entities_proofs ----------------------------
(***************************************************************************)
(* Proofs about the entities of an entry, for every kind of the table of   *)
(* EntityKinds; about the events of connected devices and the device of a  *)
(* client below its network, for any devices, networks and period of       *)
(* grace; and about the trackers that several entries have of one device,  *)
(* in whatever order they are set up, polled, unloaded and deleted.        *)
(***************************************************************************)
EXTENDS MC_Entities, Integers, TLAPS

-----------------------------------------------------------------------------
(* The events of connected devices.                                        *)

EventTypesOK ==
    /\ age \in [Macs -> 0 .. Grace + 2]
    /\ missed \in [Macs -> 0 .. Grace + 1]

\* A device that is held for connected has its time stamp from a good poll that
\* listed it or from a later one: it has not been away for less.  Before the first
\* set-up none is.
StampsAreLate == \A m \in Macs : age[m] # Event!Gone => up /\ age[m] <= missed[m]

EventIInv == EventTypesOK /\ StampsAreLate /\ DisconnectMeansGone

\* An update, after a good poll or the first failed one, tells gone only who has
\* been away for longer than the grace.
LEMMA EventUpdates ==
    ASSUME EventTypesOK, StampsAreLate, NEW present, NEW remembered,
           Event!Update(present, remembered),
           missed' \in [Macs -> 0 .. Grace + 1],
           \A m \in Macs : m \in present \/ missed'[m] = missed[m]
    PROVE  up' = up => EventIInv'
<1> SUFFICES ASSUME up' = up PROVE EventIInv'
  OBVIOUS
<1> USE EventValues DEF Event!GracePositive, Event!Gone
<1>1. CASE up
  <2>1. /\ age' = Event!Stamps(present, age)
        /\ events' = Event!Fired(present, age, remembered)
    BY <1>1 DEF Event!Update
  <2>2. \A m \in Macs : age'[m] = IF m \in present THEN 0
                                  ELSE IF age[m] = Grace + 1 THEN Grace + 2 ELSE age[m]
    BY <2>1 DEF Event!Stamps
  <2>3. age' \in [Macs -> 0 .. Grace + 2]
    BY <2>1, <2>2 DEF Event!Stamps, EventTypesOK
  <2>4. StampsAreLate'
    <3>1. up'
      BY <1>1
    <3>2. ASSUME NEW m \in Macs, age'[m] # Grace + 2
          PROVE  age'[m] <= missed'[m]
      <4>1. CASE m \in present
        BY <2>2, <4>1
      <4>2. CASE m \notin present
        BY <2>2, <3>2, <4>2 DEF StampsAreLate
      <4> QED
        BY <4>1, <4>2
    <3> QED
      BY <3>1, <3>2 DEF StampsAreLate
  <2>5. ASSUME NEW m \in Macs, <<m, "device_disconnected">> \in events'
        PROVE  m \notin present /\ age[m] = Grace + 1
    BY <2>1, <2>5 DEF Event!Fired, Event!Arrival
  <2>6. DisconnectMeansGone'
    BY <2>2, <2>5 DEF DisconnectMeansGone, Event!DisconnectMeansGone, StampsAreLate,
                      EventTypesOK
  <2> QED
    BY <2>3, <2>4, <2>6 DEF EventIInv, EventTypesOK
<1>2. CASE ~up
  <2>1. events' = {} /\ age' = age
    BY <1>2 DEF Event!Update
  <2>2. StampsAreLate'
    <3>1. \A m \in Macs : age'[m] = Grace + 2
      BY <1>2, <2>1 DEF StampsAreLate
    <3> QED
      BY <3>1 DEF StampsAreLate
  <2> QED
    BY <2>1, <2>2 DEF EventIInv, EventTypesOK, DisconnectMeansGone,
                      Event!DisconnectMeansGone
<1> QED
  BY <1>1, <1>2

\* Before the first set-up no device is held for connected.
LEMMA EventInitIInv == Event!Init => EventIInv
BY EventValues DEF EventIInv, EventTypesOK, StampsAreLate, DisconnectMeansGone,
   Event!DisconnectMeansGone, Event!Init, Event!Gone, Event!GracePositive

\* Every poll and every set-up keeps the invariant of the events.
LEMMA EventNextIInv == EventIInv /\ [Event!Next]_eventVars => EventIInv'
<1> SUFFICES ASSUME EventIInv, [Event!Next]_eventVars PROVE EventIInv'
  OBVIOUS
<1> USE EventValues DEF Event!GracePositive, Event!Gone
<1>1. EventTypesOK /\ StampsAreLate
  BY DEF EventIInv
<1>2. CASE UNCHANGED eventVars
  BY <1>2 DEF eventVars, EventIInv, EventTypesOK, StampsAreLate, DisconnectMeansGone,
              Event!DisconnectMeansGone
<1>3. CASE Event!Tick
  <2>1. /\ age' = [m \in Macs |-> Event!Later(age[m])]
        /\ missed' = [m \in Macs |-> Event!Later(missed[m])]
        /\ events' = {} /\ up' = up
    BY <1>3 DEF Event!Tick
  <2>2. \A t \in 0 .. Grace + 2 : Event!Later(t) = IF t <= Grace THEN t + 1 ELSE t
    BY DEF Event!Later
  <2>3. EventTypesOK'
    BY <1>1, <2>1, <2>2 DEF EventTypesOK
  <2>4. StampsAreLate'
    BY <1>1, <2>1, <2>2, <2>3 DEF EventTypesOK, StampsAreLate
  <2> QED
    BY <2>1, <2>3, <2>4 DEF EventIInv, DisconnectMeansGone, Event!DisconnectMeansGone
<1>4. CASE Event!PollPublished
  <2>1. PICK listing \in SUBSET Macs, present \in SUBSET Macs :
            /\ Event!Update(present, known \cup listing)
            /\ missed' = [m \in Macs |-> IF m \in present THEN 0 ELSE missed[m]]
    BY <1>4 DEF Event!PollPublished
  <2>2. up' = up
    BY <1>4 DEF Event!PollPublished
  <2>3. missed' \in [Macs -> 0 .. Grace + 1]
    BY <1>1, <2>1 DEF EventTypesOK
  <2> QED
    BY <1>1, <2>1, <2>2, <2>3, EventUpdates
<1>5. CASE Event!PollFailed
  <2>1. up' = up /\ missed' = missed
    BY <1>5 DEF Event!PollFailed
  <2>2. CASE ok
    BY <1>1, <1>5, <2>1, <2>2, EventUpdates DEF Event!PollFailed, EventTypesOK
  <2>3. CASE ~ok
    <3>1. events' = {} /\ age' = age
      BY <1>5, <2>3 DEF Event!PollFailed
    <3> QED
      BY <1>1, <2>1, <3>1 DEF EventIInv, EventTypesOK, StampsAreLate,
                              DisconnectMeansGone, Event!DisconnectMeansGone
  <2> QED
    BY <2>2, <2>3
<1>6. CASE Event!Setup
  <2>1. PICK listing \in SUBSET Macs, present \in SUBSET Macs :
            /\ age' = [m \in Macs |-> IF m \in present THEN 0 ELSE Grace + 2]
            /\ missed' = [m \in Macs |-> IF m \in present THEN 0 ELSE missed[m]]
    BY <1>6 DEF Event!Setup
  <2>2. up' = TRUE /\ events' = {}
    BY <1>6 DEF Event!Setup
  <2>3. EventTypesOK'
    BY <1>1, <2>1 DEF EventTypesOK
  <2>4. StampsAreLate'
    BY <2>1, <2>2 DEF StampsAreLate
  <2> QED
    BY <2>2, <2>3, <2>4 DEF EventIInv, DisconnectMeansGone, Event!DisconnectMeansGone
<1> QED
  BY <1>2, <1>3, <1>4, <1>5, <1>6 DEF Event!Next

-----------------------------------------------------------------------------
(* The device of a client below its network.                               *)

\* A client is at a network that is on, and its device below one that exists.
RadioIInv ==
    /\ place \in {i \in Interfaces : on[i]} \cup {Away}
    /\ on \in [Interfaces -> BOOLEAN]
    /\ parent \in devices \cup {Router, NoDevice}

\* Every new list of networks leaves the client's device below one that exists.
LEMMA ParentStays ==
    ASSUME RadioIInv, NEW at, NEW names, NEW provided
    PROVE  LET removed == Radio!Removed(provided)
               present == (devices \cup provided) \ removed
               moved == Radio!Moved(Radio!Reparented(at, names, devices \cup provided),
                                    removed)
           IN  Radio!Added(moved, at, names, present) \in present \cup {Router, NoDevice}
BY DEF RadioIInv, Radio!Removed, Radio!Moved, Radio!Reparented, Radio!Added, Radio!Via

\* At the start no client has a device.
LEMMA RadioInitIInv == Radio!Init => RadioIInv
BY DEF Radio!Init, RadioIInv

\* Every poll and every change of the radio keeps the invariant of the devices.
LEMMA RadioNextIInv == RadioIInv /\ [Radio!Next]_radioVars => RadioIInv'
<1> SUFFICES ASSUME RadioIInv, [Radio!Next]_radioVars PROVE RadioIInv'
  OBVIOUS
<1>1. CASE UNCHANGED radioVars
  BY <1>1 DEF radioVars, RadioIInv
<1>2. CASE Radio!Poll
  <2>1. PICK r \in Radio!Replies, at \in {place, Away} : Radio!PollWith(r, at)
    BY <1>2 DEF Radio!Poll
  <2> DEFINE list == [i \in Interfaces |-> Radio!Listing(i, r)]
             names == Radio!Names(list)
             provided == Radio!Provided(list)
             removed == Radio!Removed(provided)
             present == (devices \cup provided) \ removed
             moved == Radio!Moved(Radio!Reparented(at, names, devices \cup provided),
                                  removed)
  <2>2. /\ devices' = present /\ parent' = Radio!Added(moved, at, names, present)
        /\ UNCHANGED <<place, on>>
    BY <2>1 DEF Radio!PollWith, Radio!router
  <2>3. Radio!Added(moved, at, names, present) \in present \cup {Router, NoDevice}
    BY ParentStays
  <2> HIDE DEF present, moved, names
  <2> QED
    BY <2>2, <2>3 DEF RadioIInv
<1>3. CASE Radio!Reload
  BY <1>3 DEF Radio!Reload, Radio!router, RadioIInv
<1>4. ASSUME NEW i \in Interfaces, Radio!Configured(i)
      PROVE  RadioIInv'
  BY <1>4 DEF Radio!Configured, RadioIInv
<1>5. CASE Radio!ClientMoves
  BY <1>5 DEF Radio!ClientMoves, RadioIInv
<1> QED
  BY <1>1, <1>2, <1>3, <1>4, <1>5 DEF Radio!Next

\* The network of a client is in the list of a poll that the router answers, under
\* its own name and under no other.
LEMMA ListedOnce ==
    ASSUME RadioIInv, place # Away
    PROVE  LET list == [i \in Interfaces |-> Radio!Listing(i, Radio!Answers)]
           IN  /\ Radio!Names(list)[place] = Radio!Proper(place)
               /\ Radio!Proper(place) \in Radio!Provided(list)
<1> DEFINE list == [i \in Interfaces |-> Radio!Listing(i, Radio!Answers)]
           e == Radio!ByStatus(place)
<1>1. place \in Interfaces /\ on[place]
  BY DEF RadioIInv
<1>2. Radio!Answers.status = TRUE /\ Radio!Answers.driver = "yes"
  BY DEF Radio!Answers
<1>3. e.kernel = TRUE /\ Radio!Id(place, e) = Radio!Proper(place)
  BY DEF Radio!ByStatus, Radio!Id, Radio!Proper
<1>4. ~Radio!Fails(place, e, Radio!Answers)
  BY <1>2, <1>3 DEF Radio!Fails
<1>5. list[place] = {e}
  BY <1>1, <1>2, <1>4 DEF Radio!Listing, Radio!Detailed
<1> HIDE DEF e, list
<1>6. {x \in list[place] : x.kernel} = {e}
  BY <1>3, <1>5
<1>7. Radio!Names(list)[place] = CHOOSE d \in {Radio!Id(place, e)} : TRUE
  <2>1. Radio!Names(list)[place] = CHOOSE d \in {Radio!Id(place, x) : x \in {e}} : TRUE
    BY <1>1, <1>6 DEF Radio!Names
  <2> QED
    BY <2>1
<1>8. Radio!Proper(place) \in Radio!Provided(list)
  BY <1>1, <1>3, <1>5 DEF Radio!Provided
<1> QED
  BY <1>3, <1>7, <1>8 DEF list

\* A poll that is answered puts the client's device below its network.
LEMMA GoodPollMoves ==
    ASSUME RadioIInv, Radio!GoodPoll
    PROVE  IF place = Away THEN parent' \in devices' \cup {Router, NoDevice}
                           ELSE parent' = Radio!Proper(place)
<1> DEFINE list == [i \in Interfaces |-> Radio!Listing(i, Radio!Answers)]
           names == Radio!Names(list)
           provided == Radio!Provided(list)
           removed == Radio!Removed(provided)
           present == (devices \cup provided) \ removed
           moved == Radio!Moved(Radio!Reparented(place, names, devices \cup provided),
                                removed)
<1>1. devices' = present /\ parent' = Radio!Added(moved, place, names, present)
  BY DEF Radio!GoodPoll, Radio!PollWith
<1>2. CASE place = Away
  <2>1. Radio!Added(moved, place, names, present) \in present \cup {Router, NoDevice}
    BY ParentStays
  <2> HIDE DEF present, moved, names
  <2> QED
    BY <1>1, <1>2, <2>1
<1>3. CASE place # Away
  <2>1. names[place] = Radio!Proper(place) /\ Radio!Proper(place) \in provided
    BY <1>3, ListedOnce
  <2> HIDE DEF names, provided
  <2>2. Radio!Proper(place) \in present /\ Radio!Proper(place) \notin removed
    BY <2>1 DEF Radio!Removed
  <2>3. Radio!Added(moved, place, names, present) = Radio!Proper(place)
    BY <1>3, <2>1, <2>2 DEF Radio!Moved, Radio!Reparented, Radio!Added, Radio!Via
  <2> QED
    BY <1>1, <1>3, <2>3
<1> QED
  BY <1>2, <1>3

-----------------------------------------------------------------------------
(* The entities of an entry.                                               *)

\* What the rules of a kind have in common: what gives a thing its entity is what
\* puts its key among the keys; things that share a key share their entity; and
\* nothing is removed that the same set-up adds.
SoundRules(r) ==
    /\ r.key \in {"one", "each"} /\ r.id \in {"one", "each"}
    /\ r.key = "one" => r.id = "one"
    /\ r.id = "one" => r.cleanup = {}
    /\ r.adds = {"full"} /\ r.marks = {"full"}
    /\ r.option \in {"none", "on", "off", "data"}
    /\ r.cleanup \subseteq {"gone", "missing", "bare", "untracked", "wired", "option"}
    /\ "untracked" \in r.cleanup => r.option = "on"
    /\ "option" \in r.cleanup => r.option # "none"

\* The rules of the kinds that EveryThingHasItsEntity is about, each of which
\* EntityKinds lists.
LEMMA RulesAreSound ==
    \A k \in DOMAIN Platform!Table \ {"addressSensor", "wolButton", "kickButton"} :
        SoundRules(Platform!Table[k])
<1> USE DEF SoundRules, Platform!Static, Platform!PerThing, Platform!Permitted,
            Platform!Needs, Platform!Feature, Platform!Tracking, Platform!Optional,
            Platform!OnDevice
<1>1. /\ SoundRules(Platform!WpsSwitch) /\ SoundRules(Platform!RadioSwitch)
      /\ SoundRules(Platform!NetworkSwitch) /\ SoundRules(Platform!ServiceSwitch)
      /\ SoundRules(Platform!FirewallSwitch) /\ SoundRules(Platform!AccessSwitch)
      /\ SoundRules(Platform!SqmSwitch) /\ SoundRules(Platform!WireGuardSwitch)
  BY DEF Platform!AccessSwitch, Platform!FirewallSwitch, Platform!NetworkSwitch,
         Platform!RadioSwitch, Platform!ServiceSwitch, Platform!SqmSwitch,
         Platform!WireGuardSwitch, Platform!WpsSwitch
<1>2. /\ SoundRules(Platform!LedSwitch) /\ SoundRules(Platform!PackageSwitch)
      /\ SoundRules(Platform!TxPower) /\ SoundRules(Platform!SqmLimit)
      /\ SoundRules(Platform!LedLight) /\ SoundRules(Platform!StaticButton)
      /\ SoundRules(Platform!ServiceButton) /\ SoundRules(Platform!InterfaceButton)
  BY DEF Platform!InterfaceButton, Platform!LedLight, Platform!LedSwitch,
         Platform!PackageSwitch, Platform!ServiceButton, Platform!SqmLimit,
         Platform!StaticButton, Platform!TxPower
<1>3. /\ SoundRules(Platform!WpsPushButton) /\ SoundRules(Platform!ExtraButton)
      /\ SoundRules(Platform!SystemSensor) /\ SoundRules(Platform!LoadSensor)
      /\ SoundRules(Platform!StorageSensor) /\ SoundRules(Platform!PackageSensor)
      /\ SoundRules(Platform!WireGuardCount) /\ SoundRules(Platform!WireGuardPeer)
  BY DEF Platform!ExtraButton, Platform!LoadSensor, Platform!PackageSensor,
         Platform!StorageSensor, Platform!SystemSensor, Platform!WireGuardCount,
         Platform!WireGuardPeer, Platform!WpsPushButton
<1>4. /\ SoundRules(Platform!TailscaleSensor) /\ SoundRules(Platform!WifiSensor)
      /\ SoundRules(Platform!InterfaceSensor) /\ SoundRules(Platform!MwanMetric)
      /\ SoundRules(Platform!MwanSensor) /\ SoundRules(Platform!QModemSensor)
      /\ SoundRules(Platform!SqmSensor) /\ SoundRules(Platform!VpnSensor)
  BY DEF Platform!InterfaceSensor, Platform!MwanMetric, Platform!MwanSensor,
         Platform!QModemSensor, Platform!SqmSensor, Platform!TailscaleSensor,
         Platform!VpnSensor, Platform!WifiSensor
<1>5. /\ SoundRules(Platform!LldpSensor) /\ SoundRules(Platform!BatmanSensor)
      /\ SoundRules(Platform!DeviceSensor) /\ SoundRules(Platform!NlbwmonSensor)
      /\ SoundRules(Platform!TopHostsSensor) /\ SoundRules(Platform!SnortSensor)
      /\ SoundRules(Platform!MwanOnline) /\ SoundRules(Platform!InterfaceUp)
  BY DEF Platform!BatmanSensor, Platform!DeviceSensor, Platform!InterfaceUp,
         Platform!LldpSensor, Platform!MwanOnline, Platform!NlbwmonSensor,
         Platform!SnortSensor, Platform!TopHostsSensor
<1>6. /\ SoundRules(Platform!VpnUp) /\ SoundRules(Platform!WireGuardPeerActive)
      /\ SoundRules(Platform!TailscaleStatus) /\ SoundRules(Platform!TailscalePeer)
      /\ SoundRules(Platform!ServiceRunning) /\ SoundRules(Platform!BatmanActive)
      /\ SoundRules(Platform!NewDevice) /\ SoundRules(Platform!WifiQrImage)
  BY DEF Platform!BatmanActive, Platform!NewDevice, Platform!ServiceRunning,
         Platform!TailscalePeer, Platform!TailscaleSensor, Platform!TailscaleStatus,
         Platform!VpnUp, Platform!WifiQrImage, Platform!WireGuardPeerActive
<1>7. /\ SoundRules(Platform!FirmwareUpdate) /\ SoundRules(Platform!PackageUpdate)
  BY DEF Platform!FirmwareUpdate, Platform!PackageUpdate
<1> HIDE DEF SoundRules, Platform!Static, Platform!PerThing, Platform!Permitted,
             Platform!Needs, Platform!Feature, Platform!Tracking, Platform!Optional,
             Platform!OnDevice
<1> QED
  BY <1>1, <1>2, <1>3, <1>4, <1>5, <1>6, <1>7 DEF Platform!Table

\* Devices are removed for being wired only where wired ones are not added; and what
\* the removal of disabled features is about has the option it goes by.
Agreeing(k, r) ==
    /\ "wired" \in r.cleanup =>
          r.device = "access" \/ (r.device = "sensors" /\ k = "deviceSensor")
    /\ r.disabled # "no" /\ k \notin {"sqmLimit", "nlbwmonSensor"} =>
          r.option \in {"on", "off", "data"}
    /\ k \in {"tailscaleSensor", "tailscaleStatus", "tailscalePeer"} => r.option = "off"

\* So it is for every kind.
LEMMA RulesAgree ==
    \A k \in DOMAIN Platform!Table : Agreeing(k, Platform!Table[k])
<1> USE DEF Agreeing, Platform!Static, Platform!PerThing, Platform!Permitted,
            Platform!Needs, Platform!Feature, Platform!Tracking, Platform!Optional,
            Platform!OnDevice
<1>1. /\ Agreeing("wpsSwitch", Platform!WpsSwitch)
      /\ Agreeing("radioSwitch", Platform!RadioSwitch)
      /\ Agreeing("networkSwitch", Platform!NetworkSwitch)
      /\ Agreeing("serviceSwitch", Platform!ServiceSwitch)
      /\ Agreeing("firewallSwitch", Platform!FirewallSwitch)
      /\ Agreeing("accessSwitch", Platform!AccessSwitch)
      /\ Agreeing("sqmSwitch", Platform!SqmSwitch)
      /\ Agreeing("wireGuardSwitch", Platform!WireGuardSwitch)
  BY DEF Platform!AccessSwitch, Platform!FirewallSwitch, Platform!NetworkSwitch,
         Platform!RadioSwitch, Platform!ServiceSwitch, Platform!SqmSwitch,
         Platform!WireGuardSwitch, Platform!WpsSwitch
<1>2. /\ Agreeing("ledSwitch", Platform!LedSwitch)
      /\ Agreeing("packageSwitch", Platform!PackageSwitch)
      /\ Agreeing("txPower", Platform!TxPower)
      /\ Agreeing("sqmLimit", Platform!SqmLimit)
      /\ Agreeing("ledLight", Platform!LedLight)
      /\ Agreeing("staticButton", Platform!StaticButton)
      /\ Agreeing("serviceButton", Platform!ServiceButton)
      /\ Agreeing("interfaceButton", Platform!InterfaceButton)
  BY DEF Platform!InterfaceButton, Platform!LedLight, Platform!LedSwitch,
         Platform!PackageSwitch, Platform!ServiceButton, Platform!SqmLimit,
         Platform!StaticButton, Platform!TxPower
<1>3. /\ Agreeing("wpsPushButton", Platform!WpsPushButton)
      /\ Agreeing("extraButton", Platform!ExtraButton)
      /\ Agreeing("wolButton", Platform!WolButton)
      /\ Agreeing("kickButton", Platform!KickButton)
      /\ Agreeing("systemSensor", Platform!SystemSensor)
      /\ Agreeing("loadSensor", Platform!LoadSensor)
      /\ Agreeing("storageSensor", Platform!StorageSensor)
      /\ Agreeing("packageSensor", Platform!PackageSensor)
  BY DEF Platform!ExtraButton, Platform!KickButton, Platform!LoadSensor,
         Platform!PackageSensor, Platform!StorageSensor, Platform!SystemSensor,
         Platform!WolButton, Platform!WpsPushButton
<1>4. /\ Agreeing("wireGuardCount", Platform!WireGuardCount)
      /\ Agreeing("wireGuardPeer", Platform!WireGuardPeer)
      /\ Agreeing("tailscaleSensor", Platform!TailscaleSensor)
      /\ Agreeing("wifiSensor", Platform!WifiSensor)
      /\ Agreeing("interfaceSensor", Platform!InterfaceSensor)
      /\ Agreeing("addressSensor", Platform!AddressSensor)
      /\ Agreeing("mwanMetric", Platform!MwanMetric)
      /\ Agreeing("mwanSensor", Platform!MwanSensor)
  BY DEF Platform!AddressSensor, Platform!InterfaceSensor, Platform!MwanMetric,
         Platform!MwanSensor, Platform!TailscaleSensor, Platform!WifiSensor,
         Platform!WireGuardCount, Platform!WireGuardPeer
<1>5. /\ Agreeing("qModemSensor", Platform!QModemSensor)
      /\ Agreeing("sqmSensor", Platform!SqmSensor)
      /\ Agreeing("vpnSensor", Platform!VpnSensor)
      /\ Agreeing("lldpSensor", Platform!LldpSensor)
      /\ Agreeing("batmanSensor", Platform!BatmanSensor)
      /\ Agreeing("deviceSensor", Platform!DeviceSensor)
      /\ Agreeing("nlbwmonSensor", Platform!NlbwmonSensor)
      /\ Agreeing("topHostsSensor", Platform!TopHostsSensor)
  BY DEF Platform!BatmanSensor, Platform!DeviceSensor, Platform!LldpSensor,
         Platform!NlbwmonSensor, Platform!QModemSensor, Platform!SqmSensor,
         Platform!TopHostsSensor, Platform!VpnSensor
<1>6. /\ Agreeing("snortSensor", Platform!SnortSensor)
      /\ Agreeing("mwanOnline", Platform!MwanOnline)
      /\ Agreeing("interfaceUp", Platform!InterfaceUp)
      /\ Agreeing("vpnUp", Platform!VpnUp)
      /\ Agreeing("wireGuardPeerActive", Platform!WireGuardPeerActive)
      /\ Agreeing("tailscaleStatus", Platform!TailscaleStatus)
      /\ Agreeing("tailscalePeer", Platform!TailscalePeer)
      /\ Agreeing("serviceRunning", Platform!ServiceRunning)
  BY DEF Platform!InterfaceUp, Platform!MwanOnline, Platform!ServiceRunning,
         Platform!SnortSensor, Platform!TailscalePeer, Platform!TailscaleSensor,
         Platform!TailscaleStatus, Platform!VpnUp, Platform!WireGuardPeerActive
<1>7. /\ Agreeing("batmanActive", Platform!BatmanActive)
      /\ Agreeing("newDevice", Platform!NewDevice)
      /\ Agreeing("wifiQrImage", Platform!WifiQrImage)
      /\ Agreeing("firmwareUpdate", Platform!FirmwareUpdate)
      /\ Agreeing("packageUpdate", Platform!PackageUpdate)
  BY DEF Platform!BatmanActive, Platform!FirmwareUpdate, Platform!NewDevice,
         Platform!PackageUpdate, Platform!WifiQrImage
<1> HIDE DEF Agreeing, Platform!Static, Platform!PerThing, Platform!Permitted,
             Platform!Needs, Platform!Feature, Platform!Tracking, Platform!Optional,
             Platform!OnDevice
<1> QED
  BY <1>1, <1>2, <1>3, <1>4, <1>5, <1>6, <1>7 DEF Platform!Table

\* A key that is remembered has its entity, so nothing is taken for added that is
\* not there.
KeysHaveEntities ==
    ~Platform!LeftOut => \A v : Platform!Key(v) \in keys => Platform!Id(v) \in entities

PlatformIInv ==
    /\ kind \in DOMAIN Platform!Table /\ option \in Platform!Options
    /\ KeysHaveEntities
    /\ EveryThingHasItsEntity
    /\ KeptOverReloads

\* The rules of the kind of a behaviour.
LEMMA KindRules ==
    ASSUME kind \in DOMAIN Platform!Table, ~Platform!LeftOut
    PROVE  /\ SoundRules(Platform!K)
           /\ Agreeing(kind, Platform!K)
BY RulesAreSound, RulesAgree DEF Platform!LeftOut, Platform!K

\* What is listed in full and allowed is remembered, and has an entity or gets one.
LEMMA KeysAreMarked ==
    ASSUME kind \in DOMAIN Platform!Table, ~Platform!LeftOut, NEW o, NEW d,
           NEW marked, NEW reg, NEW present,
           \A v : Platform!Key(v) \in marked => Platform!Id(v) \in present
    PROVE  LET new == Platform!Adds(o, d, marked, reg)
               after == present \cup {Platform!Id(v) : v \in new}
           IN  /\ \A v : Platform!Key(v) \in marked \cup Platform!Marks(o, d) =>
                             Platform!Id(v) \in after
               /\ d.item = "full" /\ Platform!Allowed(o, d) =>
                     {Platform!Id(v) : v \in d.seen} \subseteq after
<1> DEFINE new == Platform!Adds(o, d, marked, reg)
           after == present \cup {Platform!Id(v) : v \in new}
<1>1. SoundRules(Platform!K)
  BY KindRules
<1>2. \A v, w : Platform!Key(v) = Platform!Key(w) => Platform!Id(v) = Platform!Id(w)
  BY <1>1 DEF SoundRules, Platform!Key, Platform!Id
<1>3. ASSUME Platform!Allowed(o, d), d.item = "full", NEW w \in d.seen
      PROVE  Platform!Id(w) \in after
  <2>1. "full" \in Platform!K.adds
    BY <1>1 DEF SoundRules
  <2>2. Platform!Key(w) \notin marked => w \in new
    BY <1>3, <2>1 DEF Platform!Adds
  <2> HIDE DEF new
  <2> QED
    BY <2>2
<1>4. ASSUME NEW v, Platform!Key(v) \in Platform!Marks(o, d)
      PROVE  Platform!Id(v) \in after
  <2>1. Platform!Allowed(o, d) /\ d.item \in Platform!K.marks
    BY <1>4 DEF Platform!Marks
  <2>2. PICK w \in d.seen : Platform!Key(v) = Platform!Key(w)
    BY <1>4, <2>1 DEF Platform!Marks
  <2>3. d.item = "full"
    BY <1>1, <2>1 DEF SoundRules
  <2> QED
    BY <1>2, <1>3, <2>1, <2>2, <2>3
<1> HIDE DEF new
<1> QED
  BY <1>3, <1>4 DEF new

\* A set-up removes no entity that it adds, for the reasons of the platform.
LEMMA NoneOrphaned ==
    ASSUME kind \in DOMAIN Platform!Table, ~Platform!LeftOut, NEW o, NEW d,
           NEW v \in Platform!Adds(o, d, {}, {})
    PROVE  ~Platform!Orphaned(o, d, Platform!HistoryAfter(d), Platform!Id(v))
<1> DEFINE r == Platform!K
           h == Platform!HistoryAfter(d)
<1>1. SoundRules(r)
  BY KindRules
<1>2. v \in d.seen /\ Platform!Allowed(o, d) /\ d.item \in r.adds
  BY DEF Platform!Adds
<1>3. Platform!Enabled(o) /\ Platform!DeviceAllowed(d)
  BY <1>2 DEF Platform!Allowed
<1>4. CASE r.id = "one"
  BY <1>1, <1>4 DEF SoundRules, Platform!Orphaned
<1>5. CASE r.id = "each"
  <2>1. Platform!Id(v) = v
    BY <1>5 DEF Platform!Id
  <2>2. d.item = "full"
    BY <1>1, <1>2 DEF SoundRules
  <2>3. "untracked" \in r.cleanup => o # "off"
    BY <1>1, <1>3 DEF SoundRules, Platform!Enabled
  <2>4. "wired" \in r.cleanup => wired \/ h # "wired"
    <3> SUFFICES ASSUME "wired" \in r.cleanup, ~wired PROVE h # "wired"
      OBVIOUS
    <3>1. r.device = "access" \/ (r.device = "sensors" /\ kind = "deviceSensor")
      BY KindRules DEF Agreeing
    <3>2. r.device = "sensors" => ~randomMac
      BY <3>1 DEF Platform!LeftOut
    <3> HIDE DEF r
    <3>3. d.wireless /\ ~(skip /\ randomMac) /\ r.device # "no"
      BY <1>3, <3>1, <3>2 DEF Platform!DeviceAllowed, r
    <3> QED
      BY <1>2, <3>3 DEF Platform!HistoryAfter, r
  <2>5. {"other", "wireless"} \cap r.cleanup = {}
    BY <1>1 DEF SoundRules
  <2> QED
    BY <1>2, <1>3, <2>1, <2>2, <2>3, <2>4, <2>5 DEF Platform!Orphaned
<1> QED
  BY <1>1, <1>4, <1>5 DEF SoundRules

\* Nor one that the removal of disabled features takes out.
LEMMA NoneDisabled ==
    ASSUME kind \in DOMAIN Platform!Table, ~Platform!LeftOut,
           kind \notin Platform!Unaware, NEW o, NEW d,
           o \in {"on", "off"} \/ (o = "unset" /\ kind \in Platform!Tailscale),
           Platform!Allowed(o, d)
    PROVE  ~Platform!Disabled(o)
<1>1. Agreeing(kind, Platform!K)
  BY KindRules DEF Platform!Unaware
<1>2. Platform!Enabled(o)
  BY DEF Platform!Allowed
<1> QED
  BY <1>1, <1>2 DEF Agreeing, Platform!Enabled, Platform!Disabled, Platform!Unaware,
                    Platform!Tailscale

\* An entry without entities.
LEMMA PlatformInitIInv == Platform!Init => PlatformIInv
BY PlatformValues
   DEF Platform!Init, PlatformIInv, KeysHaveEntities, EveryThingHasItsEntity,
       Platform!EveryThingHasItsEntity, KeptOverReloads, Platform!KeptOverReloads

\* A poll adds what it finds for the first time and removes nothing.
LEMMA PlatformPollStep ==
    ASSUME PlatformIInv, Platform!PollPublished
    PROVE  PlatformIInv'
<1>1. PICK d : /\ data' = d
               /\ keys' = keys \cup Platform!Marks(option, d)
               /\ entities' = entities \cup
                     {Platform!Id(v) : v \in Platform!Adds(option, d, keys, registry)}
  BY DEF Platform!PollPublished
<1>2. /\ UNCHANGED <<kind, option, wired, randomMac, skip, running>> /\ lost' = FALSE
  BY DEF Platform!PollPublished
<1>3. /\ Platform!LeftOut' = Platform!LeftOut /\ Platform!K' = Platform!K
      /\ \A v : Platform!Key(v)' = Platform!Key(v) /\ Platform!Id(v)' = Platform!Id(v)
      /\ Platform!Allowed(option, data)' = Platform!Allowed(option, d)
  BY <1>1, <1>2 DEF Platform!LeftOut, Platform!K, Platform!Key, Platform!Id,
                    Platform!Allowed, Platform!Enabled, Platform!DeviceAllowed,
                    Platform!PackageAllowed
<1>4. ASSUME ~Platform!LeftOut
      PROVE  /\ \A v : Platform!Key(v) \in keys' => Platform!Id(v) \in entities'
             /\ d.item = "full" /\ Platform!Allowed(option, d) =>
                    {Platform!Id(v) : v \in d.seen} \subseteq entities'
  <2>1. \A v : Platform!Key(v) \in keys => Platform!Id(v) \in entities
    BY <1>4 DEF PlatformIInv, KeysHaveEntities
  <2> QED
    BY <1>1, <1>4, <2>1, KeysAreMarked DEF PlatformIInv
<1>5. KeysHaveEntities'
  BY <1>3, <1>4 DEF KeysHaveEntities
<1>6. EveryThingHasItsEntity'
  BY <1>1, <1>3, <1>4 DEF EveryThingHasItsEntity, Platform!EveryThingHasItsEntity
<1>7. KeptOverReloads'
  BY <1>2 DEF KeptOverReloads, Platform!KeptOverReloads
<1> QED
  BY <1>2, <1>5, <1>6, <1>7 DEF PlatformIInv

\* A set-up removes what is gone or not allowed and adds the rest.
LEMMA PlatformSetupStep ==
    ASSUME PlatformIInv, Platform!Setup
    PROVE  PlatformIInv'
<1>1. PICK o \in {option, "on", "off"}, d \in Platform!Polls :
          LET kept == Platform!RemoveDisabled(o, registry)
              new == Platform!Adds(o, d, {}, {})
              added == {Platform!Id(v) : v \in new}
              orphans == {u \in kept \cup added :
                              Platform!Orphaned(o, d, Platform!HistoryAfter(d), u)}
          IN  /\ option' = o /\ data' = d /\ keys' = Platform!Marks(o, d)
              /\ entities' = added \ orphans
              /\ lost' = (((registry \ kept) \cup orphans) \cap added # {})
  BY Zenon DEF Platform!Setup
<1> DEFINE kept == Platform!RemoveDisabled(o, registry)
           new == Platform!Adds(o, d, {}, {})
           added == {Platform!Id(v) : v \in new}
           orphans == {u \in kept \cup added :
                           Platform!Orphaned(o, d, Platform!HistoryAfter(d), u)}
<1>2. /\ option' = o /\ data' = d /\ keys' = Platform!Marks(o, d)
      /\ entities' = added \ orphans
      /\ lost' = (((registry \ kept) \cup orphans) \cap added # {})
  BY <1>1
<1>3. UNCHANGED <<kind, wired, randomMac, skip>>
  BY DEF Platform!Setup
<1>4. kind \in DOMAIN Platform!Table /\ option' \in Platform!Options
  BY <1>2 DEF PlatformIInv, Platform!Options
<1>5. /\ Platform!LeftOut' = Platform!LeftOut /\ Platform!K' = Platform!K
      /\ \A v : Platform!Key(v)' = Platform!Key(v) /\ Platform!Id(v)' = Platform!Id(v)
      /\ Platform!Allowed(option, data)' = Platform!Allowed(o, d)
  BY <1>2, <1>3 DEF Platform!LeftOut, Platform!K, Platform!Key, Platform!Id,
                    Platform!Allowed, Platform!Enabled, Platform!DeviceAllowed,
                    Platform!PackageAllowed
<1>6. ASSUME ~Platform!LeftOut
      PROVE  orphans \cap added = {}
  BY <1>4, <1>6, NoneOrphaned
<1>7. ASSUME ~Platform!LeftOut
      PROVE  /\ \A v : Platform!Key(v) \in keys' => Platform!Id(v) \in entities'
             /\ d.item = "full" /\ Platform!Allowed(o, d) =>
                    {Platform!Id(v) : v \in d.seen} \subseteq entities'
  <2>1. entities' = {} \cup added /\ keys' = {} \cup Platform!Marks(o, d)
    BY <1>2, <1>6, <1>7
  <2>2. LET after == {} \cup {Platform!Id(v) : v \in Platform!Adds(o, d, {}, {})}
        IN  /\ \A v : Platform!Key(v) \in {} \cup Platform!Marks(o, d) =>
                          Platform!Id(v) \in after
            /\ d.item = "full" /\ Platform!Allowed(o, d) =>
                  {Platform!Id(v) : v \in d.seen} \subseteq after
    BY <1>4, <1>7, KeysAreMarked
  <2> QED
    BY <2>1, <2>2
<1>8. KeysHaveEntities'
  BY <1>5, <1>7 DEF KeysHaveEntities
<1>9. EveryThingHasItsEntity'
  BY <1>2, <1>5, <1>7 DEF EveryThingHasItsEntity, Platform!EveryThingHasItsEntity
<1>10. KeptOverReloads'
  <2> SUFFICES ASSUME \/ o \in {"on", "off"}
                      \/ o = "unset" /\ kind \in Platform!Tailscale,
                      kind \notin Platform!Unaware, ~Platform!LeftOut
               PROVE  ~lost'
    BY <1>2, <1>3, <1>5 DEF KeptOverReloads, Platform!KeptOverReloads,
                            Platform!Unaware, Platform!Tailscale
  <2>1. added # {} => Platform!Allowed(o, d)
    BY DEF Platform!Adds
  <2>2. added # {} => kept = registry
    BY <1>4, <2>1, NoneDisabled DEF Platform!RemoveDisabled
  <2> HIDE DEF added, kept
  <2> QED
    BY <1>2, <1>6, <2>2
<1> QED
  BY <1>3, <1>4, <1>8, <1>9, <1>10 DEF PlatformIInv

\* Every step keeps the invariant of the entities.
LEMMA PlatformNextIInv == PlatformIInv /\ [Platform!Next]_platformVars => PlatformIInv'
<1> SUFFICES ASSUME PlatformIInv, [Platform!Next]_platformVars PROVE PlatformIInv'
  OBVIOUS
<1>1. CASE UNCHANGED platformVars
  BY <1>1 DEF platformVars, PlatformIInv, KeysHaveEntities, EveryThingHasItsEntity,
              Platform!EveryThingHasItsEntity, KeptOverReloads,
              Platform!KeptOverReloads, Platform!LeftOut, Platform!K, Platform!Key,
              Platform!Id, Platform!Allowed, Platform!Enabled, Platform!DeviceAllowed,
              Platform!PackageAllowed
<1> QED
  BY <1>1, PlatformPollStep, PlatformSetupStep DEF Platform!Next

-----------------------------------------------------------------------------
(* The trackers of a device that several entries see.                      *)

\* A tracker in Home Assistant holds the device's place in the set that the
\* entries share: this is what keeps the second entry from making another.
PlaceHeld == live # {} => registered

TrackersIInv == TypeOK /\ OneTrackerPerDevice /\ PlaceHeld

\* The part of the state that the property is about, without the history and the
\* options that decide whether a tracker is wanted.
TrackerPlaces ==
    /\ {random, registered, disabled, clashed} \subseteq BOOLEAN
    /\ {loaded, tracked, live} \subseteq SUBSET Entries
    /\ owner \in Entries \cup {NoEntry}
    /\ OneTrackerPerDevice
    /\ PlaceHeld

\* What is left of TypeOK.
TrackersSeen ==
    /\ everWireless \in BOOLEAN
    /\ options \in [Entries -> Options]
    /\ history \in [Entries -> {"none", "wired", "wireless"}]

\* The invariant consists of two parts.
LEMMA TrackersParts == TrackersIInv <=> TrackerPlaces /\ TrackersSeen
BY DEF TrackersIInv, TypeOK, TrackerPlaces, TrackersSeen

\* At most one entry has a tracker.
LEMMA OneEntry == ASSUME OneTrackerPerDevice PROVE \A e \in live : live = {e}
BY DEF OneTrackerPerDevice

\* Whether a tracker is wanted is a truth value.
LEMMA WantedIsBoolean ==
    ASSUME TrackersSeen, TrackerPlaces, NEW e \in Entries, NEW o \in Options,
           NEW h \in {"none", "wired", "wireless"}
    PROVE  Wanted(e, o, h) \in BOOLEAN /\ Unwanted(e, o, h) \in BOOLEAN
BY DEF Wanted, Unwanted

\* The listener of a loaded entry, with or without the clean-up after it, leaves
\* the device with one tracker, which holds its place.
LEMMA ListenerKeeps ==
    ASSUME TrackerPlaces,
           NEW e \in Entries, e \in loaded',
           loaded \subseteq loaded', loaded' \subseteq Entries,
           NEW wanted \in BOOLEAN, NEW mine \in BOOLEAN, NEW cleaned \in BOOLEAN,
           Processes(e, wanted, mine, cleaned),
           random' = random
    PROVE  TrackerPlaces'
<1> DEFINE new == New(e, wanted, mine)
           added == new /\ ~Refused /\ live = {}
           own == IF new THEN e ELSE owner
           removed == cleaned /\ own = e
<1>1. /\ tracked' = IF mine \/ wanted THEN tracked \cup {e} ELSE tracked \ {e}
      /\ live' = (IF added THEN live \cup {e} ELSE live) \ (IF removed THEN {e} ELSE {})
      /\ registered' = ((registered \/ new) /\ ~(removed /\ (added \/ e \in live)))
      /\ owner' = IF removed THEN NoEntry ELSE own
      /\ disabled' = (~removed /\ IF new THEN Refused ELSE disabled)
      /\ clashed' = (new /\ live # {})
    BY DEF Processes
<1>2. new \in BOOLEAN /\ (new => ~registered)
    BY DEF New, TrackerPlaces
<1>3. new => live = {}
    BY <1>2 DEF TrackerPlaces, PlaceHeld
<1>4. Refused \in BOOLEAN
    BY DEF Refused, TrackerPlaces
<1>5. \A f \in live : f \in loaded /\ owner = f /\ ~disabled
    BY DEF TrackerPlaces, OneTrackerPerDevice
<1> HIDE DEF new, added, own, removed
<1>6. {random', registered', disabled', clashed'} \subseteq BOOLEAN
    BY <1>1, <1>2, <1>4 DEF TrackerPlaces
<1>7. /\ {loaded', tracked', live'} \subseteq SUBSET Entries
      /\ owner' \in Entries \cup {NoEntry}
    BY <1>1 DEF TrackerPlaces, own
<1>8. ASSUME NEW f \in live'
      PROVE  f \in loaded' /\ owner' = f /\ ~disabled' /\ registered'
    <2>1. CASE added
        BY <1>1, <1>2, <2>1, <1>8 DEF added, own
    <2>2. CASE ~added
        <3>1. f \in live /\ ~(removed /\ f = e)
            BY <1>1, <2>2, <1>8
        <3>2. ~new /\ owner = f /\ ~disabled /\ f \in loaded
            BY <3>1, <1>3, <1>5
        <3>3. own = f /\ ~removed
            BY <3>1, <3>2 DEF own, removed
        <3>4. registered
            BY <3>1 DEF TrackerPlaces, PlaceHeld
        <3> QED BY <1>1, <3>2, <3>3, <3>4
    <2> QED BY <2>1, <2>2
<1>9. ~clashed'
    BY <1>1, <1>3
<1> QED BY <1>6, <1>7, <1>8, <1>9 DEF TrackerPlaces, OneTrackerPerDevice, PlaceHeld

\* What a poll may list for the device, and how it enters the history.
LEMMA SeesKeeps ==
    ASSUME TrackersSeen, NEW e \in Entries, NEW o \in Options, NEW seen \in Listed(e, o),
           Sees(e, seen)
    PROVE  /\ seen \in {"none", "wired", "wireless"}
           /\ everWireless' \in BOOLEAN
           /\ history' \in [Entries -> {"none", "wired", "wireless"}]
<1>1. seen \in {"none", "wired", "wireless"}
    BY DEF Listed, TrackersSeen
<1> QED BY <1>1 DEF Sees, TrackersSeen

\* It holds at the start.
LEMMA TrackersInitIInv == Init => TrackersIInv
<1>1. Init => options \in [Entries -> Options]
    BY DEF Init
<1> QED BY <1>1 DEF Init, TrackersIInv, TypeOK, OneTrackerPerDevice, PlaceHeld

\* A poll that is published adds trackers and removes none.
LEMMA PollPublishedKeeps ==
    ASSUME TrackersIInv, NEW e \in Entries, PollPublished(e) PROVE TrackersIInv'
<1>1. TrackerPlaces /\ TrackersSeen BY TrackersParts
<1>2. options[e] \in Options BY <1>1 DEF TrackersSeen
<1>3. PICK seen \in Listed(e, options[e]) :
        /\ Sees(e, seen)
        /\ Processes(e, Wanted(e, options[e], seen), e \in tracked, FALSE)
    BY DEF PollPublished
<1>4. /\ seen \in {"none", "wired", "wireless"}
      /\ everWireless' \in BOOLEAN
      /\ history' \in [Entries -> {"none", "wired", "wireless"}]
    BY <1>1, <1>2, <1>3, SeesKeeps
<1>5. TrackersSeen'
    BY <1>1, <1>4 DEF TrackersSeen, PollPublished
<1>6. Wanted(e, options[e], seen) \in BOOLEAN
    BY <1>1, <1>2, <1>4, WantedIsBoolean
<1>7. e \in loaded' /\ loaded' = loaded /\ random' = random /\ loaded \subseteq Entries
    BY <1>1 DEF PollPublished, TrackerPlaces
<1>8. PICK mine \in BOOLEAN : mine <=> e \in tracked
    OBVIOUS
<1>9. Processes(e, Wanted(e, options[e], seen), mine, FALSE)
    BY <1>3, <1>8 DEF Processes, New
<1>10. TrackerPlaces'
    BY <1>1, <1>6, <1>7, <1>9, ListenerKeeps
<1> QED BY <1>5, <1>10 DEF TrackersIInv, TypeOK, TrackerPlaces, TrackersSeen

\* A set-up of an entry.
LEMMA SetupKeeps ==
    ASSUME TrackersIInv, NEW e \in Entries, Setup(e) PROVE TrackersIInv'
<1>1. TrackerPlaces /\ TrackersSeen BY TrackersParts
<1>2. PICK o \in {p \in Options : p.skipRandom => random} :
        /\ options' = [options EXCEPT ![e] = o]
        /\ \E seen \in Listed(e, o) :
            /\ Sees(e, seen)
            /\ Processes(e, Wanted(e, o, seen), FALSE, Unwanted(e, o, seen))
    BY DEF Setup
<1>3. o \in Options BY <1>2
<1>4. PICK seen \in Listed(e, o) :
        /\ Sees(e, seen)
        /\ Processes(e, Wanted(e, o, seen), FALSE, Unwanted(e, o, seen))
    BY <1>2
<1>5. /\ seen \in {"none", "wired", "wireless"}
      /\ everWireless' \in BOOLEAN
      /\ history' \in [Entries -> {"none", "wired", "wireless"}]
    BY <1>1, <1>3, <1>4, SeesKeeps
<1>6. options' \in [Entries -> Options]
    BY <1>1, <1>2, <1>3 DEF TrackersSeen
<1>7. TrackersSeen'
    BY <1>5, <1>6 DEF TrackersSeen
<1>8. Wanted(e, o, seen) \in BOOLEAN /\ Unwanted(e, o, seen) \in BOOLEAN
    BY <1>1, <1>3, <1>5, WantedIsBoolean
<1>9. /\ e \in loaded' /\ loaded \subseteq loaded' /\ loaded' \subseteq Entries
      /\ random' = random
    BY <1>1 DEF Setup, TrackerPlaces
<1>10. TrackerPlaces'
    BY <1>1, <1>4, <1>8, <1>9, ListenerKeeps
<1> QED BY <1>7, <1>10 DEF TrackersIInv, TypeOK, TrackerPlaces, TrackersSeen

\* The tracker of an entry that is unloaded gives up the place, and it was the
\* only one.
LEMMA UnloadKeeps ==
    ASSUME TrackersIInv, NEW e \in Entries, Unload(e) PROVE TrackersIInv'
<1>1. TypeOK'
    BY DEF TrackersIInv, TypeOK, Unload, KeepsPlace
<1>2. OneTrackerPerDevice'
    BY DEF TrackersIInv, OneTrackerPerDevice, Unload
<1>3. PlaceHeld'
    <2>1. CASE e \in live
        BY <2>1, OneEntry DEF TrackersIInv, PlaceHeld, Unload
    <2>2. CASE e \notin live
        BY <2>2 DEF TrackersIInv, PlaceHeld, Unload, KeepsPlace
    <2> QED BY <2>1, <2>2
<1> QED BY <1>1, <1>2, <1>3 DEF TrackersIInv

\* An entry that the user deletes and sets up once more.
LEMMA DeleteKeeps ==
    ASSUME TrackersIInv, NEW e \in Entries, Delete(e) PROVE TrackersIInv'
<1>1. history' \in [Entries -> {"none", "wired", "wireless"}]
    BY DEF TrackersIInv, TypeOK, Delete
<1>2. TypeOK'
    BY <1>1 DEF TrackersIInv, TypeOK, Delete
<1>3. OneTrackerPerDevice'
    BY DEF TrackersIInv, OneTrackerPerDevice, Delete
<1> QED BY <1>2, <1>3 DEF TrackersIInv, PlaceHeld, Delete

\* The user enables or disables the tracker.
LEMMA ToggleKeeps == ASSUME TrackersIInv, Toggle PROVE TrackersIInv'
BY DEF TrackersIInv, TypeOK, OneTrackerPerDevice, PlaceHeld, Toggle

\* A restart of Home Assistant.
LEMMA RestartKeeps == ASSUME TrackersIInv, Restart PROVE TrackersIInv'
BY DEF TrackersIInv, TypeOK, OneTrackerPerDevice, PlaceHeld, Restart

\* Every step keeps it.
LEMMA TrackersNextIInv == TrackersIInv /\ [Next]_vars => TrackersIInv'
<1> SUFFICES ASSUME TrackersIInv, [Next]_vars PROVE TrackersIInv' OBVIOUS
<1>1. CASE UNCHANGED vars
    BY <1>1 DEF vars, TrackersIInv, TypeOK, OneTrackerPerDevice, PlaceHeld
<1>2. CASE Next
    BY <1>2, PollPublishedKeeps, SetupKeeps, UnloadKeeps, DeleteKeeps, ToggleKeeps,
       RestartKeeps DEF Next
<1> QED BY <1>1, <1>2

-----------------------------------------------------------------------------
(* The types of the four.                                                  *)

\* What the type invariant of the events says beyond their invariant.
EventRest ==
    /\ {up, ok} \subseteq BOOLEAN
    /\ connected \subseteq known /\ known \subseteq Macs
    /\ events \subseteq Macs \X Event!EventTypes
    /\ unknown \subseteq Macs

\* What is fired is an event about a device.
LEMMA EventsFired ==
    ASSUME NEW present \in SUBSET Macs, NEW a, NEW remembered
    PROVE  Event!Fired(present, a, remembered) \subseteq Macs \X Event!EventTypes
<1>1. \A m : Event!Arrival(m, remembered) \in Event!EventTypes
  BY DEF Event!Arrival, Event!EventTypes
<1>2. "device_disconnected" \in Event!EventTypes
  BY DEF Event!EventTypes
<1> QED
  BY <1>1, <1>2 DEF Event!Fired

\* At the start.
LEMMA EventInitRest == Event!Init => EventRest
BY DEF Event!Init, EventRest

\* Every step keeps it.
LEMMA EventNextRest == EventRest /\ [Event!Next]_eventVars => EventRest'
<1> SUFFICES ASSUME EventRest, [Event!Next]_eventVars PROVE EventRest'
  OBVIOUS
<1>1. CASE Event!Tick \/ UNCHANGED eventVars
  BY <1>1 DEF Event!Tick, eventVars, EventRest
<1>2. CASE Event!PollPublished
  <2>1. PICK listing \in SUBSET Macs : \E present \in SUBSET listing :
            /\ known' = known \cup listing /\ connected' = present
            /\ unknown' = IF up THEN present \ known ELSE {}
            /\ Event!Update(present, known \cup listing)
    BY <1>2 DEF Event!PollPublished
  <2>2. events' \subseteq Macs \X Event!EventTypes
    BY <2>1, EventsFired DEF Event!Update
  <2>3. ok' = TRUE /\ up' = up
    BY <1>2 DEF Event!PollPublished
  <2> QED
    BY <2>1, <2>2, <2>3 DEF EventRest
<1>3. CASE Event!PollFailed
  <2>1. events' = {} \/ Event!Update(connected, known)
    BY <1>3 DEF Event!PollFailed
  <2>2. events' \subseteq Macs \X Event!EventTypes
    BY <2>1, EventsFired DEF Event!Update, EventRest
  <2> QED
    BY <1>3, <2>2 DEF Event!PollFailed, EventRest
<1>4. CASE Event!Setup
  BY <1>4 DEF Event!Setup, EventRest
<1> QED
  BY <1>1, <1>2, <1>3, <1>4 DEF Event!Next

\* Together they are the type invariant.
LEMMA EventTypeOK == EventIInv /\ EventRest => Event!TypeOK
<1>1. 0 .. Grace + 2 = Event!Times \cup {Event!Gone} /\ 0 .. Grace + 1 = Event!Times
  BY EventValues DEF Event!Times, Event!Gone, Event!GracePositive
<1> QED
  BY <1>1 DEF EventIInv, EventTypesOK, EventRest, Event!TypeOK

\* The same for the devices of the networks.
RadioRest ==
    /\ transport \in Transports
    /\ ssid \in [Interfaces -> SSIDs]
    /\ first \in BOOLEAN
    /\ listed \in [Interfaces -> SUBSET Radio!Sightings]
    /\ stableId \in [Interfaces -> Radio!Ids \cup {NoName}]
    /\ devices \subseteq Radio!Ids

\* Whatever the router answers, a list has entries of the known form.
LEMMA ListingsAreSightings ==
    ASSUME RadioRest, NEW i \in Interfaces, NEW r
    PROVE  Radio!Listing(i, r) \subseteq Radio!Sightings
<1>1. /\ Radio!ByStatus(i) \in Radio!Sightings /\ Radio!ByConfig(i) \in Radio!Sightings
      /\ Radio!ByDriver(i) \in Radio!Sightings
  BY DEF RadioRest, Radio!ByStatus, Radio!ByConfig, Radio!ByDriver, Radio!Sightings
<1>2. \A e : Radio!Previous(i, e) \subseteq Radio!Sightings
  BY DEF RadioRest, Radio!Previous
<1>3. ASSUME NEW e \in Radio!Sightings
      PROVE  Radio!Detailed(i, e, r) \subseteq Radio!Sightings
  <2>1. \A p \in Radio!Sightings : [e EXCEPT !.ssid = p.ssid] \in Radio!Sightings
    BY DEF Radio!Sightings
  <2> QED
    BY <1>2, <2>1 DEF Radio!Detailed
<1>4. ASSUME NEW k \in SUBSET Radio!Sightings
      PROVE  Radio!ByDriverToo(i, k, r) \subseteq Radio!Sightings
  BY <1>1, <1>2 DEF Radio!ByDriverToo
<1> QED
  BY <1>1, <1>3, <1>4 DEF Radio!Listing

\* And the names made of it are names of networks.
LEMMA NamesAreIds ==
    ASSUME RadioRest, NEW list \in [Interfaces -> SUBSET Radio!Sightings]
    PROVE  /\ Radio!Names(list) \in [Interfaces -> Radio!Ids \cup {NoName}]
           /\ Radio!Provided(list) \subseteq Radio!Ids
<1>1. \A i \in Interfaces : \A e \in Radio!Sightings : Radio!Id(i, e) \in Radio!Ids
  BY DEF Radio!Id, Radio!Ids, Radio!Sightings
<1>2. ASSUME NEW i \in Interfaces
      PROVE  Radio!Names(list)[i] \in Radio!Ids \cup {NoName}
  <2> DEFINE seen == {e \in list[i] : e.kernel}
             ids == {Radio!Id(i, e) : e \in seen}
  <2>1. Radio!Names(list)[i] = IF seen = {} THEN stableId[i] ELSE CHOOSE d \in ids : TRUE
    BY DEF Radio!Names
  <2>2. seen \subseteq Radio!Sightings
    OBVIOUS
  <2> HIDE DEF seen
  <2>3. ids \subseteq Radio!Ids
    BY <1>1, <2>2
  <2>4. CASE seen = {}
    BY <2>1, <2>4 DEF RadioRest
  <2>5. CASE seen # {}
    <3>1. ids # {}
      BY <2>5
    <3> HIDE DEF ids
    <3>2. (CHOOSE d \in ids : TRUE) \in ids
      BY <3>1
    <3> QED
      BY <2>1, <2>3, <2>5, <3>2
  <2> QED
    BY <2>4, <2>5
<1>3. Radio!Names(list) = [i \in Interfaces |-> Radio!Names(list)[i]]
  BY DEF Radio!Names
<1>4. Radio!Names(list) \in [Interfaces -> Radio!Ids \cup {NoName}]
  BY <1>2, <1>3
<1>5. Radio!Provided(list) \subseteq Radio!Ids
  BY <1>1 DEF Radio!Provided
<1> QED
  BY <1>4, <1>5

\* At the start.
LEMMA RadioInitRest == Radio!Init => RadioRest
BY DEF Radio!Init, RadioRest

\* Every step keeps it.
LEMMA RadioNextRest == RadioRest /\ [Radio!Next]_radioVars => RadioRest'
<1> SUFFICES ASSUME RadioRest, [Radio!Next]_radioVars PROVE RadioRest'
  OBVIOUS
<1>1. CASE Radio!Reload \/ Radio!ClientMoves \/ UNCHANGED radioVars
  BY <1>1 DEF Radio!Reload, Radio!ClientMoves, Radio!router, radioVars, RadioRest
<1>2. ASSUME NEW i \in Interfaces, Radio!Configured(i) PROVE RadioRest'
  BY <1>2 DEF Radio!Configured, RadioRest
<1>3. CASE Radio!Poll
  <2>1. PICK r \in Radio!Replies, at \in {place, Away} : Radio!PollWith(r, at)
    BY <1>3 DEF Radio!Poll
  <2> DEFINE list == [i \in Interfaces |-> Radio!Listing(i, r)]
             provided == Radio!Provided(list)
             removed == Radio!Removed(provided)
  <2>2. /\ listed' = list /\ stableId' = Radio!Names(list) /\ first' = FALSE
        /\ devices' = (devices \cup provided) \ removed
        /\ UNCHANGED <<transport, ssid>>
    BY <2>1 DEF Radio!PollWith, Radio!router
  <2>3. list \in [Interfaces -> SUBSET Radio!Sightings]
    BY ListingsAreSightings
  <2> HIDE DEF list
  <2>4. /\ Radio!Names(list) \in [Interfaces -> Radio!Ids \cup {NoName}]
        /\ provided \subseteq Radio!Ids
    BY <2>3, NamesAreIds
  <2> HIDE DEF provided, removed
  <2> QED
    BY <2>2, <2>3, <2>4 DEF RadioRest
<1> QED
  BY <1>1, <1>2, <1>3 DEF Radio!Next

\* Together they are the type invariant.
LEMMA RadioTypeOK == RadioIInv /\ RadioRest => Radio!TypeOK
BY DEF RadioIInv, RadioRest, Radio!TypeOK

\* And for the entities of an entry: what is remembered, there and registered are
\* things of the kind.
PlatformRest ==
    /\ kind \in Kinds
    /\ {wired, randomMac, skip, running, lost, twice} \subseteq BOOLEAN
    /\ running => data \in Platform!Polls
    /\ seenAs \in {"none", "wired", "wireless"}
    /\ keys \subseteq Platform!Things
    /\ entities \subseteq registry /\ registry \subseteq Platform!Things

\* A poll is about things of the kind, and so is what it adds.
LEMMA PlatformThings ==
    ASSUME PlatformRest, NEW d \in Platform!Polls, NEW o, NEW ks, NEW reg
    PROVE  /\ Platform!Marks(o, d) \subseteq Platform!Things
           /\ {Platform!Id(v) : v \in Platform!Adds(o, d, ks, reg)} \subseteq Platform!Things
           /\ Platform!HistoryAfter(d) \in {"none", "wired", "wireless"}
           /\ \A new, present : Platform!Clashes(new, present) \in BOOLEAN
<1>1. 1 \in Platform!Things
  BY DEF Platform!Things
<1>2. d.seen \subseteq Platform!Things
  BY <1>1 DEF Platform!Polls
<1>3. \A v \in Platform!Things :
         Platform!Key(v) \in Platform!Things /\ Platform!Id(v) \in Platform!Things
  BY <1>1 DEF Platform!Key, Platform!Id
<1>4. Platform!Adds(o, d, ks, reg) \subseteq d.seen
  BY DEF Platform!Adds
<1>5. Platform!Marks(o, d) \subseteq {Platform!Key(v) : v \in d.seen}
  BY DEF Platform!Marks
<1>6. Platform!HistoryAfter(d) \in {"none", "wired", "wireless"}
  BY DEF PlatformRest, Platform!HistoryAfter
<1>7. \A new, present : Platform!Clashes(new, present) \in BOOLEAN
  BY DEF Platform!Clashes
<1> QED
  BY <1>2, <1>3, <1>4, <1>5, <1>6, <1>7

\* At the start.
LEMMA PlatformInitRest == Platform!Init => PlatformRest
BY DEF Platform!Init, PlatformRest

\* Every step keeps it.
LEMMA PlatformNextRest == PlatformRest /\ [Platform!Next]_platformVars => PlatformRest'
<1> SUFFICES ASSUME PlatformRest, [Platform!Next]_platformVars PROVE PlatformRest'
  OBVIOUS
<1>1. kind' = kind
  BY DEF Platform!Next, Platform!PollPublished, Platform!Setup, platformVars
<1>2. Platform!Things' = Platform!Things /\ Platform!Polls' = Platform!Polls
  BY <1>1 DEF Platform!Things, Platform!Polls, Platform!K
<1>3. CASE UNCHANGED platformVars
  BY <1>2, <1>3 DEF platformVars, PlatformRest
<1>4. CASE Platform!PollPublished
  <2>1. PICK d \in Platform!Polls :
           /\ data' = d /\ seenAs' = Platform!HistoryAfter(d)
           /\ LET new == Platform!Adds(option, d, keys, registry)
              IN  /\ keys' = keys \cup Platform!Marks(option, d)
                  /\ entities' = entities \cup {Platform!Id(v) : v \in new}
                  /\ registry' = registry \cup {Platform!Id(v) : v \in new}
                  /\ twice' = Platform!Clashes(new, entities)
    BY <1>4 DEF Platform!PollPublished
  <2> DEFINE new == Platform!Adds(option, d, keys, registry)
             ids == {Platform!Id(v) : v \in new}
  <2>2. /\ keys' = keys \cup Platform!Marks(option, d)
        /\ entities' = entities \cup ids /\ registry' = registry \cup ids
        /\ twice' = Platform!Clashes(new, entities)
    BY <2>1
  <2>3. /\ Platform!Marks(option, d) \subseteq Platform!Things
        /\ ids \subseteq Platform!Things
        /\ seenAs' \in {"none", "wired", "wireless"} /\ twice' \in BOOLEAN
    BY <2>1, <2>2, PlatformThings
  <2>4. lost' = FALSE /\ UNCHANGED <<wired, randomMac, skip, running>>
    BY <1>4 DEF Platform!PollPublished
  <2> HIDE DEF ids, new
  <2> QED
    BY <1>1, <1>2, <2>1, <2>2, <2>3, <2>4 DEF PlatformRest
<1>5. CASE Platform!Setup
  <2>1. PICK o \in {option, "on", "off"}, d \in Platform!Polls :
          LET kept == Platform!RemoveDisabled(o, registry)
              new == Platform!Adds(o, d, {}, {})
              added == {Platform!Id(v) : v \in new}
              orphans == {u \in kept \cup added :
                              Platform!Orphaned(o, d, Platform!HistoryAfter(d), u)}
          IN  /\ data' = d /\ seenAs' = Platform!HistoryAfter(d)
              /\ keys' = Platform!Marks(o, d)
              /\ entities' = added \ orphans
              /\ registry' = (kept \cup added) \ orphans
              /\ twice' = Platform!Clashes(new, {})
              /\ lost' = (((registry \ kept) \cup orphans) \cap added # {})
    BY <1>5, Zenon DEF Platform!Setup
  <2> DEFINE kept == Platform!RemoveDisabled(o, registry)
             new == Platform!Adds(o, d, {}, {})
             added == {Platform!Id(v) : v \in new}
             orphans == {u \in kept \cup added :
                             Platform!Orphaned(o, d, Platform!HistoryAfter(d), u)}
  <2>2. /\ data' = d /\ seenAs' = Platform!HistoryAfter(d)
        /\ keys' = Platform!Marks(o, d)
        /\ entities' = added \ orphans /\ registry' = (kept \cup added) \ orphans
        /\ twice' = Platform!Clashes(new, {})
        /\ lost' = (((registry \ kept) \cup orphans) \cap added # {})
    BY <2>1
  <2>3. /\ Platform!Marks(o, d) \subseteq Platform!Things /\ added \subseteq Platform!Things
        /\ seenAs' \in {"none", "wired", "wireless"} /\ twice' \in BOOLEAN
    BY <2>2, PlatformThings
  <2>4. kept \subseteq Platform!Things
    BY DEF PlatformRest, Platform!RemoveDisabled
  <2>5. running' = TRUE /\ UNCHANGED <<wired, randomMac, skip>>
    BY <1>5 DEF Platform!Setup
  <2> HIDE DEF kept, new, added, orphans
  <2>6. lost' \in BOOLEAN
    BY <2>2
  <2> QED
    BY <1>1, <1>2, <2>2, <2>3, <2>4, <2>5, <2>6 DEF PlatformRest
<1> QED
  BY <1>3, <1>4, <1>5 DEF Platform!Next

\* Together they are the type invariant.
LEMMA PlatformTypeOK == PlatformIInv /\ PlatformRest => Platform!TypeOK
BY DEF PlatformIInv, PlatformRest, Platform!TypeOK

-----------------------------------------------------------------------------
(* The four of the module, of which one moves.                             *)

\* Whichever part moves, each takes one of its own steps or rests.
LEMMA EntitiesParts ==
    [EntitiesNext]_entitiesVars =>
        /\ [Platform!Next]_platformVars /\ [Next]_vars
        /\ [Event!Next]_eventVars /\ [Radio!Next]_radioVars
<1> SUFFICES ASSUME [EntitiesNext]_entitiesVars
             PROVE  /\ [Platform!Next]_platformVars /\ [Next]_vars
                    /\ [Event!Next]_eventVars /\ [Radio!Next]_radioVars
  OBVIOUS
<1>1. CASE UNCHANGED entitiesVars
  BY <1>1 DEF entitiesVars
<1>2. CASE EntitiesNext
  BY <1>2 DEF EntitiesNext
<1> QED
  BY <1>1, <1>2

\* The invariants of the four.
EntitiesIInv ==
    /\ PlatformIInv /\ PlatformRest
    /\ TrackersIInv
    /\ EventIInv /\ EventRest
    /\ RadioIInv /\ RadioRest

\* They hold in every state.
THEOREM EntitiesInvariant == EntitiesSpec => []EntitiesIInv
<1>1. EntitiesInit => EntitiesIInv
  BY PlatformInitIInv, PlatformInitRest, TrackersInitIInv, EventInitIInv, EventInitRest,
     RadioInitIInv, RadioInitRest
     DEF EntitiesInit, EntitiesIInv
<1>2. EntitiesIInv /\ [EntitiesNext]_entitiesVars => EntitiesIInv'
  BY EntitiesParts, PlatformNextIInv, PlatformNextRest, TrackersNextIInv,
     EventNextIInv, EventNextRest, RadioNextIInv, RadioNextRest
     DEF EntitiesIInv
<1> QED
  BY <1>1, <1>2, PTL DEF EntitiesSpec

\* The states of the four are of their types: what is remembered, there and registered
\* are things the kind has, and every name of a network's device is one it can have.
THEOREM EntitiesTypes == EntitiesSpec => []TypesOK
<1>1. EntitiesIInv => TypesOK
  BY PlatformTypeOK, EventTypeOK, RadioTypeOK DEF EntitiesIInv, TrackersIInv, TypesOK
<1> QED
  BY <1>1, EntitiesInvariant, PTL

\* No entry ever hands Home Assistant a tracker of a device that another entry's
\* tracker stands for, and the tracker there is belongs to the loaded entry that
\* the registry names (device_tracker.py, registered_macs), for any set of entries.
THEOREM OneTracker == EntitiesSpec => []OneTrackerPerDevice
<1>1. EntitiesIInv => OneTrackerPerDevice
  BY DEF EntitiesIInv, TrackersIInv
<1> QED
  BY <1>1, EntitiesInvariant, PTL

\* What a poll lists and the entry may show has its entity (EntityPlatforms), for
\* every kind of entity in the table.
THEOREM EverythingIsShown == EntitiesSpec => []EveryThingHasItsEntity
<1>1. EntitiesIInv => EveryThingHasItsEntity
  BY DEF EntitiesIInv, PlatformIInv
<1> QED
  BY <1>1, EntitiesInvariant, PTL

\* A set-up removes no entity that it creates again (EntityPlatforms), for every kind
\* of entity in the table.
THEOREM EntitiesSurviveReloads == EntitiesSpec => []KeptOverReloads
<1>1. EntitiesIInv => KeptOverReloads
  BY DEF EntitiesIInv, PlatformIInv
<1> QED
  BY <1>1, EntitiesInvariant, PTL

\* A device that is told gone was in no good poll for longer than the grace, and is
\* told gone once (NewDeviceEvent), for any devices and any period of grace.
THEOREM GoneIsGone == EntitiesSpec => []DisconnectMeansGone
<1>1. EntitiesIInv => DisconnectMeansGone
  BY DEF EntitiesIInv, EventIInv
<1> QED
  BY <1>1, EntitiesInvariant, PTL

\* A poll that the router answers puts the device of a client below the one of its
\* network (RadioDevices), for any networks and SSIDs.
THEOREM ClientsBelowTheirNetworks == EntitiesSpec => BelowItsNetwork
<1> DEFINE Moves == Radio!GoodPoll =>
               IF place = Away THEN parent' \in devices' \cup {Router, NoDevice}
                               ELSE parent' = Radio!Proper(place)
<1>1. EntitiesIInv /\ [EntitiesNext]_entitiesVars => [Moves]_radioVars
  BY GoodPollMoves DEF EntitiesIInv
<1>2. [][Moves]_radioVars => BelowItsNetwork
  BY DEF BelowItsNetwork, Radio!BelowItsNetwork, radioVars, Radio!vars, Radio!router
<1> QED
  BY <1>1, <1>2, EntitiesInvariant, PTL DEF EntitiesSpec

=============================================================================
