# OpenWrt integration: verification project

This directory holds the TLA+ specifications of the Home Assistant integration
for OpenWrt routers (`custom_components/openwrt`), the TLC configurations that
check them on small instances, and the TLAPS proofs about them.

* `X.tla` models a component; `MC_X.tla` instantiates one module or several for
  TLC; `X_name.cfg` is a run; `X_proofs.tla` holds theorems about `X`, or about the
  modules of `MC_X` (`Flows_proofs`: of `MC_OptionsFlow`).
* `PROJECT.json` lists components, runs, mutants, findings, hazards and theorems,
  and for every definition the lines of the source it stands for.

Run one with, for example, `tlc -config PollTiers_all.cfg MC_PollTiers`, and check
proofs with `tlapm PollTiers_proofs.tla`; so for `SshClient`, `Sessions`, `DeviceTracking`,
`ScanPresence`, `Entities`, `Switches` and `Flows`.

## The system

Paths below are relative to `custom_components/openwrt`.

| Component | State | Operations | Where it is hard |
|---|---|---|---|
| **Transports** `api/ubus/client.py`, `api/luci_rpc/client.py`, `api/ssh/client.py` | session id or token, Paramiko client, `_connected`, a lock for logging in, a semaphore | connect, disconnect, one call or command with its retry | a whole gather of calls shares one session; every call may find it dead at once; the coordinator and the user's actions log in beside them; threads cannot be cancelled |
| **Aggregator** `api/client/aggregator.py`, `api/base.py` | caches of three tiers, their timestamps, a generation counter | `get_all_data`, `_invalidate_slow_poll` | a poll has dozens of await points; actions change the router meanwhile; every fetch may fail alone |
| **Device list** `api/*/devices*.py` | the previous list | merge of leases, associations, neighbours, hostapd, bridges | five sources that contradict each other and fail independently, merged differently by each transport |
| **Coordinator** `coordinator/__init__.py`, `__init__.py`, `update.py` | data, backoff interval, repair issues, flag of an installation | set up, poll, reconnect, reload, unload, install firmware | a failure in any phase, a poll beside a firmware installation |
| **Tracking** `coordinator/tracking.py`, `device_trackers/entity.py` | ages of sightings, a persistent history, claims shared by all entries | stabilise, claim, drop a claim, show | several entries poll in any order about one roaming device; restarts; outages |
| **Trackers** `device_tracker.py` | a set of MAC addresses shared by all entries, Home Assistant's registry | add, keep, remove a tracker | a unique id may have one owner, and entries load, unload and change options in any order |
| **Entities** `switch.py`, `sensor.py`, `binary_sensor.py`, `button.py`, `number.py`, `light.py`, `image.py`, `update.py`, `__init__.py` | keys of what was added, Home Assistant's registry | add after a poll, remove what is disabled or orphaned at a set-up | two rules, one that adds and one that removes, written in different places |
| **Events** `event.py` | who is held for connected | tell who came and who left | failed polls, a grace period, data processed before the listener runs |
| **Device registry** `coordinator/device_registry.py` | devices of networks, clients below them | name, rename, purge, move below | three queries that fail independently, names that depend on which answered |
| **Actions** `switches/`, `lights/`, `numbers/`, `api/*/features*.py`, `api/*/wireless.py` | settings staged and committed on the router, optimistic data | an action in several requests | requests fail in the middle; a delta shared with other actions; actions that overlap |
| **MWAN totals** `coordinator/network.py` | outage totals and their anchor, a store on disk | account for one sample | transitions nobody saw, replies of an earlier boot, failed saves, restarts |
| **Presence scripts** `helpers/presence_templates` | retained MQTT messages, pid files on each access point | event, grace timer | access points share only the broker; messages and processes outlive a kill |
| **MQTT discovery** `coordinator/discovery.py` | retained discovery topics, flags in the history store | announce, clear | topics are shared by the entries, loops outlive a reload |
| **Wizards and options** `config_flow.py`, `flows/` | the data of an unfinished dialog, accounts and scripts on the router | discover, log in, provision, reauthenticate, repair, install presence | many paths to one entry, several dialogs at once, tests that fail after having worked |
| **Update checks** `coordinator/firmware.py`, `helpers/asu.py`, `update.py` | version, address and flags of what can be installed | query an index, an image server or a repository; compare; build; flash | each query fails alone and overwrites only its own fields; an installation reads them after an await |
| **Parsers and data classes** `api/models`, `api/*/…` | none | turn a reply into records | formats of many firmware versions |

How they interact: Home Assistant's timer starts a poll of the *coordinator*. It
connects the *transport* if needed and calls `get_all_data` of the *aggregator*,
which gathers many calls of the transport at once; the *device list* is one of
them. The coordinator then computes the *MWAN totals*, stabilises the list in
*tracking*, brings the *device registry* up to date, announces devices by *MQTT
discovery* and publishes the data; the listeners of *trackers*, *entities* and
*events* run. A user's action goes from an entity straight to the transport, beside
whatever poll is running, and asks the aggregator for an early re-read. Dialogs
have clients of their own and end in an entry, whose set-up starts all this. All of
it is one event loop: code between two awaits is atomic, everything else
interleaves. SSH adds worker threads, the access points their own processes, MQTT a
broker that reorders and retains.

What makes each part correct:

* Transports: one login serves everybody who found the session dead; a request is
  repeated once at most; nobody waits for ever; a connection has one user at a time
  and is always found again to be closed.
* Aggregator: what a user changed is shown again soon; data is no older than its
  timestamp says; when the router is quiet the data catches up.
* Device list: one more sign of a device never disconnects it, and an association
  connects.
* Coordinator: after an outage the entry comes back to its normal rate.
* Update checks: nothing older than what runs is flashed, and nothing for another board.
* Tracking: a device just seen by anybody is home; one that left is away in the
  end, though claims, neighbour tables and histories outlive it.
* Trackers, entities: what is there has one entity, and set-ups lose none.
* Events: who is told gone was really missed for the grace period.
* Device registry: a client is below its network; named networks stay.
* Actions: what is shown as done was done; half-done changes do not stay.
* MWAN totals: the published ratio errs low, and is exact when nothing is missed, under
  the conditions named with the module.
* Presence scripts, discovery: when all is settled the retained messages are right.
* Wizards: one entry per router, with credentials that logged in and a presence
  that was installed.

## Modules and the code

An action is one stretch of code between two awaits, or a reaction of the
environment (the router, a broker, a user). Guards are the code's conditions.
`PROJECT.json` maps every definition to its lines.

### PollTiers: `get_all_data` and the actions

`PollStart` takes the decisions and the generation before the first await;
`FetchAnswered` and `FetchFailed` end one fetch of a gather in any order;
`StoreCore`, `StoreSlow` and `StoreMedium` are the code after a gather, with the
timestamps; `PollAbort` is the connection tracking query that is outside any
handler. An action of a user is three steps (`ActionSent`, `ActionApplied`,
`ActionDone` or `ActionRaises`), so that polls fall anywhere between them. An item
of data is a version number: smaller is staler. Time is kept as ages that
saturate where the code stops comparing them. The object an entity has looked up
before its await may be replaced by a poll; `attached` says whether the optimistic
update still reaches the data. Items stay listed: that an answer without some network
interface or SQM section keeps the old element (`get_val`) is left out.

### CallService, UbusSession and LuciSession: the shared session

`CallService` is what a client promises those who call it: a request is put to the
router, with no more than `Slots` at a time, repeated once at most, and answered or
refused. `UbusSession` and `LuciSession` implement it; the refinement mapping
(`Request`) computes from a call's locals how often it was made and where it is.

Both have a pool of slots (the semaphore), one lock for logging in, a coordinator
that may connect at any time, and a router whose sessions expire. In ubus a
refusal does not tell an expired session from a missing permission: the call
probes the session and logs in only if the session is dead. In LuCI the token a
request carried is compared with the current one inside the lock. Connection
errors disconnect the shared client and use up the one retry; the coordinator disconnects it too
after a failed fetch, which is not told from the former (`ConnectionReset`). Left out: endpoint
redirects, provisioning, user management.

### SshClient: one Paramiko client in threads

Coroutines take turns by `_connection_lock`; each blocking call runs in a worker
thread. `Cancel` is `_run_executor`: the first cancellation waits for the worker, a
second one ends the wait and not the worker. `OrphanDone` lets such a thread
finish on its own. Left out: host key pinning, the kinds of connection errors.

### DeviceScan, DeviceScanShell, DeviceScanPolls, DeviceTracking: presence

`DeviceScan` is the pure pipeline `get_connected_devices` of the ubus transport for
one device: `Scan(answers, previous)`. `DeviceScanShell` has the pipelines of SSH and
LuCI, which run commands on the router: `ScanSsh`, `ScanLuci`. They take the same
sources in other orders and with rules of their own: a command that fails prints
nothing and is taken for an empty list, hostapd is asked only if iwinfo lists
nobody (SSH). `DeviceScanPolls` applies the pipelines poll after poll to arbitrary
answers. `DeviceTracking` extends `DeviceScan`: there the answers are those
the routers can give about a device that moves between access points, the wire and
away; each entry fetches (`Fetches`) and later processes (`Processes`) its list, keeps
the history, and updates the claim all entries share; the tracker combines them.
Time is counted in polling periods.

### Trackers: which entry has the tracker of a device

`PollPublished` is the listener of an entry, which looks `registered_macs` up and
adds a tracker; `Setup` runs it after the removal of what the options no longer want;
`Unload`, `Delete`, `Toggle` (a user disables the tracker) and `Restart` are the rest
of an entry's life. Home Assistant's refusal of a unique id that is taken is part
of the model, since a refused tracker is one the set remembers all the same.

### EntityKinds, EntityPlatforms: which entities an entry has

All platforms work alike: a listener adds an entity for what a poll lists, remembers
its key, and a set-up removes entities of disabled features and orphans.
`EntityKinds` is a table of 53 kinds of entities, a record of rules each: the
permission, package and option it takes, what marks its key, what removes it. A kind
has one option; the nlbwmon sensors, which the platform adds with one and the removal
drops by another, are modelled with the first, `track_devices`, on.
`EntityPlatforms` is the behaviour of one kind under those rules.

### NewDeviceEvent, RadioDevices: after a poll

`NewDeviceEvent` is the event entity, with the time since a device was last in a
poll. `RadioDevices` makes the list of networks of a poll from the three
queries that can fail, for each transport, names the devices, purges and moves.

### Wireless, Actions, AccessControl: what a user switches

`Wireless` is UCI with its delta: operations stage one setting after the other,
commit, fail, revert, beside each other and an administrator. `Actions` has a script
of requests for each of twelve kinds of switches and each transport
(`firewall rule` to `WPS`), with what each request does when it is rejected or its
answer is lost, and whether the switch looks at the result. `AccessControl` is the
switch for a device's internet access: a rule that is looked for, added, filled in,
committed and read again, over ubus, SSH and, as an error, LuCI.

### ConfigFlow, OptionsFlow: the dialogs

`ConfigFlow` has one action per step of the wizards (user, discovery by DHCP, SSDP
and Zeroconf, reauthentication, reconfiguration, diagnostics and repair, a new user,
permissions, packages, MQTT presence), several wizards at once. What awaits a router is
two actions, the second with every outcome. Home Assistant's part (unique ids in
progress, aborting other flows) is external. `OptionsFlow` extends it by the options
dialog, beside the wizards that may change or remove its entry.

### Coordinator: an entry's life

`SetupConnects` .. `Reload` are `async_setup_entry` and its errors; `PollStart` ..
`GpsImportFails` are the phases of `_async_update_data`, each of which can fail;
`InstallStart` .. `FlashAccepted` are `async_install`, running beside the polls. What
a fetch reads is in PollTiers, how a transport reconnects in the session
modules; here a fetch answers, raises, or, over ubus, which swallows its errors,
returns what was known before.

### FirmwareUpdates: what is offered and what is flashed

A check is one action per query (`StableIndexAnswers` .. `TagsAnswer`), each of which may
fail; it fills in `offer`, the firmware fields of the data, which every poll takes over
from the one before. An installation takes its image from these fields after its backup
(`UrlTaken`, `BuildRequested`). Releases are numbers that grow, a file is the release and
the board it is for. How an installation runs beside polls and outages is in
Coordinator. Left out: checksums, links, release notes, package updates, and upgrades
of the router by somebody else.

### MwanTotals: the online ratio

The router is a line that goes up and down and a clock that restarts with a
reboot; `Reply` is what `mwan3 status` says of it: only how long the present state
has lasted. `Update` is everything one poll does, from the boot time to the save.
`down` is the ghost that counts what really happened. That the ratio "never overstates
availability" (network.py:57-59) holds under four conditions, which are constants of
the module: every save succeeds, no sample in the second of a change, at most two
changes between two samples, boots longer than the margins. Without any of them it
does not (see below).

### PresenceEvent, MqttDiscovery: presence over MQTT

In `PresenceEvent` hostapd queues events per radio and runs one script at a time for
each (`EventTaken`, `CancelGrace`, `PublishHome`, ...); the timer is a process of its own
(`GraceOver` .. `PublishNobody`). `DeliveredLate` is the `mosquitto_pub` that
`cancel_grace` does not kill. Left out: lost publications, restarts of an access
point, the topic lookup. `MqttDiscovery` is the announcement of a device by two
entries: the flags that say a clear-up is due, the store that survives a restart and
is written in an old form first, the loops that outlive a reload.

## The runs

Several components are too small to deserve a run each. A run of theirs is a sum:
the MC module takes one module by EXTENDS and the others by INSTANCE, chooses in its
initial state which of them moves, and leaves the others in one initial state.
What it checks is what separate runs would check; it has as many states as they
have together.

| Run | Modules | Shows |
|---|---|---|
| `poll_tiers` | PollTiers | `AckedChangeNotForgotten`: an acknowledged change is shown, or the slow tier is due, or the running poll will store a read made after it. `NoOlderThanTimestamp`: no stored item was read before its tier's timestamp. `DataConverges`: once the router is quiet the data is the router's. |
| `sessions` | UbusSession, LuciSession, SshClient | `UbusServesCalls`, `LuciServesCalls`: both clients implement CallService. `OneLoginPerDeadToken`: the calls one dead LuCI token fails open at most one session for it. `NoOrphanedTransport`, `WorkerHoldsTheLock`: an SSH transport is always found to be closed and used by one thread at a time, with broken links and cancellations anywhere. `EveryCallEnds`: no call of any client waits for ever for a slot or the lock. |
| `track` | DeviceTracking | `SeenIsHome`: a device just seen is home, across failures, restarts and any order of two entries' polls. `CalmAwayInTheEnd`: a device that left for good is shown as away, when no lease and no neighbour entry outlives it. |
| `presence_scan` | PresenceEvent, MqttDiscovery, DeviceScanPolls, Coordinator | `SettledRight`: after scripts that did not overlap the retained message is right. `SwitchedOffIsCleared`: once the option is off everywhere, no device stays announced. `MoreEvidenceNeverDisconnects`, for every answer after every list, over each transport. `EntryRecovers`: when the router is back, so is the entry, at its normal rate and without the issue, for a transport that raises and one that swallows its errors. |
| `entities` | Trackers, EntityPlatforms, NewDeviceEvent, RadioDevices | `OneTrackerPerDevice`; `EveryThingHasItsEntity`: what a poll lists and the entry may show has its entity; `KeptOverReloads`: a set-up removes nothing it creates again; `DisconnectMeansGone`: who is told gone was missed for the grace; `BelowItsNetwork`: a client's device is below its network's. |
| `switches` | Wireless, Actions, AccessControl, FirmwareUpdates, MwanTotals | `OneTransaction`, `DoneAsShown`, `NothingLeftStaged` for the wireless switches; `AckedIsDone`, `ParallelChangesAgree` for the others; `AccessAsAsked` for the internet access. `OnlyUpgrades`: no image older than what runs is flashed. `NeverOverstates`, `ExactWhenWatched`: the online ratio, with missed transitions, failed queries, a reboot and a restart, as long as every save succeeds and no sample falls in the second of a change. |
| `flows` | ConfigFlow, OptionsFlow | `OneEntryPerRouter`; `CredentialsProved`: an entry is given only credentials that logged in; `OptionsOnRouter`: presence settings only after their scripts were installed. |
| `new_device` | NewDeviceEvent | refutes `UnknownIsNew` (below). |
| `network_purge` | RadioDevices | refutes `NamedNetworksStay` (below). |
| `access_ssh` | AccessControl | refutes `UnblockedOverSsh` (below). |
| `firmware_board` | FirmwareUpdates | refutes `ImageForThisBoard` (below). |
| `hostapd_clients` | DeviceScanPolls | refutes `AssociatedIsConnected` (below). |

The type invariants are checked with them (`TypeOK`, `TypesOK`), and
each property has a mutant of a mapped definition (a dropped guard, a wrong
timestamp, a missing reset) that violates it under the same configuration; mutants
are the definitions commented "Bug for the tests of the properties".

### Bounds

* `poll_tiers`: one item in the slow and one in the medium tier, two actors, one
  version per item beyond the first, intervals of 2 and 1 ticks. Items of a tier
  are independent and stored together; a race needs one change and one poll, and
  a second actor to invalidate twice. The fast tier is empty: its items are read
  by every poll and no timestamp speaks of them.
* `sessions`: two calls, the coordinator, one slot, three sessions. A slot is
  released before the wait for the lock, so one slot keeps every overlap of logins
  and makes a wrongly held slot a deadlock. Three sessions are the first, its
  replacement and one more that would be needless. Over SSH the shutdown besides,
  two transports and two cancellations, of one coroutine or of two.
* `track`: a gateway and an access point, a grace period of 2 polls and a claim
  limit of 3, so that each of the two comes first for some age.
* `presence_scan`: three radios at two access points, three associations: a device can
  visit each radio, or come back to one, while timers of the first visit run. Two entries
  and one device for the announcement; a behaviour ends where something is interrupted,
  since the property excepts it from there on. All answers about a device, after each
  other. For the life of an entry the real interval and cap (60 s, 600 s), five failures,
  which is past the cap; two outages or password changes; two installations.
* `entities`: one kind of each sort of rules (`OneOfEachSort`; kinds with equal rules
  behave alike), two things where a kind can confuse two; a tracker and two entries;
  two devices and a grace of 3 ticks; two networks, two names, one client. The
  networks, names and entries are symmetric.
* `switches`: two networks of a radio, two operations at a time (a third one follows,
  where failures of earlier ones matter), two faults, one change by an
  administrator; twelve kinds. The networks and operations are symmetric. For the
  firmware three releases, three checks and two installations: an offer of an old
  release, a newer one and a failed query between them, and an installation that a check
  overtakes. For the totals seven ticks, two changes of the line between two samples, one
  reboot, one restart; margins of one or two ticks, in the order the code's constants
  have. Outages an update can miss need two changes.
* `flows`: a wizard and an announcement, an options dialog, two entries, one router
  at two addresses (the case in which two entries of it could come about), three
  passwords, and one of the dialogs with questions that may fail (`Unsure`). A test
  that fails leaves its answers in that dialog only; in the other the next one that
  succeeds overwrites them unread.

`CHECK_DEADLOCK FALSE` is set where the bounded environment may have nothing left
to do, or where all that is left of a sum may stop.

### Fairness

* `PollTiers`: the event loop goes on with a finished gather and the timer fires
  (weak fairness of the poll's own steps and of time); the router answers every
  query again and again, and a poll is not abandoned every time (strong
  fairness). Nothing is assumed of users.
* Sessions: every request ends, by an answer or a timeout; `asyncio` locks and
  semaphores serve their waiters in order (strong fairness of taking them). Over
  SSH connecting and commands have timeouts (10 s, 15 s).
* `Coordinator`: Home Assistant keeps polling and retrying setups; a router that
  stays up answers sooner or later.
* `DeviceTracking`: each entry polls in every period.
* `MqttDiscovery`: loops and polls that were started go on, and Home Assistant polls.

## Proofs

Every safety invariant, action property and refinement that a passing run checks is a
theorem, for all values of the constants that its module assumes. Liveness is not (see
the end of this section).

`PollTiers_proofs` proves, for every set of items and actors and all intervals:

* `TypeCorrect`: `Spec => []TypeOK`;
* `AckedChangeNeverForgotten`: `Spec => []AckedChangeNotForgotten`;
* `NeverOlderThanTimestamp`: `Spec => []NoOlderThanTimestamp`.

The second is not inductive: it speaks of what is on record, while the reason it
is preserved is in the locals of the running poll. The invariant `IInv` adds that
what an action made, and what was acknowledged, is on the router (`ActionSound`,
`AckedOnRouter`), so a read made now covers it; that the collected results belong
to the running gather (`ResultsOfGather`); that as long as the generation has not
moved since the poll started, everything it has read is at least as new as
everything acknowledged (`ReadsCoverAcked`); and that the slow tier stays due
until a poll that started after the last acknowledgement stores it
(`DueUntilRead`). The third needs one conjunct more (`AgeInv`): what the running
poll has read is no older than the poll itself, whose start becomes the
timestamp. The proofs have a step per action and below it one per conjunct
the action can disturb. The assumptions are `Tiers` (the three tiers are
disjoint) and `Intervals` (the medium interval is not longer than the slow one),
which the constants of `api/client/aggregator.py` satisfy.

`SshClient_proofs` proves, for any number of coroutines, connections and
cancellations (the bounds `MaxTransports` and `MaxCancels` are arbitrary numbers):

* `TypeCorrect`: `Spec => []TypeOK`, which says who holds the lock;
* `WorkersTakeTurns`: `Spec => []WorkerHoldsTheLock`;
* `TransportsAreOwned`: `Spec => []NoOrphanedTransport`;
* `NeverSentAThirdTime`: `Spec => []SentAtMostTwice`.

All four follow from one inductive invariant. It adds that the worker of a
coroutine does what its coroutine waits for (`JobOfPhase`); that a transport being
closed is one the client has let go of, and no later connection is that one again
(`ClosingForgotten`); that whoever closes or connects found or left the client
empty (`NoClientMeanwhile`), without which a new connection could push a live one
out of `_client`; that a live client is an open one (`AliveIsOpen`); and how often
the command of each phase was sent (`Sends`). What all actions of the lock's holder
have in common is proved once (`TurnStep`, and for its three outcomes `ReturnStep`,
`RunStep`, `SendStep`); each action then only shows what it does to the client and
to its transports. A worker left behind by a coroutine cancelled twice is the one
step outside the lock (`OrphanStep`), and the reason for the exception in the
properties. The assumption `SshConstants` says that the coroutines
are distinct.

`Sessions_proofs` is about the LuCI and the ubus client, for any finite set of calls and
any number of slots, sessions and tokens, and about the sum with `SshClient`:

* `TypesCorrect`: `SessionsSpec => []TypesOK`;
* `OneLoginForADeadToken`: `SessionsSpec => []OneLoginPerDeadToken`;
* `LuciKeepsItsPromise`, `UbusKeepsItsPromise`: `SessionsSpec => LuciServesCalls` and
  `SessionsSpec => UbusServesCalls`.

For LuCI, `OneLoginPerDeadToken` becomes inductive with who holds the lock
(`LuciLoginLocked`), that tokens only grow (`LuciTokensGrow`), and that a call logs in
only while nobody has replaced the token it was refused with (`LuciLoginNeeded`). The
refinements map every step to a step of `CallService` or a stutter: for LuCI action by
action; for ubus, whose calls have many ways through probe, lock and login, by the ways
from one set of locals to the next (`UbusKind`), which are fewer: each action is one of
them (`UbusCallKinds`), each of them a step of the service. Both need that only a first
attempt logs in (`UbusFirstAttempt`). Assumptions: `UbusValues`, `LuciValues` (a slot and a
session at least, finitely many calls) and `OneConnector`.

`DeviceTracking_proofs` proves, for any finite set of entries, any grace period, claim limit
and number of restarts, and any behaviour of the device:

* `Typing`: `Spec => []TypeOK`;
* `SeenDevicesAreHome`: `Spec => []SeenIsHome`.

`SeenIsHome` relates what the tracker shows to when a list last had the device. What links
them is the history: an entry whose tracker exists has one (`TrackedHasHistory`), it is as
young as the last sighting, over restarts too (`MetInHistory`), and no fetched list has a
device connected that it does not contain (`AnswersListed`), a fact about the pipeline `Scan`.
Assumptions: `TrackingConstants`, and `NoneIsNoRecord`.

`Switches_proofs` is about the five modules in `MC_Switches`:

* `SettingsInOneTransaction`, `SwitchesDoAsShown`, `FailedSettingsAreTakenBack`:
  `OneTransaction`, `DoneAsShown` and `NothingLeftStaged` for any networks and operations,
  and any number of faults. Whatever is staged over ubus was staged by an operation that
  will commit or revert it (`StagedBySomebody`); an operation alone has staged exactly
  what it has done of its settings on top of what it found (`AloneStages`), it commits all
  of them (`AloneCommits`), and takes the radio down with the last network only
  (`RightSettings`).
* `AcknowledgedIsDone`, `ChangesInParallelAgree`: `AckedIsDone` and `ParallelChangesAgree`
  for any operations and faults and any of the kinds. The script of a kind is a plan of effects
  (`ActPlan`), and what is left of an operation is the end of it (`OnPlan`; the lemmas
  before it show that every script of `Actions` is on the plan of its kind). `Put` says
  what an undisturbed operation has done with so many requests left; `ActVerified`, that
  nothing goes wrong unnoticed with the switches that verify. For operations that run into
  each other `ActAgrees` is enough: where the router does not do what is committed,
  somebody is still to reload it, and where something is staged, somebody is still to
  commit it.
* `AccessIsAsAsked`: `AccessAsAsked`. As long as no two operations overlapped
  (`OneAtATime`) there is one rule of the device at most (`OneRule`), besides the empty
  sections failed operations leave, and `OnItsWay` says at each await what is done.
* `NothingOlderIsFlashed`: `OnlyUpgrades`, for any number of releases, checks and
  installations. What is offered is newer than what it was compared with
  (`OfferIsNewer`); an index only moves on to files of later releases, so that the router
  never runs more than the file that is offered (`FilesGrow`); and which query is awaited
  fits the mode (`QueriesFit`). Then the image taken is not older than what runs
  (`ImageIsNewer`), though the offer may change while it is built.
* `OnlineShareIsNotTooHigh`, `OnlineShareIsExact`: `NeverOverstates` and `ExactWhenWatched`,
  for any margins and times and any number of restarts, missed queries and reboots. The
  invariant (`TotalsAreSound`) says of which boot the records in memory and on disk are
  (`MwanBoots`), that the two differ in nothing but when the line was last seen
  (`SameButSeen`), and, for each state of the line and number of changes since the last
  good sample, that what is on record and what the next sample will add to it cover the
  time the line was down, and are that time if every change was seen (`OnRecord`). The
  theorems say what they need of the environment:
  at most two changes between two samples, no sample in the second of a change, a store
  that can be written (without each of them the properties fail, see below), and
  `LongBoots`: a router is up for at least the two margins within which boot times count
  as the same (60 s and 120 s) before it reboots again. The run, whose margins are
  small, does not need the last; with `DriftMargin = EpochMargin = 3` TLC finds two boots
  taken for one.
* `SwitchesTypes`: `TypesOK`, where what is left of the settings of an operation is the
  end of them, and the lists of access rules stay within their bound.

The assumptions on the constants are those of the modules (`WirelessConstants`,
`ActionsValues`, `AccessValues`, `FirmwareValues`, `MwanValues`: the radio is no network, transports and modes are those of the code,
bounds are numbers).

`Entities_proofs` is about `MC_Entities`:

* `EverythingIsShown`, `EntitiesSurviveReloads`: `EveryThingHasItsEntity` and
  `KeptOverReloads` for every kind of the table and any things, not only
  for one kind of each sort. What the behaviour needs of a kind's rules is in `SoundRules` and
  `Agreeing`, and the lemmas `RulesAreSound` and `RulesAgree` show it of each of the 53
  kinds, the first but for those the properties except (`LeftOut`); a remembered key
  has its entity (`KeysHaveEntities`).
* `GoneIsGone`: `DisconnectMeansGone` for any grace period and devices: the time stamp
  of who is held for connected is of a good poll that listed the device, or later
  (`StampsAreLate`).
* `ClientsBelowTheirNetworks`: `BelowItsNetwork`, for any networks and names.
* `OneTracker`: `OneTrackerPerDevice`, for every set of entries. It is not inductive: that an
  entry adds a tracker only if nobody has one follows from `registered_macs`, so
  `TrackersIInv` adds that a live tracker holds its place in that set (`PlaceHeld`). A
  poll and a set-up both run the listener, and only a set-up the clean-up after it:
  `ListenerKeeps` is about the two together, for the part of the state that decides
  (`Places`), and the actions add what they do to the history and the options
  (`SeesKeeps`).
* `EntitiesTypes`: `TypesOK`.

The four invariants are one (`EntitiesInvariant`); the assumptions are that the kinds are
of the table and that the grace is a positive number.

`ScanPresence_proofs` is about `MC_ScanPresence`:

* `SettledPresenceIsRight`: `SettledRight`, for any radios, access points and associations.
  Of behaviours in which no two scripts overlapped the invariant says so: where an event
  waits, a script runs or a timer is awake, nothing goes on at any other radio
  (`OneScript`). A connection on its way is of the radio the device is at. Otherwise the
  retained messages are right, but while the device is away they may still name an
  access point that will look for it: a radio of that one lists the device, has its
  disconnection on the way, or a timer (`OnItsWayRight`, `Watches`). When all has settled
  nobody watches any more, which leaves the right messages.
* `MoreEvidenceKeepsConnected`: `MoreEvidenceNeverDisconnects`, over every transport and with
  any options. The lemmas say what each source adds to a list (`ScanAssociates`,
  `ScanNeighbor`, `ScanHostapd`, `ScanFdb`, ...); from them `UbusScan`, `SshScan` and
  `LuciScan` derive when the whole pipeline calls a device connected, as one condition
  on the answers and the previous list. `MoreEvidence` then compares two answers of
  which one has every sign that the other has (`SaysMore`).
* `ScanPresenceTypes`: `TypesOK`, which bounds the queues of the radios by counting
  (`QueueBounds`: two events for each association, one of them only when the radio
  has dropped the device), and says that a poll runs only for an entry that is set up, and
  an installation only for a loaded one.

The assumptions are `PresenceConstants` and `ScanConstants`, that transports are those of
the code (`PollsValues`), and the ranges of the options (`LifeValues`).

`Flows_proofs` is about all dialogs at once, for any number of wizards, entries,
addresses, passwords and brokers:

* `TypeCorrect`: `Spec => []TypeOK`;
* `IdsDiffer`: `Spec => []OneEntryPerId`, for any number of routers, with or without a MAC
  address that can be read;
* `RouterHasOneEntry`: `Spec => []OneEntryPerRouter`;
* `NoCredentialsUnproved`: `Spec => CredentialsProved`;
* `OptionsFollowTheRouter`: `Spec => OptionsOnRouter`.

The invariant says of every wizard that its record is `Sound`: the place it stands at decides
what it must know (`Allowed`, `Tests`): an address, a login with the credentials it
holds, or that it gave up on them after ten tests (`HasLoggedIn`), and, past the
forms of the login, a unique id that no entry has (`Owns`). The last is what
another wizard can take away, and `FlowsLater` is about that: whoever makes an entry
aborts the wizards of its unique id, an aborted wizard has no need of one, and the
removal of an entry frees one. Of the options dialog `OptFits` says that its entry exists and
that what it is about to store is on the router or off. `OneRouter`, that all addresses of a
run lead to one router which tells its MAC address, is used for `OneEntryPerRouter`
and `CredentialsProved` only: with two routers a reconfiguration, which does not
compare unique ids, may move an entry to a router that has one already.

Only model-checked is liveness: `DataConverges`, `EveryCallEnds`, `CalmAwayInTheEnd`,
`SwitchedOffIsCleared` and `EntryRecovers` rest on fairness, which the prover does not
reason about.

## Where the code and its documentation part

Five disagreements have a run; `PROJECT.json` quotes the lines.

* `new_device`: the event `new_device_connected` never fires. The poll that finds a
  device has put it into the history before the event entity looks. (README.md:77 and
  docs/automations.md:329 promise an `openwrt_new_device` event besides, which is fired
  nowhere.)
* `network_purge`: "Never purge legitimate named SSIDs": a network that is switched off
  is known from the configuration alone, so one failed query purges its device, with
  its entities.
* `access_ssh`: over SSH the rule of a device is never found, and unblocking it does
  nothing and succeeds.
* `hostapd_clients`: over LuCI and SSH a device that a lease or neighbour listed and
  only hostapd reports becomes wireless and stays not connected, unless the
  forwarding table has just seen it.

* `firmware_board`: in a custom repository a router whose board is not known is offered the
  first sysupgrade file of the release, of whatever board; so is one whose board's name is
  part of another's. It is flashed with `force`.

Others are stated in the modules, in a section of their own at the end, and TLC finds
them with the constants named; or a model shows them and a property excepts them. No
run lists them.

Sessions and coordinator:

* ubus: "if we get here, it's a real permission issue" (`_call`). The session that is
  probed need not be the one that was refused: a parallel call may have logged in
  meanwhile, and a permitted call then ends as denied.
* `SshClient`: "Keep ownership until a blocking SSH operation finishes, even on
  cancellation" holds for the first cancellation only; a second one ends the wait
  for the thread and lets go of the lock while it works. `WorkerHoldsTheLock` and
  `NoOrphanedTransport` therefore except coroutines cancelled twice.
* `SshClient!NothingOpenAfterUnload`: a command in flight when the entry is unloaded
  reconnects the client that was just closed.
* `Coordinator!GpsNeverFailsThePoll`: the import of the GPS query is outside the handler
  that logs "GPS location update failed", and raises: every poll in which a query is
  due fails, although the data was fetched. `Recovers` excepts the GPS option.
* `Coordinator!SuccessMeansContact`, `Transports = {"ubus"}`: a poll over ubus succeeds
  on the data of an earlier poll while the router is down; it clears the backoff, the
  repair issue and the flag of the installation.
* `Coordinator!ClearedOnlyByReboot`: "Device rebooted successfully after firmware
  update" is logged by any poll that succeeds before the reboot.
* `Coordinator!BackingOffNeverHurries`, `Configured = 3600`: the cap of 600 s makes the
  first failure of an entry with a longer interval poll sooner, not later.
* `MwanTotals!NeverOverstates`, "The ratio errs low and never overstates availability"
  (network.py:57-59): an outage is missed with three changes between two
  samples (`MaxChanges = 3`), a sample in the very second of a change
  (`SampleAtChange`), a failed save (`SaveMayFail`), or a boot shorter than the margins
  (`DriftMargin = EpochMargin = 3`), whose outages then count in the next one.

Firmware (`OnlyUpgrades` excepts them):

* The offer may be withdrawn while the backup is made; it is installed all the same. What
  is built or flashed is what the data says by then, not the version the user saw.
* The address of an earlier release stays when the query of the new one's files fails,
  and so does its checksum (README.md:862, "the correct checksum for your firmware file");
  `asu_update_available` is never taken back, so the image server may be asked for a
  release it does not build.
* Tags that are no version numbers are compared for being different: an older one is an
  upgrade. With an empty answer about the router everything is.
* "Preserve previously discovered current version" (firmware.py:58): the data of the poll
  and `coordinator.data` are one object, so the tag found at a check is overwritten at the
  next poll.

Presence and trackers:

* `PresenceEvent!SuppressedWhenClaimed`: another access point claims the device
  between the ownership check and the publication. `SettledRight` holds for scripts
  that did not overlap.
* `DeviceTracking!AwayInTheEnd`: a DHCP lease (`Leased`) or a trusted stale neighbour
  keeps a device home for as long as it lasts.
* `DeviceTracking!OnlyAssociatedClaims`: a claim is renewed from the stabilised list,
  in which a device that has left is still wireless and connected, and a forced
  wireless device claims over the wire.
* `DeviceTracking!OwnerLetsGo`: a device that left the list altogether is not let go
  after the grace period, only after the limit for stale claims.
* `DeviceTracking!OutageIsShown`: the entity becomes unavailable with the next state
  change, not when the grace period ends.
* `Trackers!EveryDeviceIsTracked`: a device stays without a tracker, until some later
  set-up, when the entry that had it unloads or is deleted, when its tracker was
  disabled and enabled, or when it is wired for one entry and wireless for another.
* `MqttDiscovery!AnnouncedIsRetained`: the clear-up of one entry removes the topic that
  another one still announces and does not repeat before its next set-up.
  `AlwaysCleared`: the store is written in its old form first (tracking.py:455), which
  loses the flags if the poll is cut short before the second write; the clear-up then
  never happens. A clear-up while MQTT is not ready counts as done.

Device registry and entities:

* `RadioDevices`: at the first poll after a set-up `coordinator.data` is None, so clients
  are moved to the router until the next poll. Over ubus a network that was renamed
  while it was disabled keeps the device of its old name.
* `EntityPlatforms!KeptWithDefaults`: `_async_cleanup_disabled_features` takes every
  feature for off by default, most platforms for on; entries without stored options
  lose and re-create their LED, firewall, service, WireGuard, SQM and load entities at
  each set-up ("so entities are never created and removed again on every reload",
  tailscale.py:25, holds for Tailscale). SQM limits and nlbwmon sensors take no
  notice of the option their removal goes by (`Unaware`); nlbwmon and snort options stay in
  `entry.data`, where the removal does not look.
* `EntityPlatforms!NoIdTwice`: two networks of one SSID with different keys, and two LLDP
  neighbours of an interface, have one unique id.
* Kinds in `LeftOut`: the address sensor of an interface that had none when it was first
  seen is not added; wake-on-LAN, kick and wired random-address device entities are
  created and removed at each set-up.

Actions on the router:

* `Wireless`: "Set an SSID and its radio in one UCI transaction" holds for an
  undisturbed operation over ubus. LuCI loses the exit status, so a rejected change is
  shown as done; over SSH and LuCI a failed change stays staged and the next operation
  commits it; stale data can take the radio down with another network on.
* `Actions`: a port forward over ubus never takes effect before the firewall is next
  reloaded (`service reloading` is no method of rpcd) and reports a failure, which the
  switch shows as done; ad blocker, banIP, SQM, LED and WPS switches do not look at the
  result; over ubus `execute_command` swallows every error, so `manage_service` never
  fails although `_async_manage` treats False as a failure; overlapping operations whose
  scripts end with start or stop can leave the opposite running; the WPS status LuCI
  reads is a setting its operation does not touch.
* `AccessControl`: settings staged by a failed operation are not reverted; two first
  blocks that overlap add two rules, of which unblocking disables one; LuCI has no
  operation, and its reading ignores `enabled`. Sections are named by position
  (`@rule[3]`), which shifts when others add or remove rules.

Dialogs:

* "Keep using root (not recommended)" (translations/en.json:354): after ten failed tests
  of the new user the flow goes on with that user and its untested password; that
  password is the exception in `CredentialsProved`.
* Going on without MQTT presence after a failed deployment and then back creates the
  entry with the presence still on; the form of the failed deployment is first shown
  without its choices.
* Choosing MQTT presence while the permissions are unknown raises: the step imports
  `.api.base` (flows/features.py:336), which is a module of the package above. The form
  stays as it is (`MqttPresence`).
* A reconfiguration of an entry that was removed meanwhile raises; only after a
  deployment is that caught, and told as one that failed (`EntryGone`).
* `run_repair` catches the abort of the flow and ends in a form without a handler;
  a successful repair creates an entry directly, also from a reconfiguration.
* A reconfiguration does not compare the router's unique id with the entry's: with two
  routers, two entries may end up at one (`OneEntryPerRouter` is checked and proved for one
  router at several addresses).
* A flow that is aborted while a step awaits still updates the entry of a
  reauthentication or reconfiguration at the end of that step.
* Removing the presence scripts over ubus succeeds even if its commands fail, so a
  presence that is off in the entry does not mean that they are gone.

## Plan

The modules of the plan are written, and the safety properties and refinements the runs
check are proved. What is left:

1. Liveness stays with TLC; its bounds could grow with the machine.
2. The parts of `PROJECT.json` with status `not_modelled` that keep state of their own:
   the hostname registry and the SSH host key store, and the migration of entries.
3. What TLC refutes (`ImageForThisBoard`, `UnblockedOverSsh`, `NamedNetworksStay`, ...) can be
   stated as safety, and proved, once the code is changed.

## Not modelled

Listed one by one in `PROJECT.json`.

* Data classes, translations, diagnostics, bug report and the repository's scripts have
  no behaviour a model checker tells apart.
* What sensors and binary sensors show is a projection of the data; button presses and
  the services registered with Home Assistant are one call on a client.
* The parsers of single replies (`api/*/system.py`, `network.py`, `services.py`) and the
  detection of packages and permissions: what they say is an input of the models.
* The updates of packages, checksums and release notes of firmware, and the tables of
  targets and file names.
* The registry of host names and the store of SSH host keys: a load, a change and a save
  of a file shared by entries. Two routers that connect for the first time at once can
  overwrite each other's pin; no module covers it.
* The one-time migration of unique ids, and the removal of a device by the user.
* Lost publications and restarts of an access point in PresenceEvent; commands and
  logins that a router answers later than a timeout are taken for failed ones.
