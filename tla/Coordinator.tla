----------------------------- MODULE Coordinator -----------------------------
(***************************************************************************)
(* The life of one configuration entry: its setup, the polls of the data   *)
(* coordinator with reconnection, backoff and the repair issues            *)
(* (coordinator/__init__.py, __init__.py, repairs.py), and a firmware      *)
(* installation running beside them (update.py).                           *)
(*                                                                         *)
(* What a poll fetches is in PollTiers and how the transports reconnect in *)
(* UbusSession, LuciSession and SshClient; here a fetch answers, raises,   *)
(* or - on a transport that swallows its errors - returns what was known.  *)
(* The timer is not modelled: a poll may start whenever none is running,   *)
(* as a user can ask for one at any time.                                  *)
(***************************************************************************)
EXTENDS Integers

CONSTANTS
    Configured,     \* CONF_UPDATE_INTERVAL, 10..3600 s
    MaxBackoff,     \* the longest backoff, 600 s
    Transports,     \* the connection types an entry may have
    GpsAvailable,   \* the user may turn on CONF_GPS_MODEM_ENABLED
    AutoBackup,     \* CONF_AUTO_BACKUP
    MaxFailures,    \* bound: the ghost counts failed polls up to here
    MaxOutages,     \* bound: times the router goes down
    MaxInstalls     \* bound: firmware installations

CoordinatorConstants ==
    /\ Configured \in 10..3600
    /\ MaxBackoff \in 1..3600
    /\ Transports \subseteq {"ubus", "luci_rpc", "ssh"}
    /\ {GpsAvailable, AutoBackup} \subseteq BOOLEAN
    /\ {MaxFailures, MaxOutages, MaxInstalls} \subseteq Nat

VARIABLES
    transport,  \* connection type of the entry
    up,         \* the router answers
    accepts,    \* the router accepts the stored credentials
    gps,        \* CONF_GPS_MODEM_ENABLED
    entry,      \* setup | first | loaded | retry | reauth
    connected,  \* client._connected
    poll,       \* where _async_update_data is
    hasData,    \* self.data is set
    interval,   \* _current_backoff_interval, which is also update_interval
    lastOk,     \* last_update_success
    lostIssue,  \* the repair issue connection_lost
    authIssue,  \* the repair issue auth_failed
    flag,       \* in_reboot_installation
    install,    \* where async_install is
    \* ghosts
    contact,    \* the router answered in this poll
    failures,   \* consecutive failed polls of this coordinator
    rebooted,   \* the router went down since the flag was set
    outages, installs

router == <<transport, up, accepts>>
client == <<gps, connected>>
coord == <<hasData, interval, lastOk, lostIssue, authIssue>>
update == <<flag, install, installs>>
vars == <<router, client, entry, poll, coord, update, contact, failures,
          rebooted, outages>>

TypeOK ==
    /\ transport \in Transports
    /\ {up, accepts, gps, connected, hasData, lastOk, lostIssue, authIssue, flag,
        contact, rebooted} \subseteq BOOLEAN
    /\ entry \in {"setup", "first", "loaded", "retry", "reauth"}
    /\ poll \in {"idle", "connecting", "fetching", "again", "reconnecting",
                 "refetching", "processing"}
    /\ interval \in 1..3600
    /\ install \in {"idle", "backup", "build", "ready", "flashing"}
    /\ failures \in 0..MaxFailures
    /\ outages \in 0..MaxOutages
    /\ installs \in 0..MaxInstalls
    /\ poll # "idle" => entry \in {"first", "loaded"}
    /\ install # "idle" => entry = "loaded"

Init ==
    /\ transport \in Transports
    /\ up = TRUE
    /\ accepts = TRUE
    /\ gps = FALSE
    /\ entry = "setup"
    /\ connected = FALSE
    /\ poll = "idle"
    /\ hasData = FALSE
    /\ interval = Configured
    /\ lastOk = TRUE
    /\ lostIssue = FALSE
    /\ authIssue = FALSE
    /\ flag = FALSE
    /\ install = "idle"
    /\ contact = FALSE
    /\ failures = 0
    /\ rebooted = FALSE
    /\ outages = 0
    /\ installs = 0

\* get_all_data raises when the router does not answer; over ubus it hands back
\* what was known.
Raises == transport # "ubus"

Smaller(x, y) == IF x < y THEN x ELSE y

-----------------------------------------------------------------------------
(* Setup of the entry. *)

\* connect() succeeds; a new coordinator starts its first refresh.
SetupConnects ==
    /\ entry = "setup"
    /\ up /\ accepts
    /\ entry' = "first"
    /\ connected' = TRUE
    /\ poll' = "fetching"
    /\ hasData' = FALSE
    /\ interval' = Configured
    /\ lastOk' = TRUE
    /\ flag' = FALSE
    /\ contact' = FALSE
    /\ failures' = 0
    /\ UNCHANGED <<router, gps, lostIssue, authIssue, install, installs,
                   rebooted, outages>>

\* ConfigEntryNotReady, or ConfigEntryAuthFailed.
SetupFails ==
    /\ entry = "setup"
    /\ entry' = IF up /\ ~accepts THEN "reauth" ELSE "retry"
    /\ ~(up /\ accepts)
    /\ connected' = FALSE
    /\ UNCHANGED <<router, coord, update, gps, poll, contact, failures,
                   rebooted, outages>>

HassRetriesSetup ==
    /\ entry = "retry"
    /\ entry' = "setup"
    /\ UNCHANGED <<router, client, coord, update, poll, contact, failures,
                   rebooted, outages>>

\* The options changed: unload with disconnect(), then set up again.  The GPS
\* is one of them.
Reload ==
    /\ entry \in {"loaded", "retry"}
    /\ gps' \in {FALSE, GpsAvailable}
    /\ poll = "idle"
    /\ install = "idle"
    /\ entry' = "setup"
    /\ connected' = FALSE
    /\ UNCHANGED <<router, coord, update, poll, contact, failures,
                   rebooted, outages>>

\* The user gives the new password to the reauthentication flow, which reloads.
Reauthenticated ==
    /\ entry = "reauth" \/ (authIssue /\ entry = "loaded" /\ poll = "idle"
                                      /\ install = "idle")
    /\ up
    /\ accepts' = TRUE
    /\ entry' = "setup"
    /\ connected' = FALSE
    /\ UNCHANGED <<transport, coord, update, up, gps, poll, contact, failures,
                   rebooted, outages>>

-----------------------------------------------------------------------------
(* One poll. *)

PollStart ==
    /\ entry = "loaded"
    /\ poll = "idle"
    /\ poll' = IF connected THEN "fetching" ELSE "connecting"
    /\ contact' = FALSE
    /\ UNCHANGED <<router, client, coord, update, entry, failures, rebooted,
                   outages>>

\* UpdateFailed: back off.  The first refresh makes the setup fail.
PollFailed ==
    /\ poll' = "idle"
    /\ interval' = Smaller(interval * 2, MaxBackoff)
    /\ failures' = Smaller(failures + 1, MaxFailures)
    /\ lastOk' = FALSE
    /\ connected' = FALSE
    /\ entry' = IF entry = "first" THEN "retry" ELSE entry
    /\ UNCHANGED hasData

\* Bug for the tests of the properties: the backoff outlives the outage.
FetchedKeepingTheBackoff ==
    /\ poll' = "processing"
    /\ flag' = FALSE
    /\ lostIssue' = FALSE
    /\ UNCHANGED interval

\* _async_fetch_all_data returned.
Fetched ==
    /\ poll' = "processing"
    /\ flag' = FALSE
    /\ interval' = Configured
    /\ lostIssue' = FALSE

PollConnects ==
    /\ poll = "connecting"
    /\ up /\ accepts
    /\ poll' = "fetching"
    /\ connected' = TRUE
    /\ contact' = TRUE
    /\ UNCHANGED <<router, coord, update, gps, entry, failures, rebooted,
                   outages>>

\* Raised outside the try: no repair issue, whatever the reason.
PollConnectFails ==
    /\ poll = "connecting"
    /\ PollFailed
    /\ UNCHANGED <<router, update, gps, lostIssue, authIssue, contact, rebooted,
                   outages>>

FetchAnswered ==
    /\ poll \in {"fetching", "again"}
    /\ up
    /\ contact' = TRUE
    /\ Fetched
    /\ UNCHANGED <<router, client, entry, hasData, lastOk, authIssue, install,
                   installs, failures, rebooted, outages>>

\* The router is up but its network is not: wait two seconds, fetch once more.
\* Later polls hand back the old interfaces, so only the first one does this.
CoreMissing ==
    /\ poll = "fetching"
    /\ ~hasData
    /\ up \/ ~Raises
    /\ poll' = "again"
    /\ contact' = (contact \/ up)
    /\ UNCHANGED <<router, client, coord, update, entry, failures, rebooted,
                   outages>>

\* A transport that swallows its errors: the old data counts as fetched.  The
\* client may have noticed a broken connection.
FetchSwallows ==
    /\ ~Raises
    /\ poll \in {"fetching", "again"}
    /\ ~up
    /\ connected' \in {connected, FALSE}
    /\ Fetched
    /\ UNCHANGED <<router, gps, entry, hasData, lastOk, authIssue, install,
                   installs, contact, failures, rebooted, outages>>

FetchRaises ==
    /\ Raises
    /\ poll \in {"fetching", "again"}
    /\ poll' = "reconnecting"
    /\ contact' = (contact \/ up)
    /\ UNCHANGED <<router, client, coord, update, entry, failures, rebooted,
                   outages>>

\* The client logged in again on the way and was refused.
FetchRefused ==
    /\ Raises
    /\ poll \in {"fetching", "again"}
    /\ up /\ ~accepts
    /\ authIssue' = TRUE
    /\ contact' = TRUE
    /\ PollFailed
    /\ UNCHANGED <<router, update, gps, lostIssue, rebooted, outages>>

\* An error of another kind (an answer nobody expected): no second attempt.
FetchUnexpected ==
    /\ poll \in {"fetching", "again"}
    /\ up
    /\ contact' = TRUE
    /\ PollFailed
    /\ UNCHANGED <<router, update, gps, lostIssue, authIssue, rebooted,
                   outages>>

Reconnects ==
    /\ poll = "reconnecting"
    /\ up /\ accepts
    /\ poll' = "refetching"
    /\ connected' = TRUE
    /\ contact' = TRUE
    /\ UNCHANGED <<router, coord, update, gps, entry, failures, rebooted,
                   outages>>

RefetchAnswered ==
    /\ poll = "refetching"
    /\ up
    /\ contact' = TRUE
    /\ Fetched
    /\ UNCHANGED <<router, client, entry, hasData, lastOk, authIssue, install,
                   installs, failures, rebooted, outages>>

\* connect() or the second fetch raised, for whatever reason.
RetryFails ==
    /\ poll \in {"reconnecting", "refetching"}
    /\ lostIssue' = TRUE
    /\ PollFailed
    /\ UNCHANGED <<router, update, gps, authIssue, contact, rebooted, outages>>

\* Everything after the fetch; each part catches its own errors.
PollDone ==
    /\ poll = "processing"
    /\ ~gps \/ hasData      \* with GPS only between two GPS queries
    /\ poll' = "idle"
    /\ lastOk' = TRUE
    /\ hasData' = TRUE
    /\ failures' = 0
    /\ entry' = "loaded"
    /\ UNCHANGED <<router, client, update, interval, lostIssue, authIssue,
                   contact, rebooted, outages>>

\* A GPS query is due, and its import raises outside the try.
GpsImportFails ==
    /\ poll = "processing"
    /\ gps
    /\ poll' = "idle"
    /\ lastOk' = FALSE
    /\ failures' = 0
    /\ entry' = IF entry = "first" THEN "retry" ELSE entry
    /\ UNCHANGED <<router, client, update, hasData, interval, lostIssue,
                   authIssue, contact, rebooted, outages>>

-----------------------------------------------------------------------------
(* async_install of the firmware update entity. *)

InstallStart ==
    /\ entry = "loaded" /\ hasData
    /\ install = "idle"             \* _in_progress
    /\ installs < MaxInstalls
    /\ installs' = installs + 1
    /\ install' = IF AutoBackup THEN "backup" ELSE "build"
    /\ UNCHANGED <<router, client, coord, entry, poll, flag, contact, failures,
                   rebooted, outages>>

BackupDone ==
    /\ install = "backup"
    /\ up
    /\ install' = "build"
    /\ UNCHANGED <<router, client, coord, entry, poll, flag, installs, contact,
                   failures, rebooted, outages>>

\* The attended sysupgrade server built an image, or a ready one is used.
ImageReady ==
    /\ install = "build"
    /\ install' = "ready"
    /\ UNCHANGED <<router, client, coord, entry, poll, flag, installs,
                   contact, failures, rebooted, outages>>

InstallFails ==
    /\ install \in {"backup", "build", "flashing"}
    /\ install' = "idle"
    /\ UNCHANGED <<router, client, coord, entry, poll, flag, installs,
                   contact, failures, rebooted, outages>>

\* The flag is set, then install_firmware is awaited.
FlashStart ==
    /\ install = "ready"
    /\ install' = "flashing"
    /\ flag' = TRUE
    /\ rebooted' = FALSE
    /\ UNCHANGED <<router, client, coord, entry, poll, installs, contact,
                   failures, outages>>

\* The router writes the image in the background and reboots later.
FlashAccepted ==
    /\ install = "flashing"
    /\ up
    /\ install' = "idle"
    /\ UNCHANGED <<router, client, coord, entry, poll, flag, installs,
                   contact, failures, rebooted, outages>>

-----------------------------------------------------------------------------
(* The router. *)

GoesDown ==
    /\ up
    /\ outages < MaxOutages
    /\ outages' = outages + 1
    /\ up' = FALSE
    /\ rebooted' = TRUE
    /\ UNCHANGED <<transport, client, coord, update, accepts, entry, poll, contact,
                   failures>>

ComesUp ==
    /\ ~up
    /\ up' = TRUE
    /\ UNCHANGED <<transport, client, coord, update, accepts, entry, poll, contact,
                   failures, rebooted, outages>>

PasswordChanged ==
    /\ accepts
    /\ outages < MaxOutages
    /\ outages' = outages + 1
    /\ accepts' = FALSE
    /\ UNCHANGED <<transport, client, coord, update, up, entry, poll, contact, failures,
                   rebooted>>

PollStep ==
    \/ PollConnects \/ PollConnectFails
    \/ FetchAnswered \/ CoreMissing \/ FetchSwallows \/ FetchRaises \/ FetchRefused
    \/ FetchUnexpected
    \/ Reconnects \/ RefetchAnswered \/ RetryFails
    \/ PollDone \/ GpsImportFails

SetupStep == SetupConnects \/ SetupFails \/ HassRetriesSetup

InstallStep ==
    \/ BackupDone \/ ImageReady \/ InstallFails \/ FlashStart \/ FlashAccepted

Next ==
    \/ SetupStep
    \/ Reload
    \/ Reauthenticated
    \/ PollStart
    \/ PollStep
    \/ InstallStart
    \/ InstallStep
    \/ GoesDown
    \/ ComesUp
    \/ PasswordChanged

Spec == Init /\ [][Next]_vars

(***************************************************************************)
(* Fairness.  Home Assistant retries a setup and starts every poll; the    *)
(* requests of a poll end.  A router that answers lets a login or a fetch  *)
(* succeed at least every now and then (strong fairness of the successes). *)
(***************************************************************************)
Fairness ==
    /\ WF_vars(SetupStep)
    /\ WF_vars(PollStart)
    /\ WF_vars(PollStep)
    /\ SF_vars(FetchAnswered)
    /\ SF_vars(PollConnects)

FairSpec == Spec /\ Fairness

-----------------------------------------------------------------------------
(* Properties. *)

\* When the router stays up with the right password, the entry is loaded again
\* and ends up polling at its configured rate, without the issue (and without
\* the GPS option, whose import fails every poll that is due for it).
Recovers ==
    <>[](up /\ accepts /\ ~gps) =>
        []<>(entry = "loaded" /\ lastOk /\ interval = Configured /\ ~lostIssue)

-----------------------------------------------------------------------------
(* What comments of the code say and TLC refutes (see README.md). *)

\* A poll that counts as successful - it clears the backoff, the flag of the
\* installation and the repair issue "once reconnected" - heard from the router.
SuccessMeansContact == poll = "processing" => contact

\* "Device rebooted successfully after firmware update, connection restored":
\* the flag of the installation is cleared by a poll only after a reboot.
ClearedOnlyByReboot ==
    [][flag /\ ~flag' /\ entry' = entry => rebooted]_vars

\* "Backing off next poll": a failure never makes the next poll come sooner
\* than the configured interval.
BackingOffNeverHurries == interval >= Configured

\* "GPS location update failed" is caught: a poll that fetched its data does
\* not fail because of the GPS.
GpsNeverFailsThePoll ==
    [][poll = "processing" /\ poll' = "idle" => lastOk']_vars

=============================================================================
