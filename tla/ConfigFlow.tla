------------------------------ MODULE ConfigFlow ------------------------------
(***************************************************************************)
(* The wizards that create, reconfigure and reauthenticate entries         *)
(* (config_flow.py, flows/).  Several may be open at once, each showing a  *)
(* form or awaiting a router; between two forms a step runs to its next    *)
(* await.                                                                  *)
(*                                                                         *)
(* Home Assistant's part is external: it aborts flows, refuses a unique id *)
(* that is in progress, adds the entry a flow ends with.  A flow aborted   *)
(* while a step of it awaits goes on to the end of that step: what it does *)
(* to the router and to an existing entry stands, the form or entry it     *)
(* returns is dropped (live).                                              *)
(*                                                                         *)
(* A password is a number; 0 is never right and stands for "no account".   *)
(* Ports, TLS and the wording of forms are left out.                       *)
(***************************************************************************)
EXTENDS Integers, FiniteSets

CONSTANTS
    Flows, Entries, \* slots for flows in progress and for entries
    Hosts, Routers, \* addresses, and the devices that answer at them
    RouterAt,       \* [Hosts -> Routers]
    Conns,          \* the connection types offered: ubus, luci_rpc, ssh
    Brokers,        \* settings of the MQTT presence
    MaxPassword,    \* bound: passwords that are ever set
    Reach,          \* bound: [Flows -> SUBSET Hosts], the addresses it may be given
    Straight,       \* bound: flows started by discovery that take the shortest path
    MacMissing,     \* the router may not tell its MAC address
    Unsure          \* flows whose questions about permissions, packages and users
                    \* may fail

ASSUME FlowConstants ==
    /\ RouterAt \in [Hosts -> Routers] /\ "none" \notin Hosts
    /\ Conns \subseteq {"ubus", "luci_rpc", "ssh"}
    /\ MacMissing \in BOOLEAN
    /\ MaxPassword \in Nat /\ MaxPassword >= 2     \* 1 and 2 are the router's own
    /\ Reach \in [Flows -> SUBSET Hosts]
    /\ Brokers # {}
    /\ Straight \subseteq Flows /\ Unsure \subseteq Flows

VARIABLES
    flow,       \* [Flows -> FlowRecord]
    entries,    \* [Entries -> EntryRecord]
    password,   \* [Routers -> [Users -> password]]
    fresh,      \* the next password nobody has used
    deployed    \* [Routers -> the MQTT presence scripts installed]

router == <<password, fresh, deployed>>
flowVars == <<flow, entries, router>>

Users == {"root", "homeassistant"}
Passwords == 0..MaxPassword
Settings == {"off"} \cup Brokers
Sources == {"user", "reauth", "reconfigure"}     \* discovered ones go on like "user"
UniqueIds == {"none"} \cup Routers \cup Hosts

Forms == {"user", "discovery", "manual_entry", "select_device", "confirm_discovery",
          "credentials", "ssh", "reauth_confirm", "diagnostics",
          "repair_credentials", "repair_failed", "repair_success",
          "provision_user", "reuse_user", "provision_failed", "display_new_user",
          "permissions", "ubus_restricted", "packages", "selective_tracking",
          "mqtt_presence", "mqtt_zone", "deploy_failed"}
Awaits == {"scanning", "probing", "testing", "repairing", "provisioning",
           "deploying"}

FlowRecord ==
    [source : Sources, step : {"none"} \cup Forms \cup Awaits,
     live : BOOLEAN,                \* not aborted
     unique : UniqueIds,            \* context["unique_id"]
     entry : {"none"} \cup Entries, \* of a reauth or reconfigure
     found : SUBSET Hosts,          \* _discovered_routers
     host : {"none"} \cup Hosts, conn : {"none"} \cup Conns,
     user : Users, pw : Passwords,  \* _data
     mqtt : Settings,
     \* the connection test: where it was called, with which credentials, and
     \* what the last one that succeeded found
     caller : {"none", "credentials", "ssh", "reuse_user", "display_new_user",
               "reauth_confirm", "run_repair"},
     tried : [user : Users, pw : Passwords],
     exists : BOOLEAN, perms : {"none", "ro", "rw"},
     pkgs : BOOLEAN, restricted : BOOLEAN,
     generated : Passwords,
     \* ghosts: what this flow logged in with last, and the new user's password
     \* that failed ten tests since
     proved : [host : {"none"} \cup Hosts, user : Users, pw : Passwords],
     gaveUp : Passwords]

Blank ==
    [source |-> "user", step |-> "none", live |-> TRUE, unique |-> "none",
     entry |-> "none", found |-> {}, host |-> "none", conn |-> "none",
     user |-> "root", pw |-> 0, mqtt |-> "off",
     caller |-> "none", tried |-> [user |-> "root", pw |-> 0],
     exists |-> FALSE, perms |-> "none", pkgs |-> FALSE,
     restricted |-> FALSE, generated |-> 0,
     proved |-> [host |-> "none", user |-> "root", pw |-> 0], gaveUp |-> 0]

EntryRecord == [unique : UniqueIds, host : {"none"} \cup Hosts, user : Users,
                pw : Passwords, mqtt : Settings]
NoEntry == [unique |-> "none", host |-> "none", user |-> "root", pw |-> 0,
            mqtt |-> "off"]
Exists(e) == entries[e] # NoEntry
AlreadyConfigured(id) == \E e \in Entries : Exists(e) /\ entries[e].unique = id
InProgress(id, f) == \E g \in Flows \ {f} : flow[g].step # "none" /\ flow[g].live
                                            /\ flow[g].unique = id

ConfigTypeOK ==
    /\ flow \in [Flows -> FlowRecord]
    /\ entries \in [Entries -> EntryRecord]
    /\ password \in [Routers -> [Users -> Passwords]]
    /\ fresh \in 3..(MaxPassword + 1)
    /\ deployed \in [Routers -> Settings \cup {"broken"}]
    /\ \A f \in Flows : flow[f].live \/ flow[f].step \in Awaits

\* The router may already have a user homeassistant, with a password of its own.
ConfigInit ==
    /\ flow = [f \in Flows |-> Blank]
    /\ entries = [e \in Entries |-> NoEntry]
    /\ password \in [Routers -> {[root |-> 1, homeassistant |-> p] : p \in {0, 2}}]
    /\ fresh = 3
    /\ deployed = [r \in Routers |-> "off"]

\* What a flow will read again: no credentials before they are asked for, no
\* answer for the user homeassistant before another test, and after the
\* permissions neither what the test found nor the unused password.
Asking == {"user", "scanning", "select_device", "manual_entry", "probing",
           "confirm_discovery", "credentials", "ssh"}
Repairing == {"diagnostics", "repair_credentials", "repairing", "repair_failed"}
Ending == {"mqtt_presence", "mqtt_zone", "deploying", "deploy_failed"}

Tidy(r) ==
    LET new == IF r.proved = [host |-> r.host, user |-> r.user, pw |-> r.pw]
               THEN r ELSE [r EXCEPT !.proved = Blank.proved]
    IN CASE r.step \in Asking ->
              [new EXCEPT !.user = "root", !.pw = 0, !.exists = FALSE]
         [] \/ r.step \in Repairing
            \/ r.step = "testing" /\ r.caller \in {"credentials", "ssh", "run_repair"} ->
              [new EXCEPT !.exists = FALSE]
         [] r.step \in Ending ->
              [new EXCEPT !.exists = FALSE, !.pkgs = FALSE, !.restricted = FALSE,
                          !.generated = 0, !.conn = "none"]
         [] OTHER -> new

\* Home Assistant shows a form only for a flow that is still in progress.
Show(r, step) ==
    IF r.live THEN [r EXCEPT !.step = step, !.caller = "none", !.tried = Blank.tried]
    ELSE Blank

Goes(f, r) == flow' = [flow EXCEPT ![f] = Tidy(r)]

\* Bug for the tests of the properties: a form of an aborted flow stays open.
AbortedOpen(r) == [r EXCEPT !.live = FALSE]

\* A flow is aborted: at a form it ends, during a step when the step ends.  Other
\* steps than these change nothing that outlives the flow, but may abort other
\* flows, which can be abandoned at any time anyway.
Aborted(r) ==
    IF \/ r.step \in {"provisioning", "deploying"}
       \/ r.step = "testing" /\ r.caller = "reauth_confirm"
    THEN [r EXCEPT !.live = FALSE]
    ELSE Blank

Valid(host, user, pw) == pw # 0 /\ password[RouterAt[host]][user] = pw

-----------------------------------------------------------------------------
(* Starts of flows, by the user or by Home Assistant. *)

StartUser(f) ==
    /\ flow[f].step = "none" /\ f \notin Straight
    /\ Goes(f, [Blank EXCEPT !.step = "user"])
    /\ UNCHANGED <<entries, router>>

\* async_step_reconfigure
StartReconfigure(f, e) ==
    /\ flow[f].step = "none" /\ f \notin Straight
    /\ Exists(e)
    /\ Goes(f, [Blank EXCEPT !.source = "reconfigure", !.entry = e,
                             !.host = entries[e].host, !.user = entries[e].user,
                             !.pw = entries[e].pw, !.mqtt = entries[e].mqtt,
                             !.step = "manual_entry"])
    /\ UNCHANGED <<entries, router>>

\* async_step_reauth: the entry was refused by its router.
StartReauth(f, e) ==
    /\ flow[f].step = "none" /\ f \notin Straight
    /\ Exists(e)
    /\ ~Valid(entries[e].host, entries[e].user, entries[e].pw)
    /\ ~\E g \in Flows : /\ flow[g].step # "none" /\ flow[g].live
                         /\ flow[g].source = "reauth" /\ flow[g].entry = e
    /\ Goes(f, [Blank EXCEPT !.source = "reauth", !.entry = e,
                             !.unique = entries[e].unique,
                             !.host = entries[e].host, !.user = entries[e].user,
                             !.pw = entries[e].pw, !.step = "reauth_confirm"])
    /\ UNCHANGED <<entries, router>>

\* A router announces itself.  async_set_unique_id refuses an id in progress;
\* _abort_if_unique_id_configured moves the configured entry to the new address.
Discovered(f, host, id, moves) ==
    /\ flow[f].step = "none"
    /\ ~InProgress(id, f)
    /\ entries' = [e \in Entries |->
                     IF moves /\ Exists(e) /\ entries[e].unique = id
                     THEN [entries[e] EXCEPT !.host = host] ELSE entries[e]]
    /\ Goes(f, IF AlreadyConfigured(id) THEN Blank
               ELSE [Blank EXCEPT !.unique = id, !.host = host, !.step = "probing"])
    /\ UNCHANGED router

\* async_step_dhcp
StartDhcp(f, host) ==
    /\ \A e \in Entries : entries[e].host # host
    /\ Discovered(f, host, RouterAt[host], TRUE)

\* async_step_ssdp: the serial number is often the MAC address.
StartSsdp(f, host, serial) ==
    /\ \A e \in Entries : entries[e].host # host
    /\ Discovered(f, host, IF serial THEN RouterAt[host] ELSE host, serial)

\* async_step_zeroconf
StartZeroconf(f, host, mac) ==
    Discovered(f, host, IF mac THEN RouterAt[host] ELSE host, mac)

\* _is_excluded, _async_probe_router, _async_check_reachable
ProbeEnds(f) ==
    LET r == flow[f] IN
    /\ r.step = "probing"
    /\ \/ Goes(f, Show([r EXCEPT !.found = {r.host}], "confirm_discovery"))
       \/ Goes(f, Blank)
    /\ UNCHANGED <<entries, router>>

\* The user closes the dialog.
Abandon(f) ==
    /\ flow[f].step # "none" /\ flow[f].live
    /\ Goes(f, Aborted(flow[f]))
    /\ UNCHANGED <<entries, router>>

-----------------------------------------------------------------------------
(* Finding the router. *)

\* async_step_user
SubmitUser(f, manual) ==
    /\ flow[f].step = "user"
    /\ Goes(f, [flow[f] EXCEPT !.step = IF manual THEN "manual_entry"
                                        ELSE "scanning"])
    /\ UNCHANGED <<entries, router>>

\* _async_probe_openwrt, _probe_luci, _probe_ubus: any of the addresses may answer
Answers == SUBSET Hosts

\* async_step_discovery, after the gather of the probes
ScanEnds(f, answering) ==
    LET r == flow[f]
        new == {h \in answering : \A e \in Entries : entries[e].host # h}
    IN
    /\ r.step = "scanning"
    /\ Goes(f, Show([r EXCEPT !.found = new],
                    CASE new = {} -> "manual_entry"
                      [] Cardinality(new) = 1 -> "confirm_discovery"
                      [] OTHER -> "select_device"))
    /\ UNCHANGED <<entries, router>>

\* async_step_select_device
SelectDevice(f) ==
    /\ flow[f].step = "select_device"
    /\ \/ \E h \in flow[f].found \cap Reach[f] :
            Goes(f, [flow[f] EXCEPT !.found = {h}, !.step = "confirm_discovery"])
       \/ Goes(f, [flow[f] EXCEPT !.found = {}, !.step = "manual_entry"])
    /\ UNCHANGED <<entries, router>>

\* async_step_confirm_discovery: always to the credentials, also for ssh.  No
\* later step decides by _discovered_routers.
ConfirmDiscovery(f) ==
    /\ flow[f].step = "confirm_discovery"
    /\ \/ \E h \in flow[f].found \cap Reach[f], c \in Conns :
            Goes(f, [flow[f] EXCEPT !.host = h, !.conn = c, !.found = {},
                                    !.step = "credentials"])
       \/ Goes(f, [flow[f] EXCEPT !.found = {}, !.step = "manual_entry"])
    /\ UNCHANGED <<entries, router>>

\* async_step_manual_entry
ManualEntry(f, host, conn) ==
    /\ flow[f].step = "manual_entry"
    /\ Goes(f, [flow[f] EXCEPT !.host = host, !.conn = conn,
                    !.step = IF conn = "ssh" THEN "ssh" ELSE "credentials"])
    /\ UNCHANGED <<entries, router>>

-----------------------------------------------------------------------------
(* Testing the connection. *)

\* _test_connection with the given credentials; they become the flow's data at
\* once, except in async_step_reuse_user, which tests a copy.
Testing(r, caller, user, pw) ==
    [r EXCEPT !.step = "testing", !.caller = caller,
              !.tried = [user |-> user, pw |-> pw]]

\* async_step_credentials, async_step_ssh
SubmitCredentials(f, user, pw) ==
    LET r == flow[f] IN
    /\ r.step \in {"credentials", "ssh"}
    /\ f \in Straight => pw # 0
    /\ Goes(f, Testing([r EXCEPT !.user = user, !.pw = pw], r.step, user, pw))
    /\ UNCHANGED <<entries, router>>

\* async_step_reuse_user
SubmitReuse(f, pw) ==
    /\ flow[f].step = "reuse_user"
    /\ Goes(f, Testing(flow[f], "reuse_user", "homeassistant", pw))
    /\ UNCHANGED <<entries, router>>

\* async_step_reauth_confirm
SubmitReauth(f, user, pw) ==
    LET r == flow[f] IN
    /\ r.step = "reauth_confirm"
    /\ Goes(f, Testing([r EXCEPT !.user = user, !.pw = pw],
                       "reauth_confirm", user, pw))
    /\ UNCHANGED <<entries, router>>

\* async_step_display_new_user: the data is the new user's before the tests.
SubmitNewUser(f, use) ==
    LET r == flow[f]
        new == [r EXCEPT !.user = "homeassistant", !.pw = r.generated]
    IN
    /\ r.step = "display_new_user"
    /\ use
    /\ Goes(f, Testing(new, "display_new_user", new.user, new.pw))
    /\ UNCHANGED <<entries, router>>

LoggedIn(r) == Valid(r.host, r.tried.user, r.tried.pw)
UserExists(r) == password[RouterAt[r.host]]["homeassistant"] # 0

\* _perform_connection_test: what a test that succeeds may find.  A check that
\* fails keeps the earlier answer, root may write, the user counts as missing, and
\* _ubus_restricted is never taken back.
Findings(r, fails) ==
    [exists : {r.tried.user = "root" /\ UserExists(r)} \cup IF fails THEN {FALSE} ELSE {},
     perms : (IF r.tried.user = "root" THEN {"rw"} ELSE {"ro", "rw"})
             \cup IF fails THEN {r.perms} ELSE {},
     pkgs : {TRUE} \cup IF fails THEN {r.pkgs} ELSE {},
     restricted : IF fails /\ r.conn = "ubus" THEN BOOLEAN ELSE {FALSE}]

\* What the test leaves in the flow: the findings, and which credentials it proved.
Tested(r, fails) ==
    {[r EXCEPT !.exists = new.exists, !.perms = new.perms, !.pkgs = new.pkgs,
               !.restricted = @ \/ new.restricted, !.gaveUp = 0,
               !.proved = [host |-> r.host, user |-> r.tried.user, pw |-> r.tried.pw]] :
        new \in Findings(r, fails)}

\* What a router answers about itself: its MAC address, or only where it is.
DeviceIds(host) == {RouterAt[host]} \cup IF MacMissing THEN {host} ELSE {}

\* A test may fail, or time out, before, between and after its questions: what it
\* has found by then stays.  Where no question fails nobody reads it again, since
\* the next test that succeeds overwrites it.
Failed(r, fails) ==
    {r} \cup IF ~LoggedIn(r) THEN {} ELSE
        {[r EXCEPT !.exists = FALSE]} \cup IF ~fails THEN {} ELSE
            {[r EXCEPT !.exists = new.exists, !.perms = new.perms, !.pkgs = new.pkgs] :
                new \in Findings(r, TRUE)}

\* async_step_permissions without input: which form follows
PermissionsForm(r) ==
    IF r.perms = "none" THEN (IF r.pkgs THEN "packages" ELSE "mqtt_presence")
    ELSE IF r.restricted THEN "ubus_restricted"
    ELSE "permissions"

AfterLogin(r) == IF r.user = "root" THEN "provision_user" ELSE PermissionsForm(r)

\* The other flows in progress that have this id are aborted.
OthersAborted(id, f, r) ==
    [g \in Flows |->
        IF g = f THEN Tidy(r)
        ELSE IF flow[g].step # "none" /\ flow[g].live /\ flow[g].unique = id
             THEN Aborted(flow[g])
        ELSE flow[g]]

\* Bug for the tests of the properties: nobody looks for an entry of the router.
UniqueIdUnchecked(f, r, id, step, refused) ==
    flow' = OthersAborted(id, f, Show([r EXCEPT !.unique = id], step))

\* A flow in its first step: async_progress does not list it, but
\* async_set_unique_id finds its id in progress.
Announced(id) == \E g \in Flows : flow[g].step = "probing" /\ flow[g].unique = id

\* _async_set_unique_id_and_check: the other flows for this router are aborted,
\* and this one if an announcement of the router is being looked at, or if the
\* router is configured already, unless it reconfigures.  "refused" is the form a
\* caller shows that catches the abort.
UniqueIdChecked(f, r, id, step, refused) ==
    LET known == [r EXCEPT !.unique = id]
        Refused(x) == IF refused = "none" THEN Blank ELSE Show(x, refused)
    IN IF Announced(id) THEN Goes(f, Refused(r))
       ELSE flow' = OthersAborted(id, f,
                       IF r.source # "reconfigure" /\ AlreadyConfigured(id)
                       THEN Refused(known) ELSE Show(known, step))

\* The test of async_step_credentials, async_step_ssh or async_step_run_repair
\* succeeds.  In the last one the abort of the check is caught like any error.
SetupTestPasses(f) ==
    LET r == flow[f] IN
    /\ r.step = "testing"
    /\ r.caller \in {"credentials", "ssh", "run_repair"}
    /\ LoggedIn(r)
    /\ \E t \in Tested(r, f \in Unsure), id \in DeviceIds(r.host) :
          IF r.caller = "run_repair"
          THEN UniqueIdChecked(f, t, id, "repair_success", "repair_failed")
          ELSE UniqueIdChecked(f, t, id, AfterLogin(t), "none")
    /\ UNCHANGED <<entries, router>>

\* The test of the homeassistant user succeeds: an existing one, whose
\* credentials replace the data, or the new one.
UserTestPasses(f) ==
    LET r == flow[f] IN
    /\ r.step = "testing"
    /\ r.caller \in {"reuse_user", "display_new_user"}
    /\ LoggedIn(r)
    /\ \E t \in Tested(r, f \in Unsure) :
          LET used == [t EXCEPT !.user = r.tried.user, !.pw = r.tried.pw]
          IN Goes(f, Show(used, PermissionsForm(used)))
    /\ UNCHANGED <<entries, router>>

\* Bug for the tests of the properties: the result of the test is not looked at.
ReauthUntested(f) ==
    LET r == flow[f]
        e == r.entry
    IN
    /\ r.step = "testing"
    /\ r.caller = "reauth_confirm"
    /\ Exists(e)
    /\ entries' = [entries EXCEPT ![e] =
                      [@ EXCEPT !.user = r.tried.user, !.pw = r.tried.pw]]
    /\ Goes(f, Blank)
    /\ UNCHANGED router

\* The test of async_step_reauth_confirm succeeds: the entry, as it is now, gets
\* the credentials; the form comes again if it is gone.
ReauthTestPasses(f) ==
    LET r == flow[f]
        e == r.entry
    IN
    /\ r.step = "testing"
    /\ r.caller = "reauth_confirm"
    /\ LoggedIn(r)
    /\ \E t \in Tested(r, f \in Unsure) :
          IF Exists(e)
          THEN /\ entries' = [entries EXCEPT ![e] =
                                [@ EXCEPT !.user = r.tried.user, !.pw = r.tried.pw]]
               /\ Goes(f, Blank)
          ELSE Goes(f, Show(t, "reauth_confirm")) /\ UNCHANGED entries
    /\ UNCHANGED router

\* The test fails, with a diagnostic report or without.  display_new_user has
\* then tried ten times and goes back to the choice of the user.
TestFails(f) ==
    LET r == flow[f] IN
    /\ r.step = "testing"
    /\ \E t \in Failed(r, f \in Unsure), report \in {FALSE, f \notin Straight} :
          Goes(f, CASE r.caller = "display_new_user" ->
                         Show([t EXCEPT !.gaveUp = r.pw], "provision_user")
                    [] r.caller = "run_repair" -> Show(t, "repair_failed")
                    [] report /\ r.caller \in {"credentials", "ssh", "reauth_confirm"} ->
                         Show(t, "diagnostics")
                    [] OTHER -> Show(t, r.caller))
    /\ UNCHANGED <<entries, router>>

-----------------------------------------------------------------------------
(* Diagnosis and repair. *)

\* async_step_diagnostics
Diagnostics(f, repair) ==
    LET r == flow[f] IN
    /\ r.step = "diagnostics"
    /\ Goes(f, [r EXCEPT !.step = IF ~repair THEN "credentials"
                                  ELSE IF r.user = "root" THEN "repairing"
                                  ELSE "repair_credentials"])
    /\ UNCHANGED <<entries, router>>

\* async_step_repair_credentials
RepairCredentials(f) ==
    /\ flow[f].step = "repair_credentials"
    /\ Goes(f, [flow[f] EXCEPT !.step = "repairing"])
    /\ UNCHANGED <<entries, router>>

\* async_step_run_repair: the commands over ssh, then a test of the flow's data
RunRepair(f) ==
    LET r == flow[f] IN
    /\ r.step = "repairing"
    /\ \/ Goes(f, Testing(r, "run_repair", r.user, r.pw))
       \/ Goes(f, Show(r, "repair_failed"))
    /\ UNCHANGED <<entries, router>>

-----------------------------------------------------------------------------
(* A user of its own for Home Assistant. *)

\* async_step_provision_user; a new password is drawn before the first await of
\* async_step_do_provision.
ProvisionUser(f, mode) ==
    LET r == flow[f]
        step == CASE mode \in {"create", "reset"} -> "provisioning"
                  [] mode = "reuse" -> "reuse_user"
                  [] OTHER -> PermissionsForm(r)
    IN
    /\ r.step = "provision_user"
    /\ f \in Straight => mode = "skip"
    /\ mode \in IF r.exists THEN {"reuse", "reset", "skip"} ELSE {"create", "skip"}
    /\ IF step = "provisioning"
       THEN /\ fresh <= MaxPassword
            /\ fresh' = fresh + 1
            /\ Goes(f, [r EXCEPT !.step = step, !.generated = fresh])
       ELSE Goes(f, [r EXCEPT !.step = step]) /\ UNCHANGED fresh
    /\ UNCHANGED <<entries, password, deployed>>

\* PROVISION_SCRIPT_TEMPLATE run by provision_user of a client that may
Provisioned(host, user, pw) ==
    password' = [password EXCEPT ![RouterAt[host]][user] = pw]

\* async_step_do_provision: the script sets the password on the router, when the
\* flow can log in, over the chosen connection or, as root, over ssh.  What comes back
\* need not tell: a dropped connection counts as success, a timeout as failure.
ProvisionEnds(f, applied, success) ==
    LET r == flow[f] IN
    /\ r.step = "provisioning"
    /\ applied => Valid(r.host, r.user, r.pw)
    /\ IF applied THEN Provisioned(r.host, "homeassistant", r.generated)
       ELSE UNCHANGED password
    /\ Goes(f, Show(r, IF success THEN "display_new_user" ELSE "provision_failed"))
    /\ UNCHANGED <<entries, fresh, deployed>>

\* async_step_provision_failed, or display_new_user when the user declines
KeepUser(f) ==
    /\ flow[f].step \in {"provision_failed", "display_new_user"}
    /\ Goes(f, [flow[f] EXCEPT !.step = PermissionsForm(flow[f])])
    /\ UNCHANGED <<entries, router>>

-----------------------------------------------------------------------------
(* Features and the end. *)

\* async_step_permissions, async_step_permissions_ubus with input
Permissions(f) ==
    /\ flow[f].step = "permissions"
    /\ Goes(f, [flow[f] EXCEPT
                  !.step = IF flow[f].pkgs THEN "packages" ELSE "mqtt_presence"])
    /\ UNCHANGED <<entries, router>>

\* async_step_packages
Packages(f, track) ==
    /\ flow[f].step = "packages"
    /\ Goes(f, [flow[f] EXCEPT
                  !.step = IF track THEN "selective_tracking" ELSE "mqtt_presence"])
    /\ UNCHANGED <<entries, router>>

\* async_step_selective_tracking: an unreachable router only leaves a shorter list
SelectiveTracking(f) ==
    /\ flow[f].step = "selective_tracking"
    /\ Goes(f, [flow[f] EXCEPT !.step = "mqtt_presence"])
    /\ UNCHANGED <<entries, router>>

\* async_step_mqtt_presence with presence.  Without the permission the form comes
\* again; with unknown ones the step raises (features.py:336 imports a module that
\* does not exist) and leaves the form as it is.
MqttPresence(f, broker) ==
    LET r == flow[f] IN
    /\ r.step = "mqtt_presence"
    /\ r.perms = "rw"
    /\ Goes(f, [r EXCEPT !.mqtt = broker, !.step = "mqtt_zone"])
    /\ UNCHANGED <<entries, router>>

\* async_step_mqtt_zone, and deploy_failed with "retry"
MqttDeploy(f) ==
    /\ flow[f].step \in {"mqtt_zone", "deploy_failed"}
    /\ Goes(f, [flow[f] EXCEPT !.step = "deploying"])
    /\ UNCHANGED <<entries, router>>

\* async_step_deploy_failed with "back"
MqttBack(f) ==
    /\ flow[f].step = "deploy_failed"
    /\ Goes(f, [flow[f] EXCEPT !.step = "mqtt_presence"])
    /\ UNCHANGED <<entries, router>>

\* _get_reconfigure_entry of an entry that was removed meanwhile raises.
EntryGone(r) == r.source = "reconfigure" /\ ~Exists(r.entry)

\* _create_entry: an entry is updated, or Home Assistant adds one and aborts what
\* else is in progress for it.  If it raises at a form the form stays.
CreateEntry(f) ==
    LET r == flow[f]
        data == [unique |-> r.unique, host |-> r.host, user |-> r.user,
                 pw |-> r.pw, mqtt |-> r.mqtt]
    IN IF r.source = "reconfigure"
       THEN /\ ~EntryGone(r)
            /\ entries' = [entries EXCEPT ![r.entry] =
                              [data EXCEPT !.unique = entries[r.entry].unique]]
            /\ Goes(f, Blank)
       ELSE IF ~r.live THEN Goes(f, Blank) /\ UNCHANGED entries
       ELSE LET Free == {e \in Entries : ~Exists(e)}
            IN /\ Free # {}
               /\ entries' = [entries EXCEPT ![CHOOSE e \in Free : TRUE] = data]
               /\ flow' = OthersAborted(r.unique, f, Blank)

\* async_deploy_mqtt_presence, async_remove_mqtt_presence: what a client that can
\* log in with the data d does to the router
Scripts(d, setting) ==
    /\ Valid(d.host, d.user, d.pw)
    /\ deployed' = [deployed EXCEPT ![RouterAt[d.host]] = setting]

\* async_deploy_mqtt_presence by async_step_do_deploy_mqtt_presence
DeployPasses(f) ==
    LET r == flow[f] IN
    /\ r.step = "deploying"
    /\ Scripts(r, r.mqtt)
    /\ CreateEntry(f)
    /\ UNCHANGED <<password, fresh>>

\* It fails before or after it has written some of its files; what _create_entry
\* raises then counts as a failure too.
DeployFails(f) ==
    LET r == flow[f] IN
    /\ r.step = "deploying"
    /\ \/ UNCHANGED deployed
       \/ Scripts(r, "broken")
       \/ EntryGone(r) /\ Scripts(r, r.mqtt)
    /\ Goes(f, Show(r, "deploy_failed"))
    /\ UNCHANGED <<entries, password, fresh>>

\* async_step_mqtt_presence without presence, async_step_ubus_restricted
Decline(f) ==
    LET r == flow[f] IN
    /\ \/ r.step = "mqtt_presence"
       \/ r.step = "ubus_restricted" /\ ~r.pkgs
    /\ CreateEntry(f)
    /\ UNCHANGED router

UbusRestricted(f) ==
    /\ flow[f].step = "ubus_restricted" /\ flow[f].pkgs
    /\ Goes(f, [flow[f] EXCEPT !.step = "packages"])
    /\ UNCHANGED <<entries, router>>

\* async_step_repair_success.  Home Assistant refuses the last case to a flow that
\* reconfigures: it must not add an entry.
RepairSuccess(f) ==
    LET r == flow[f] IN
    /\ r.step = "repair_success"
    /\ CASE r.user = "root" -> Goes(f, [r EXCEPT !.step = "provision_user"])
              /\ UNCHANGED entries
         [] r.user # "root" /\ r.perms # "none" ->
              Goes(f, [r EXCEPT !.step = PermissionsForm(r)]) /\ UNCHANGED entries
         [] r.user # "root" /\ r.perms = "none" /\ r.pkgs ->
              Goes(f, [r EXCEPT !.step = "packages"]) /\ UNCHANGED entries
         [] OTHER -> r.source # "reconfigure" /\ CreateEntry(f)
    /\ UNCHANGED router

-----------------------------------------------------------------------------
(* The environment. *)

\* The user removes an entry; its reauthentication is aborted.
RemoveEntry(e) ==
    /\ Exists(e)
    /\ entries' = [entries EXCEPT ![e] = NoEntry]
    /\ flow' = [f \in Flows |->
                  IF flow[f].source = "reauth" /\ flow[f].entry = e /\ flow[f].live
                  THEN Aborted(flow[f]) ELSE flow[f]]
    /\ UNCHANGED router

\* An administrator changes a password on the router.
ChangePassword(r, user) ==
    /\ fresh <= MaxPassword
    /\ password[r][user] # 0
    /\ password' = [password EXCEPT ![r][user] = fresh]
    /\ fresh' = fresh + 1
    /\ UNCHANGED <<flow, entries, deployed>>

-----------------------------------------------------------------------------
\* A password that is typed in is the right one at that moment, or not.
Typed(host, user) == {0, IF host = "none" THEN 0 ELSE password[RouterAt[host]][user]}

Starts(f) ==
    \/ StartUser(f)
    \/ \E e \in Entries : StartReconfigure(f, e) \/ StartReauth(f, e)
    \/ \E h \in Reach[f] : StartDhcp(f, h)
    \/ \E h \in Reach[f], mac \in BOOLEAN : StartSsdp(f, h, mac) \/ StartZeroconf(f, h, mac)

Locates(f) ==
    \/ \E manual \in BOOLEAN : SubmitUser(f, manual)
    \/ \E answering \in Answers : ScanEnds(f, answering)
    \/ ProbeEnds(f) \/ SelectDevice(f) \/ ConfirmDiscovery(f)
    \/ \E h \in Reach[f], c \in Conns : ManualEntry(f, h, c)

LogsIn(f) ==
    \/ \E u \in Users : \E p \in Typed(flow[f].host, u) :
          SubmitCredentials(f, u, p) \/ SubmitReauth(f, u, p)
    \/ \E p \in Typed(flow[f].host, "homeassistant") : SubmitReuse(f, p)
    \/ SubmitNewUser(f, TRUE)
    \/ SetupTestPasses(f) \/ UserTestPasses(f) \/ ReauthTestPasses(f) \/ TestFails(f)
    \/ \E repair \in BOOLEAN : Diagnostics(f, repair)
    \/ RepairCredentials(f) \/ RunRepair(f) \/ RepairSuccess(f)

Provisions(f) ==
    \/ \E mode \in {"create", "reset", "reuse", "skip"} : ProvisionUser(f, mode)
    \/ \E applied, success \in BOOLEAN : ProvisionEnds(f, applied, success)
    \/ KeepUser(f)

Chooses(f) ==
    \/ Permissions(f) \/ UbusRestricted(f) \/ SelectiveTracking(f)
    \/ \E track \in BOOLEAN : Packages(f, track)
    \/ \E b \in Brokers : MqttPresence(f, b)
    \/ MqttDeploy(f) \/ MqttBack(f) \/ DeployPasses(f) \/ DeployFails(f) \/ Decline(f)

FlowStep(f) == Starts(f) \/ Locates(f) \/ LogsIn(f) \/ Provisions(f) \/ Chooses(f)
               \/ Abandon(f)

ConfigNext ==
    \/ \E f \in Flows : FlowStep(f)
    \/ \E r \in Routers, u \in Users : ChangePassword(r, u)

-----------------------------------------------------------------------------
(* Properties. *)

\* "Abort other flows with the same unique ID to allow this one to proceed": however
\* many dialogs and announcements there are for a router, at whichever of its
\* addresses, one entry comes of them.
OneEntryPerRouter ==
    \A d, e \in Entries :
        Exists(d) /\ Exists(e) /\ RouterAt[entries[d].host] = RouterAt[entries[e].host]
            => d = e

\* "Credential steps": an entry is given credentials only when they have just
\* logged in at its router, or this flow logged in with them; the exception is a
\* new user that could not log in ten times and whose flow went on regardless.
CredentialsProved ==
    [][\A e \in Entries :
        LET new == entries'[e]
        IN <<new.user, new.pw>> # <<entries[e].user, entries[e].pw>> /\ new # NoEntry
           => \/ Valid(new.host, new.user, new.pw)
              \/ \E f \in Flows :
                    \/ flow[f].proved = [host |-> new.host, user |-> new.user,
                                         pw |-> new.pw]
                    \/ flow[f].gaveUp # 0 /\ flow[f].gaveUp = new.pw]_flowVars

=============================================================================
