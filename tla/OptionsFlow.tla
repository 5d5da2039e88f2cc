------------------------------ MODULE OptionsFlow ------------------------------
(***************************************************************************)
(* The options dialog of an entry (flows/options.py, options_mqtt.py,      *)
(* options_packages.py) beside the wizards of ConfigFlow, which may change *)
(* or remove the entry meanwhile.  Of the options only the MQTT presence is*)
(* kept: the one that must agree with what is installed on the router.     *)
(***************************************************************************)
EXTENDS ConfigFlow

CONSTANT Beside     \* bound: the steps of wizards that an options flow opens beside

VARIABLE opt        \* the options flow

vars == <<flowVars, opt>>

OptForms == {"init", "options_redeploy_user", "options_redeploy_user_failed",
             "options_mqtt_presence", "options_mqtt_zone", "options_permissions",
             "options_ubus_restricted", "options_packages",
             "options_select_devices", "options_deploy_failed",
             "options_remove_failed"}
OptAwaits == {"redeploying", "checking", "deploying", "removing", "storing"}

OptRecord == [step : {"none"} \cup OptForms \cup OptAwaits,
              entry : {"none"} \cup Entries,
              mqtt : Settings, redeploy : BOOLEAN,      \* _options
              root : [user : Users, pw : Passwords],    \* _root_credentials
              perms : {"none", "ro", "rw"}, pkgs : BOOLEAN, restricted : BOOLEAN,
              put : {"none", "broken"} \cup Settings] \* ghost: what is then installed

NoOptions == [step |-> "none", entry |-> "none", mqtt |-> "off",
              redeploy |-> FALSE, root |-> [user |-> "root", pw |-> 0],
              perms |-> "none", pkgs |-> FALSE, restricted |-> FALSE,
              put |-> "none"]

TypeOK == ConfigTypeOK /\ opt \in OptRecord

Init == ConfigInit /\ opt = NoOptions

Entry == entries[opt.entry]
At(step) == opt.step = step

\* The next step; what no later step reads is forgotten (_ubus_restricted, which is
\* never taken back, is found again or not by every check).
Becomes(o, step) ==
    LET new == IF step = "redeploying" THEN o ELSE [o EXCEPT !.root = NoOptions.root]
    IN opt' = IF step \in {"options_permissions", "options_ubus_restricted"}
              THEN [new EXCEPT !.step = step]
              ELSE [new EXCEPT !.step = step, !.pkgs = FALSE, !.restricted = FALSE]

-----------------------------------------------------------------------------
\* async_step_init without input
Open(e) ==
    /\ At("none")
    /\ Exists(e)
    /\ \A f \in Flows : flow[f].step \in Beside
    /\ Becomes([NoOptions EXCEPT !.entry = e], "init")
    /\ UNCHANGED flowVars

\* The dialog is closed, or its entry removed.  What it awaits is dropped: every
\* result of it would only be shown here.
Close ==
    /\ opt.step \in OptForms \cup {"storing"}
    /\ opt' = NoOptions
    /\ UNCHANGED flowVars

\* Bug for the tests of the properties: switching the presence on is no change of
\* its settings.
RedeployIfChanged(o) ==
    /\ o.mqtt # "off"
    /\ o.redeploy \/ (Entry.mqtt # "off" /\ o.mqtt # Entry.mqtt)

\* should_redeploy_mqtt_presence
ShouldRedeploy(o) ==
    /\ o.mqtt # "off"
    /\ Entry.mqtt = "off" \/ o.redeploy \/ o.mqtt # Entry.mqtt

\* should_remove_mqtt_presence
ShouldRemove(o) == Entry.mqtt # "off" /\ o.mqtt = "off"

\* async_step_init with input: the settings of the broker are not on this form.
SubmitInit(presence, redeploy, redeployUser) ==
    LET o == [opt EXCEPT !.redeploy = redeploy,
                 !.mqtt = IF ~presence THEN "off"
                          ELSE IF Entry.mqtt # "off" THEN Entry.mqtt
                          ELSE CHOOSE b \in Brokers : TRUE]
    IN
    /\ At("init")
    /\ redeploy => Entry.mqtt # "off"
    /\ Becomes(o, IF redeployUser THEN "options_redeploy_user"
                  ELSE IF ShouldRedeploy(o) THEN "options_mqtt_presence"
                  ELSE "checking")
    /\ UNCHANGED flowVars

\* async_step_options_redeploy_user
SubmitRoot(user, pw) ==
    /\ At("options_redeploy_user")
    /\ Becomes([opt EXCEPT !.root = [user |-> user, pw |-> pw]], "redeploying")
    /\ UNCHANGED flowVars

\* async_step_options_do_redeploy_user: the user of the entry gets the password
\* of the entry.
RedeployUser(applied, success) ==
    LET host == Entry.host IN
    /\ At("redeploying")
    /\ success => applied
    /\ applied => opt.root.user = "root" /\ Valid(host, "root", opt.root.pw)
    /\ IF applied THEN Provisioned(host, Entry.user, Entry.pw) ELSE UNCHANGED password
    /\ Becomes(opt, IF ~success THEN "options_redeploy_user_failed"
                    ELSE IF ShouldRedeploy(opt) THEN "options_mqtt_presence"
                    ELSE "checking")
    /\ UNCHANGED <<flow, entries, fresh, deployed>>

\* async_step_options_redeploy_user_failed
RedeployAgain(again) ==
    /\ At("options_redeploy_user_failed")
    /\ Becomes(opt, IF again THEN "options_redeploy_user" ELSE "init")
    /\ UNCHANGED flowVars

\* async_step_options_mqtt_presence: permissions not checked yet are those the
\* coordinator knows, if any.
MqttOptions(setting, known) ==
    LET o == [opt EXCEPT !.perms = IF @ = "none" THEN known ELSE @] IN
    /\ At("options_mqtt_presence")
    /\ IF setting = "off" THEN Becomes([o EXCEPT !.mqtt = "off"], "checking")
       ELSE IF o.perms = "ro" THEN opt' = o
       ELSE Becomes([o EXCEPT !.mqtt = setting], "options_mqtt_zone")
    /\ UNCHANGED flowVars

\* async_step_options_mqtt_zone
MqttZoneOptions ==
    /\ At("options_mqtt_zone")
    /\ Becomes(opt, "checking")
    /\ UNCHANGED flowVars

\* _async_finalize_options: the entry is compared as it is now.
Finalize(o) ==
    IF ShouldRemove(o) THEN Becomes(o, "removing") /\ UNCHANGED entries
    ELSE IF ShouldRedeploy(o) THEN Becomes(o, "deploying") /\ UNCHANGED entries
    ELSE /\ entries' = [entries EXCEPT ![o.entry].mqtt = o.mqtt]
         /\ opt' = NoOptions

\* async_step_options_permissions without input, after the router was asked or
\* could not be
CheckOptions(perms, pkgs, restricted) ==
    LET o == [opt EXCEPT !.perms = perms, !.pkgs = pkgs,
                         !.restricted = restricted]
    IN
    /\ At("checking")
    /\ IF perms = "none" /\ ~pkgs THEN Finalize(o)
       ELSE /\ Becomes(o, IF perms = "none" THEN "options_packages"
                          ELSE IF o.restricted THEN "options_ubus_restricted"
                          ELSE "options_permissions")
            /\ UNCHANGED entries
    /\ UNCHANGED <<flow, router>>

\* async_step_options_permissions and async_step_options_ubus_restricted with input
AcknowledgeOptions ==
    /\ opt.step \in {"options_permissions", "options_ubus_restricted"}
    /\ IF opt.pkgs THEN Becomes(opt, "options_packages") /\ UNCHANGED entries
       ELSE Finalize(opt)
    /\ UNCHANGED <<flow, router>>

\* async_step_options_packages
PackageOptions(track) ==
    /\ At("options_packages")
    /\ IF track THEN Becomes(opt, "options_select_devices") /\ UNCHANGED entries
       ELSE Finalize(opt)
    /\ UNCHANGED <<flow, router>>

\* async_step_options_select_devices
SelectDevices ==
    /\ At("options_select_devices")
    /\ Finalize(opt)
    /\ UNCHANGED <<flow, router>>

\* async_step_options_do_deploy_mqtt_presence: the client is disconnected before
\* Home Assistant gets the result.
InstallPasses ==
    /\ At("deploying")
    /\ Scripts(Entry, opt.mqtt)
    /\ Becomes([opt EXCEPT !.put = opt.mqtt], "storing")
    /\ UNCHANGED <<flow, entries, password, fresh>>

\* async_step_options_do_remove_mqtt_presence: once connected, commands that fail
\* without an exception (ubus swallows its errors) count as done.
RemovePasses ==
    /\ At("removing")
    /\ \/ Scripts(Entry, "off")
       \/ Valid(Entry.host, Entry.user, Entry.pw) /\ UNCHANGED deployed
    /\ Becomes([opt EXCEPT !.put = deployed'[RouterAt[Entry.host]]], "storing")
    /\ UNCHANGED <<flow, entries, password, fresh>>

\* Either fails, before or after it has changed some of the files.
InstallFails ==
    /\ opt.step \in {"deploying", "removing"}
    /\ \/ UNCHANGED deployed
       \/ Scripts(Entry, "broken")
    /\ Becomes(opt, IF At("deploying") THEN "options_deploy_failed"
                    ELSE "options_remove_failed")
    /\ UNCHANGED <<flow, entries, password, fresh>>

\* Home Assistant stores the options of a flow that ends.
Store ==
    /\ At("storing")
    /\ entries' = [entries EXCEPT ![opt.entry].mqtt = opt.mqtt]
    /\ opt' = NoOptions
    /\ UNCHANGED <<flow, router>>

\* async_step_options_deploy_failed, async_step_options_remove_failed
InstallAgain(again) ==
    /\ opt.step \in {"options_deploy_failed", "options_remove_failed"}
    /\ Becomes(opt, IF At("options_deploy_failed")
                    THEN (IF again THEN "deploying" ELSE "options_mqtt_presence")
                    ELSE (IF again THEN "removing" ELSE "init"))
    /\ UNCHANGED flowVars

\* The user removes an entry, and with it its options dialog.
Remove(e) ==
    /\ opt.entry = e => opt.step \notin OptAwaits
    /\ RemoveEntry(e)
    /\ opt' = IF opt.entry = e THEN NoOptions ELSE opt

OptNext ==
    \/ \E e \in Entries : Open(e)
    \/ Close
    \/ \E presence, redeploy, redeployUser \in BOOLEAN :
          SubmitInit(presence, redeploy, redeployUser)
    \/ /\ opt.entry # "none"
       /\ \E u \in Users : \E p \in Typed(Entry.host, u) : SubmitRoot(u, p)
    \/ \E applied, success \in BOOLEAN : RedeployUser(applied, success)
    \/ \E again \in BOOLEAN : RedeployAgain(again) \/ InstallAgain(again)
    \/ \E s \in Settings, known \in {"none", "ro", "rw"} : MqttOptions(s, known)
    \/ MqttZoneOptions
    \/ \E perms \in {"none", "ro", "rw"}, pkgs, restricted \in BOOLEAN :
          CheckOptions(perms, pkgs, restricted)
    \/ AcknowledgeOptions
    \/ \E track \in BOOLEAN : PackageOptions(track)
    \/ SelectDevices \/ InstallPasses \/ RemovePasses \/ InstallFails \/ Store

Next ==
    \/ /\ ConfigNext
       /\ At("none") \/ \A f \in Flows : flow'[f].step \in Beside
       /\ UNCHANGED opt
    \/ OptNext
    \/ \E e \in Entries : Remove(e)

Spec == Init /\ [][Next]_vars

-----------------------------------------------------------------------------
(* Properties. *)

\* _async_finalize_options: this dialog gives an entry new presence settings only
\* after it has installed the scripts for them.  (That the presence is off in the
\* entry does not mean that the scripts are gone, see RemovePasses.)
OptionsOnRouter ==
    [][\A e \in Entries :
        /\ entries'[e].mqtt \notin {entries[e].mqtt, "off"}
        /\ Exists(e) /\ entries'[e] # NoEntry
        /\ flow' = flow
        => opt.put = entries'[e].mqtt]_vars

=============================================================================
