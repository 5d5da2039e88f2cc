------------------------------- MODULE Actions -------------------------------
(***************************************************************************)
(* A switch of Home Assistant and the setting of the router behind it: a   *)
(* firewall rule, a port forward, a service, a one-shot service, an ad     *)
(* blocker, a traffic shaper, an LED or a WireGuard interface.             *)
(*                                                                         *)
(* An operation is a script of requests, different for each kind and       *)
(* transport.  What a request that the router rejects, or whose answer is  *)
(* lost, does to the operation depends on how it is made: some raise, some *)
(* look only at the connection, some at nothing.  The script returns a     *)
(* success; some switches look at it and some show what was asked for      *)
(* whatever it was.  Users and automations may operate a switch while an   *)
(* operation of it is under way.                                           *)
(*                                                                         *)
(* Left out: LuCI's and ubus' second ways of running a command, which come *)
(* after a first one that failed and do the same; when a poll reads the    *)
(* setting rather than its cache (PollTiers).                              *)
(***************************************************************************)
EXTENDS Naturals, Sequences

CONSTANTS
    Kinds,      \* of switches
    Transports, \* "ubus", "luci", "ssh"
    Ops,        \* operations that can run at the same time
    MaxOps,     \* bound: operations started
    MaxFaults   \* bound: requests rejected or whose answer is lost

AllKinds == {"rule", "redirect", "service", "oneshot", "adblock", "simple_adblock",
             "banip", "sqm", "led", "light", "wireguard", "wps"}

ActionsConstants ==
    /\ Kinds \subseteq AllKinds
    /\ Transports \subseteq {"ubus", "luci", "ssh"}
    /\ {MaxOps, MaxFaults} \subseteq Nat

VARIABLES
    kind, via,  \* the switch and the transport of the entry
    conf,       \* the committed setting; of a service whether it starts at boot
    delta,      \* the setting staged for the next commit, if any
    live,       \* what the router does
    data,       \* what the coordinator's data shows
    read,       \* what a poll in progress has read, if anything
    op,         \* the operations
    started, faults     \* counters for the bounds

vars == <<kind, via, conf, delta, live, data, read, op, started, faults>>

\* clean and alone are ghosts: no request of the operation failed, and no other
\* operation ran beside it.
Idle == [phase |-> "idle", wants |-> FALSE, todo |-> <<>>, clean |-> TRUE,
         alone |-> TRUE]

Effects == {"set", "commit", "reload", "run", "enable", "unknown"}
Ways == {"call", "command", "quiet"}

TypeOK ==
    /\ kind \in Kinds /\ via \in Transports
    /\ {conf, live, data} \subseteq BOOLEAN
    /\ delta \in {{}, {TRUE}, {FALSE}} /\ read \in {{}, {TRUE}, {FALSE}}
    /\ \A o \in Ops :
        /\ op[o].phase \in {"idle", "running", "acked"}
        /\ op[o].phase = "running" <=> op[o].todo # <<>>
        /\ \A i \in DOMAIN op[o].todo :
            op[o].todo[i].way \in Ways /\ op[o].todo[i].does \in Seq(Effects)
        /\ {op[o].wants, op[o].clean, op[o].alone} \subseteq BOOLEAN
    /\ started \in 0..MaxOps /\ faults \in 0..MaxFaults

\* The router runs what is configured; a poll has read it.
Init ==
    /\ kind \in Kinds /\ via \in Transports
    /\ conf \in BOOLEAN /\ live = conf /\ data = conf
    /\ delta = {} /\ read = {}
    /\ op = [o \in Ops |-> Idle]
    /\ started = 0 /\ faults = 0

-----------------------------------------------------------------------------
(***************************************************************************)
(* The requests of the clients.  A "call" fails the operation when it is   *)
(* rejected or its answer is lost; a "command" only when the answer is     *)
(* lost, since nobody looks at its exit status; a "quiet" request never.   *)
(***************************************************************************)

Call(effect) == [does |-> <<effect>>, way |-> "call"]
Command(effects) == [does |-> effects, way |-> "command"]
Quiet(effects) == [does |-> effects, way |-> "quiet"]

\* execute_command of the transport: the ubus client catches every UbusError.
Shell(effects) == IF via = "ubus" THEN Quiet(effects) ELSE Command(effects)

Over(ubus, luci, ssh) ==
    CASE via = "ubus" -> ubus [] via = "luci" -> luci [] via = "ssh" -> ssh

\* Bug for the tests of the properties: the firewall is reloaded too early.
UbusReloadsEarly == <<Call("set"), Call("reload"), Call("commit")>>

\* set_firewall_rule_enabled: the status of the reload is echoed and read.
UbusSetsRule == <<Call("set"), Call("commit"), Call("reload")>>
LuciSetsRule == <<Command(<<"set", "commit", "reload">>)>>
SshSetsRule == <<Command(<<"set">>), Command(<<"commit">>), Command(<<"reload">>)>>


\* set_firewall_redirect_enabled: "service reloading" is a method that "is not a
\* real ubus method on stock OpenWrt".
UbusSetsRedirect == <<Call("set"), Call("commit"), Call("unknown")>>
LuciSetsRedirect == LuciSetsRule
SshSetsRedirect == SshSetsRule

\* manage_service; over ubus the third way of doing it cannot fail.
UbusManages(effect) == <<Quiet(<<effect>>)>>
LuciManages(effect) == <<Command(<<effect>>)>>
SshManages(effect) == <<Command(<<effect>>)>>

Manages(effect) == Over(UbusManages(effect), LuciManages(effect), SshManages(effect))

\* set_adblock_enabled
UbusSetsAdblock == <<Quiet(<<"set", "commit">>), Quiet(<<"run">>)>>
LuciSetsAdblock == <<Command(<<"set", "commit">>), Command(<<"run">>)>>
SshSetsAdblock == <<Command(<<"set", "commit">>), Command(<<"run">>)>>

\* set_simple_adblock_enabled
UbusSetsSimple == UbusSetsAdblock
LuciSetsSimple == LuciSetsAdblock
SshSetsSimple == SshSetsAdblock

\* set_banip_enabled, the same for every transport.
SetsBanip == <<Shell(<<"set", "commit">>), Shell(<<"run">>)>>

\* set_sqm_config
UbusSetsSqm == <<Call("set"), Call("commit"), Command(<<"reload">>)>>
LuciSetsSqm == <<Command(<<"set">>), Command(<<"commit">>), Command(<<"reload">>)>>
SshSetsSqm == <<Command(<<"set">>), Command(<<"commit">>), Command(<<"reload">>)>>

\* set_led; over ubus the shell is tried when the file cannot be written.
UbusSetsLed == <<Quiet(<<"run">>)>>
LuciSetsLed == <<Command(<<"run">>)>>
SshSetsLed == <<Command(<<"run">>)>>

\* set_wps: over ubus without success if no access point takes it.
UbusSetsWps == <<Call("run")>>
LuciSetsWps == <<Command(<<"run">>)>>
SshSetsWps == <<Command(<<"run">>)>>

-----------------------------------------------------------------------------
(***************************************************************************)
(* The switches: their script; whether False is an error to them (an       *)
(* exception is to all); and what the data they show comes from: the       *)
(* setting, staged ones included, what starts at boot, or what runs.       *)
(***************************************************************************)

RuleSwitch == [script |-> Over(UbusSetsRule, LuciSetsRule, SshSetsRule),
               checks |-> TRUE, shows |-> "setting"]

RedirectSwitch == [script |-> Over(UbusSetsRedirect, LuciSetsRedirect, SshSetsRedirect),
                   checks |-> FALSE, shows |-> "setting"]

ServiceSwitch == [script |-> Manages("run"), checks |-> TRUE, shows |-> "running"]

\* Bug for the tests of the properties: a one-shot service is only started.
OneShotOnlyRuns == [script |-> Manages("run"), checks |-> TRUE, shows |-> "boot"]

\* classify_service: the flag "running" of a one-shot service is that it starts
\* at boot.
OneShotSwitch == [script |-> Manages("enable") \o Manages("run"),
                  checks |-> TRUE, shows |-> "boot"]

AdBlockSwitch == [script |-> Over(UbusSetsAdblock, LuciSetsAdblock, SshSetsAdblock),
                  checks |-> FALSE, shows |-> "running"]

SimpleAdBlockSwitch == [script |-> Over(UbusSetsSimple, LuciSetsSimple, SshSetsSimple),
                        checks |-> FALSE, shows |-> "setting"]

BanIpSwitch == [script |-> SetsBanip, checks |-> FALSE, shows |-> "running"]

SqmSwitch == [script |-> Over(UbusSetsSqm, LuciSetsSqm, SshSetsSqm),
              checks |-> FALSE, shows |-> "setting"]

LedSwitch == [script |-> Over(UbusSetsLed, LuciSetsLed, SshSetsLed),
              checks |-> FALSE, shows |-> "running"]

LedLight == LedSwitch

\* ifup and ifdown: execute_command itself, whose exceptions reach the switch.
WireGuardSwitch == [script |-> <<Shell(<<"run">>)>>, checks |-> TRUE,
                    shows |-> "running"]

\* LuCI's status is a setting that the operation does not touch.
WpsSwitch == [script |-> Over(UbusSetsWps, LuciSetsWps, SshSetsWps), checks |-> FALSE,
              shows |-> IF via = "luci" THEN "boot" ELSE "running"]

Switch ==
    CASE kind = "rule" -> RuleSwitch
      [] kind = "redirect" -> RedirectSwitch
      [] kind = "service" -> ServiceSwitch
      [] kind = "oneshot" -> OneShotSwitch
      [] kind = "adblock" -> AdBlockSwitch
      [] kind = "simple_adblock" -> SimpleAdBlockSwitch
      [] kind = "banip" -> BanIpSwitch
      [] kind = "sqm" -> SqmSwitch
      [] kind = "led" -> LedSwitch
      [] kind = "light" -> LedLight
      [] kind = "wireguard" -> WireGuardSwitch
      [] kind = "wps" -> WpsSwitch

-----------------------------------------------------------------------------
(* The router. *)

Settings == [conf |-> conf, delta |-> delta, live |-> live]

After(effect, wants, s) ==
    CASE effect = "set" -> [s EXCEPT !.delta = {wants}]
      [] effect = "commit" ->
            [s EXCEPT !.conf = IF s.delta = {} THEN @ ELSE CHOOSE v \in s.delta : TRUE,
                      !.delta = {}]
      [] effect = "reload" -> [s EXCEPT !.live = s.conf]
      [] effect = "run" -> [s EXCEPT !.live = wants]
      [] effect = "enable" -> [s EXCEPT !.conf = wants]
      [] OTHER -> s

\* The first n effects of a request.
Prefix(o, n) ==
    LET does == Head(op[o].todo).does
        s[i \in 0..Len(does)] ==
            IF i = 0 THEN Settings ELSE After(does[i], op[o].wants, s[i - 1])
    IN  s[n]

Takes(s) == conf' = s.conf /\ delta' = s.delta /\ live' = s.live

-----------------------------------------------------------------------------
(* An operation. *)

Running(o) == op[o].phase # "idle"

\* async_turn_on, async_turn_off
Begin(o) ==
    /\ ~Running(o)
    /\ started < MaxOps
    /\ started' = started + 1
    /\ \E on \in BOOLEAN :
        LET alone == \A p \in Ops : ~Running(p) IN
        op' = [p \in Ops |->
                IF p = o THEN [phase |-> "running", wants |-> on, todo |-> Switch.script,
                               clean |-> TRUE, alone |-> alone /\ delta = {}]
                ELSE [op[p] EXCEPT !.alone = ~Running(p)]]
    /\ UNCHANGED <<kind, via, conf, delta, live, data, read, faults>>

\* The rest of the script, after a request that did not fail the operation.
Onward(r) ==
    [r EXCEPT !.todo = Tail(@),
              !.phase = IF Len(r.todo) = 1 THEN "acked" ELSE "running"]

\* The script ends with False or an exception: the switch raises an error and
\* shows what it showed, or ignores it.
Failed(r) ==
    IF Switch.checks THEN Idle
    ELSE [r EXCEPT !.todo = <<>>, !.clean = FALSE, !.phase = "acked"]

Requested(o) ==
    /\ op[o].phase = "running"
    /\ Head(op[o].todo).does # <<"unknown">>
    /\ Takes(Prefix(o, Len(Head(op[o].todo).does)))
    /\ op' = [op EXCEPT ![o] = Onward(@)]
    /\ UNCHANGED <<kind, via, data, read, started, faults>>

\* A method that does not exist.
MethodUnknown(o) ==
    /\ op[o].phase = "running"
    /\ Head(op[o].todo).does = <<"unknown">>
    /\ op' = [op EXCEPT ![o] = Failed(@)]
    /\ UNCHANGED <<kind, via, conf, delta, live, data, read, started, faults>>

\* The router rejects a request, or stops a command line half-way.
Rejected(o) ==
    /\ op[o].phase = "running"
    /\ faults < MaxFaults
    /\ faults' = faults + 1
    /\ \E n \in 0..(Len(Head(op[o].todo).does) - 1) : Takes(Prefix(o, n))
    /\ op' = [op EXCEPT ![o] = IF Head(@.todo).way = "call" THEN Failed(@)
                               ELSE [Onward(@) EXCEPT !.clean = FALSE]]
    /\ UNCHANGED <<kind, via, data, read, started>>

\* The connection breaks before or after the request had its effect.
AnswerLost(o) ==
    /\ op[o].phase = "running"
    /\ faults < MaxFaults
    /\ faults' = faults + 1
    /\ \E n \in 0..Len(Head(op[o].todo).does) : Takes(Prefix(o, n))
    /\ op' = [op EXCEPT ![o] = IF Head(@.todo).way # "quiet" THEN Failed(@)
                               ELSE [Onward(@) EXCEPT !.clean = FALSE]]
    /\ UNCHANGED <<kind, via, data, read, started>>

\* The data shows what was asked for, until a poll.
Acknowledge(o) ==
    /\ op[o].phase = "acked"
    /\ data' = op[o].wants
    /\ op' = [op EXCEPT ![o] = Idle]
    /\ UNCHANGED <<kind, via, conf, delta, live, read, started, faults>>

\* What a query answers.
Shown ==
    CASE Switch.shows = "setting" ->
            IF delta = {} THEN conf ELSE CHOOSE v \in delta : TRUE
      [] Switch.shows = "boot" -> conf
      [] Switch.shows = "running" -> live

PollRead ==
    /\ read = {}
    /\ read' = {Shown}
    /\ UNCHANGED <<kind, via, conf, delta, live, data, op, started, faults>>

PollPublished ==
    /\ \E v \in read : data' = v
    /\ read' = {}
    /\ UNCHANGED <<kind, via, conf, delta, live, op, started, faults>>

Next ==
    \/ PollRead \/ PollPublished
    \/ \E o \in Ops :
        \/ Begin(o) \/ Requested(o) \/ MethodUnknown(o)
        \/ Rejected(o) \/ AnswerLost(o) \/ Acknowledge(o)

Spec == Init /\ [][Next]_vars

-----------------------------------------------------------------------------
(* Properties. *)

\* Every request of a firewall rule over ubus is looked at: an operation that
\* comes back without an error has had its effect whatever failed.
Verified == kind = "rule" /\ via = "ubus"

\* What a switch shows as done is what the router does and will do after its next
\* start, and what the next poll shows: of an undisturbed operation, all of whose
\* requests went well unless the switch verifies them.  (A port forward over ubus
\* is never applied, and WPS over LuCI not shown.)
AckedIsDone ==
    \A o \in Ops :
        /\ op[o].phase = "acked" /\ op[o].alone
        /\ op[o].clean \/ Verified
        /\ <<kind, via>> \notin {<<"redirect", "ubus">>, <<"wps", "luci">>}
        => /\ live = op[o].wants /\ Shown = op[o].wants
           /\ kind \notin {"service", "led", "light", "wireguard", "wps"} =>
                conf = op[o].wants

\* Operations of one switch that run into each other end with the router doing
\* what is committed, where the last request of a script reads it again.  (The
\* scripts that end with start or stop may leave the opposite running.)
ParallelChangesAgree ==
    /\ kind \in {"rule", "redirect", "sqm"} /\ <<kind, via>> # <<"redirect", "ubus">>
    /\ faults = 0 /\ \A o \in Ops : ~Running(o)
    => live = conf /\ delta = {}

=============================================================================
