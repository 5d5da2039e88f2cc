---------------------------- MODULE AccessControl ----------------------------
(***************************************************************************)
(* The "Internet Access" switch of a device: a firewall rule of the router *)
(* that rejects the traffic of its MAC address.                            *)
(*                                                                         *)
(* The clients over ubus and SSH look for the device's rule, add one when  *)
(* they block it for the first time, set its fields one after the other,   *)
(* commit and reload the firewall, and drop the connections that are open. *)
(* The settings of a ubus session and of the command line wait in a delta  *)
(* until somebody commits it, and nothing takes them back when an          *)
(* operation fails.  LuCI has no such operation; its False is an error of  *)
(* the switch.                                                             *)
(*                                                                         *)
(* A rule of the section list is "blank" from its addition until its       *)
(* fields are set; the rules of other devices are left out.                *)
(***************************************************************************)
EXTENDS Naturals, Sequences, SequencesExt, FiniteSetsExt

CONSTANTS
    Transports, \* "ubus", "luci", "ssh"
    Ops,        \* operations that can run at the same time
    MaxOps,     \* bound: operations started
    MaxFaults   \* bound: requests that fail

AccessConstants ==
    /\ Transports \subseteq {"ubus", "luci", "ssh"}
    /\ {MaxOps, MaxFaults} \subseteq Nat

VARIABLES
    via,        \* transport of the entry
    rules,      \* the device's rules as a client sees them, staged ones included
    named,      \* the one whose section has a name of its own, if any
    saved,      \* the committed rules
    live,       \* the running firewall rejects the device
    data,       \* of each of the device's rules in the data: does it block
    op,         \* the operations
    started, faults,    \* counters for the bounds
    overlapped  \* ghost: two operations ran at the same time

vars == <<via, rules, named, saved, live, data, op, started, faults, overlapped>>

Rule == {"blank", "on", "off"}
None == 0

\* The rule set_access_control_blocked sets, as an index of the section list.
Idle == [phase |-> "idle", blocks |-> FALSE, rule |-> None]

Phases == {"idle", "looking", "adding", "setting", "committing", "reloading",
           "flushing", "done"}

TypeOK ==
    /\ via \in Transports
    /\ {rules, saved} \subseteq Seq(Rule)
    /\ named \in 0..Len(rules)
    /\ live \in BOOLEAN /\ data \in Seq(BOOLEAN)
    /\ \A o \in Ops :
        /\ op[o].phase \in Phases /\ op[o].blocks \in BOOLEAN
        /\ op[o].rule \in 0..Len(rules)
        /\ op[o].phase = "setting" => op[o].rule # None
    /\ started \in 0..MaxOps /\ faults \in 0..MaxFaults
    /\ overlapped \in BOOLEAN

Init ==
    /\ via \in Transports
    /\ rules \in {<<>>, <<"on">>, <<"off">>}
    /\ named \in IF via = "ssh" THEN 0..Len(rules) ELSE {None}
    /\ saved = rules
    /\ live = (rules = <<"on">>)
    /\ data = <<>>
    /\ op = [o \in Ops |-> Idle]
    /\ started = 0 /\ faults = 0
    /\ overlapped = FALSE

Running(o) == op[o].phase # "idle"

Blocking(list) == "on" \in {list[i] : i \in DOMAIN list}

-----------------------------------------------------------------------------
(* The steps of set_access_control_blocked. *)

\* async_turn_on, async_turn_off
Begin(o) ==
    /\ ~Running(o)
    /\ started < MaxOps
    /\ started' = started + 1
    /\ \E b \in BOOLEAN : op' = [op EXCEPT ![o] = [Idle EXCEPT !.phase = "looking",
                                                               !.blocks = b]]
    /\ overlapped' = (overlapped \/ \E p \in Ops : Running(p))
    /\ UNCHANGED <<via, rules, named, saved, live, data, faults>>

Goes(o, phase, rule) ==
    op' = [op EXCEPT ![o].phase = phase, ![o].rule = rule]

\* get_access_control: the rules with the device's address.
UbusLists(list) == {i \in DOMAIN list : list[i] # "blank"}

LuciLists(list) == {i \in DOMAIN list : list[i] # "blank"}

\* The type of a section is not kept while its lines are read, and no section
\* passes for a rule.
SshLists(list) == {}

Listed(list) ==
    CASE via = "ubus" -> UbusLists(list)
      [] via = "luci" -> LuciLists(list)
      [] via = "ssh" -> SshLists(list)

\* Bug for the tests of the properties: a rule is added for every block.
FindsNone(o) ==
    /\ via # "luci" /\ op[o].phase = "looking"
    /\ Goes(o, IF op[o].blocks THEN "adding" ELSE "committing", None)
    /\ UNCHANGED <<via, rules, named, saved, live, data, started, faults, overlapped>>

\* The first rule of the device, if there is one.
Finds(o) ==
    /\ via # "luci" /\ op[o].phase = "looking"
    /\ IF Listed(rules) # {} THEN Goes(o, "setting", Min(Listed(rules)))
       ELSE Goes(o, IF op[o].blocks THEN "adding" ELSE "committing", None)
    /\ UNCHANGED <<via, rules, named, saved, live, data, started, faults, overlapped>>

\* uci add
UbusAdds(o) ==
    /\ via = "ubus" /\ op[o].phase = "adding"
    /\ rules' = Append(rules, "blank")
    /\ Goes(o, "setting", Len(rules'))
    /\ UNCHANGED <<via, named, saved, live, data, started, faults, overlapped>>

\* uci add; but the rule that is then set is a section named after the address,
\* made unless it is there.
SshAdds(o) ==
    /\ via = "ssh" /\ op[o].phase = "adding"
    /\ IF named # None
       THEN rules' = Append(rules, "blank") /\ UNCHANGED named
       ELSE rules' = rules \o <<"blank", "blank">> /\ named' = Len(rules')
    /\ Goes(o, "setting", named')
    /\ UNCHANGED <<via, saved, live, data, started, faults, overlapped>>

\* uci set of all the fields.
Sets(o) ==
    /\ op[o].phase = "setting"
    /\ rules' = [rules EXCEPT ![op[o].rule] = IF op[o].blocks THEN "on" ELSE "off"]
    /\ Goes(o, "committing", op[o].rule)
    /\ UNCHANGED <<via, named, saved, live, data, started, faults, overlapped>>

Commits(o) ==
    /\ op[o].phase = "committing"
    /\ saved' = rules
    /\ Goes(o, "reloading", op[o].rule)
    /\ UNCHANGED <<via, rules, named, live, data, started, faults, overlapped>>

\* The firewall takes over what is committed, and its status is looked at.
Reloads(o) ==
    /\ op[o].phase = "reloading"
    /\ live' = Blocking(saved)
    /\ Goes(o, IF op[o].blocks THEN "flushing" ELSE "done", op[o].rule)
    /\ UNCHANGED <<via, rules, named, saved, data, started, faults, overlapped>>

\* _flush_conntrack_for_mac; without an address of the device it is a success.
Flushes(o) ==
    /\ op[o].phase = "flushing"
    /\ Goes(o, "done", op[o].rule)
    /\ UNCHANGED <<via, rules, named, saved, live, data, started, faults, overlapped>>

\* A request fails before its effect (after it: the next one fails before its
\* own): False, and the switch raises an error.  The rules stay as they are.
Fails(o) ==
    /\ Running(o) /\ op[o].phase # "done"
    /\ faults < MaxFaults
    /\ faults' = faults + 1
    /\ op' = [op EXCEPT ![o] = Idle]
    /\ UNCHANGED <<via, rules, named, saved, live, data, started, overlapped>>

\* The default of OpenWrtClient.
NotOverLuci(o) ==
    /\ via = "luci" /\ op[o].phase = "looking"
    /\ op' = [op EXCEPT ![o] = Idle]
    /\ UNCHANGED <<via, rules, named, saved, live, data, started, faults, overlapped>>

\* Success: the device's rules in the data are shown as asked for.
Acknowledge(o) ==
    /\ op[o].phase = "done"
    /\ data' = [i \in DOMAIN data |-> op[o].blocks]
    /\ op' = [op EXCEPT ![o] = Idle]
    /\ UNCHANGED <<via, rules, named, saved, live, started, faults, overlapped>>

\* A poll; LuCI looks at the target of a rule and not whether it is enabled.
Polls ==
    /\ data' = [i \in 1..Len(SetToSeq(Listed(rules))) |->
                    LET r == rules[SetToSortSeq(Listed(rules), <)[i]]
                    IN  via = "luci" \/ r = "on"]
    /\ UNCHANGED <<via, rules, named, saved, live, op, started, faults, overlapped>>

Next ==
    \/ Polls
    \/ \E o \in Ops :
        \/ Begin(o) \/ Finds(o) \/ UbusAdds(o) \/ SshAdds(o) \/ Sets(o)
        \/ Commits(o) \/ Reloads(o) \/ Flushes(o) \/ Fails(o) \/ NotOverLuci(o) \/ Acknowledge(o)

Spec == Init /\ [][Next]_vars

-----------------------------------------------------------------------------
(* Properties. *)

\* is_on: the first rule of the device in the data decides.
ShownBlocked == data # <<>> /\ data[1]

\* "Block or unblock a device's internet access": over ubus, when operations do
\* not overlap, one that is shown as done has done it, in the running firewall and
\* in the committed rules, after any number of failed ones before it.
AccessAsAsked ==
    \A o \in Ops :
        op[o].phase = "done" /\ via = "ubus" /\ ~overlapped =>
            live = op[o].blocks /\ Blocking(saved) = op[o].blocks

\* "Block or unblock internet access for a MAC via SSH": an unblocked device is
\* not rejected any more.
UnblockedOverSsh ==
    \A o \in Ops :
        op[o].phase = "done" /\ via = "ssh" /\ ~overlapped /\ ~op[o].blocks => ~live

=============================================================================
