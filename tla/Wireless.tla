------------------------------ MODULE Wireless ------------------------------
(***************************************************************************)
(* The wireless settings of a router: a radio and its networks (SSIDs),    *)
(* switched from Home Assistant by operations that run side by side.       *)
(*                                                                         *)
(* An operation stages one setting after the other in UCI and commits the  *)
(* configuration.  The staged settings are not the operation's own: every  *)
(* call of a ubus session shares one delta, every command of a LuCI or SSH *)
(* login another.  Over ubus each step is a call that may fail, and what   *)
(* was staged is then reverted; over LuCI and SSH the steps are one        *)
(* command line that stops at the first failure, whose status LuCI loses.  *)
(* Whether switching a network off takes the radio down is decided from    *)
(* the coordinator's data before the first call.  Acknowledged settings    *)
(* are shown at once; the next poll reads what the router has.             *)
(*                                                                         *)
(* Left out: how a network's section is found, the reload of the radios,   *)
(* and expiry of a ubus session in mid-operation (UbusSession).            *)
(***************************************************************************)
EXTENDS Naturals, Sequences, SequencesExt

CONSTANTS
    Nets,       \* SSIDs of the radio
    Radio,      \* the radio
    Ops,        \* operations that can run at the same time
    Transports, \* "ubus", "luci", "ssh"
    MaxOps,     \* bound: operations started
    MaxFaults,  \* bound: calls that fail or whose answer is lost
    MaxOutside  \* bound: changes by others

ASSUME WirelessConstants ==
    /\ Radio \notin Nets
    /\ Transports \subseteq {"ubus", "luci", "ssh"}
    /\ {MaxOps, MaxFaults, MaxOutside} \subseteq Nat

VARIABLES
    via,        \* transport of the entry
    conf,       \* committed configuration: the sections that are enabled
    staged,     \* settings set and not committed
    data,       \* the networks the coordinator's data shows enabled
    read,       \* what a poll in progress has read, as the one element
    op,         \* the operations
    kept,       \* ghost: a revert failed, what was staged stayed
    started, faults, outside    \* counters for the bounds

vars == <<via, conf, staged, data, read, op, kept, started, faults, outside>>

Sections == Nets \cup {Radio}
Settings == [section : Sections, on : BOOLEAN]

Phases == {"idle", "staging", "committed", "failed"}

\* before and alone are ghosts: what was committed when the operation began, and
\* that nothing else has touched the configuration or its delta since.  fresh:
\* the data showed the configuration then.
Idle == [phase |-> "idle", kind |-> "net", wants |-> <<>>, todo |-> <<>>,
         lost |-> FALSE, before |-> {}, alone |-> FALSE, fresh |-> FALSE]

TypeOK ==
    /\ via \in Transports
    /\ conf \subseteq Sections /\ data \subseteq Nets
    /\ staged \in Seq(Settings)
    /\ read = {} \/ \E c \in SUBSET Nets : read = {c}
    /\ \A o \in Ops :
        /\ op[o].phase \in Phases /\ op[o].kind \in {"net", "radio", "power"}
        /\ IsSuffix(op[o].todo, op[o].wants)
        /\ \A i \in DOMAIN op[o].wants : op[o].wants[i] \in Settings
        /\ op[o].before \subseteq Sections
        /\ op[o].phase = "failed" => via = "ubus"
        /\ op[o].lost => via # "ubus"
    /\ kept \in BOOLEAN
    /\ started \in 0..MaxOps /\ faults \in 0..MaxFaults /\ outside \in 0..MaxOutside

Init ==
    /\ via \in Transports
    /\ conf \in SUBSET Sections
    /\ data = conf \cap Nets
    /\ staged = <<>>
    /\ read = {}
    /\ op = [o \in Ops |-> Idle]
    /\ kept = FALSE
    /\ started = 0 /\ faults = 0 /\ outside = 0

Running(o) == op[o].phase # "idle"

\* The configuration c with a sequence of settings applied to it: the last one of
\* a section decides.
Applied(c, settings) ==
    LET those(s) == {i \in DOMAIN settings : settings[i].section = s}
    IN  {s \in Sections : IF those(s) = {} THEN s \in c
                          ELSE settings[Max(those(s))].on}

\* A change others can notice: no operation is alone with its configuration.
Disturbed == [o \in Ops |->
    [op[o] EXCEPT !.alone = FALSE, !.before = {}, !.fresh = FALSE]]

-----------------------------------------------------------------------------
(* Starting an operation. *)

On(s) == [section |-> s, on |-> TRUE]
Off(s) == [section |-> s, on |-> FALSE]

\* _async_set_network_enabled: no other network of the radio is shown enabled.
LastOne(n) == \A m \in Nets \ {n} : m \notin data

\* Bug for the tests of the properties: the radio stays as it is.
NetOnly(n, on) ==
    IF on THEN <<On(n)>>
    ELSE IF LastOne(n) THEN <<Off(n), Off(Radio)>> ELSE <<Off(n)>>

\* set_wireless_network_enabled: the settings in the order they are made.
NetSettings(n, on) ==
    IF on THEN <<On(Radio), On(n)>>
    ELSE IF LastOne(n) THEN <<Off(n), Off(Radio)>> ELSE <<Off(n)>>

Begin(o, kind, settings) ==
    LET alone == staged = <<>> /\ \A p \in Ops : ~Running(p) IN
    /\ ~Running(o)
    /\ started < MaxOps
    /\ op' = [Disturbed EXCEPT ![o] =
                [phase |-> "staging", kind |-> kind, wants |-> settings,
                 todo |-> settings, lost |-> FALSE, alone |-> alone,
                 before |-> IF alone THEN conf ELSE {},
                 fresh |-> alone /\ data = conf \cap Nets]]
    /\ started' = started + 1
    /\ UNCHANGED <<via, conf, staged, data, read, kept, faults, outside>>

\* async_turn_on, async_turn_off of a network's switch
SwitchNet(o) ==
    \E n \in Nets, on \in BOOLEAN : Begin(o, "net", NetSettings(n, on))

\* async_turn_on, async_turn_off of the radio's switch
SwitchRadio(o) ==
    \E on \in BOOLEAN : Begin(o, "radio", IF on THEN <<On(Radio)>> ELSE <<Off(Radio)>>)

\* async_set_native_value of the transmit power.  Its own option is not
\* modelled; its commit is.
SetPower(o) == Begin(o, "power", <<>>)

-----------------------------------------------------------------------------
(* Its steps on the router. *)

\* SSH sends one command at a time (SshClient, WorkerHoldsTheLock).
HasTheTurn(o) ==
    via = "ssh" => \A p \in Ops \ {o} :
        op[p].phase = "staging" /\ ~op[p].lost => op[p].todo = op[p].wants

Stage(o) ==
    LET r == op[o] IN
    /\ r.phase = "staging" /\ r.todo # <<>>
    /\ HasTheTurn(o)
    /\ staged' = Append(staged, Head(r.todo))
    /\ op' = [op EXCEPT ![o].todo = Tail(@)]
    /\ UNCHANGED <<via, conf, data, read, kept, started, faults, outside>>

\* execute_command of a ubus session runs uci in a process of its own, whose
\* delta is not the session's.
OwnDelta(o) == op[o].kind = "power" /\ via = "ubus"

AfterCommit(o) == IF op[o].lost THEN Idle ELSE [op[o] EXCEPT !.phase = "committed"]

\* Bug for the tests of the properties: every setting is committed at once.
CommitEarly(o) ==
    /\ op[o].phase = "staging" /\ HasTheTurn(o)
    /\ conf' = Applied(conf, staged) /\ staged' = <<>>
    /\ op' = IF op[o].todo = <<>> THEN [op EXCEPT ![o] = AfterCommit(o)] ELSE op
    /\ UNCHANGED <<via, data, read, kept, started, faults, outside>>

Commit(o) ==
    /\ op[o].phase = "staging" /\ op[o].todo = <<>> /\ HasTheTurn(o)
    /\ IF OwnDelta(o) THEN UNCHANGED <<conf, staged>>
       ELSE conf' = Applied(conf, staged) /\ staged' = <<>>
    /\ op' = [op EXCEPT ![o] = AfterCommit(o)]
    /\ UNCHANGED <<via, data, read, kept, started, faults, outside>>

-----------------------------------------------------------------------------
(* Failures. *)

\* Bug for the tests of the properties: a command line fails half-way as a call.
AnyCallFails(o) ==
    /\ op[o].phase = "staging" /\ op[o].kind # "power"
    /\ faults < MaxFaults
    /\ faults' = faults + 1
    /\ op' = [op EXCEPT ![o].phase = "failed"]
    /\ UNCHANGED <<via, conf, staged, data, read, kept, started, outside>>

\* A ubus call fails, before or after its effect; UbusError is caught.  A failed
\* commit is taken for one without effect.
CallFails(o) ==
    LET r == op[o] IN
    /\ via = "ubus" /\ r.phase = "staging" /\ r.kind # "power"
    /\ faults < MaxFaults
    /\ faults' = faults + 1
    /\ \/ UNCHANGED <<staged, conf>>
       \/ /\ r.todo # <<>>
          /\ staged' = Append(staged, Head(r.todo))
          /\ UNCHANGED conf
       \/ /\ r.todo = <<>>
          /\ conf' = Applied(conf, staged) /\ staged' = <<>>
    /\ op' = [op EXCEPT ![o].phase = "failed"]
    /\ UNCHANGED <<via, data, read, kept, started, outside>>

\* Bug for the tests of the properties: an error just returns.
NoRevert(o) ==
    /\ via = "ubus" /\ op[o].phase = "failed"
    /\ op' = [op EXCEPT ![o] = Idle]
    /\ UNCHANGED <<via, conf, staged, data, read, kept, started, faults, outside>>

\* _revert_wireless_changes discards the whole delta, or fails and is logged.
\* Others' settings go with it: they are no longer alone.
Revert(o) ==
    /\ via = "ubus" /\ op[o].phase = "failed"
    /\ \/ staged' = <<>> /\ UNCHANGED <<faults, kept>>
       \/ /\ faults < MaxFaults
          /\ faults' = faults + 1
          /\ kept' = TRUE
          /\ UNCHANGED staged
    /\ op' = [op EXCEPT ![o] = Idle]
    /\ UNCHANGED <<via, conf, data, read, started, outside>>

\* A command of the line fails and the rest is not run: SSH reports it, over LuCI
\* the call succeeds and the switch shows what it asked for.
CommandFails(o) ==
    /\ via # "ubus" /\ op[o].phase = "staging" /\ HasTheTurn(o)
    /\ faults < MaxFaults
    /\ faults' = faults + 1
    /\ op' = [op EXCEPT ![o] =
                IF via = "luci" /\ ~@.lost THEN [@ EXCEPT !.phase = "committed"]
                ELSE Idle]
    /\ UNCHANGED <<via, conf, staged, data, read, kept, started, outside>>

\* The connection breaks or times out: the operation has failed for Home
\* Assistant, and the router goes on with its command line.
AnswerLost(o) ==
    /\ via # "ubus" /\ op[o].phase = "staging" /\ ~op[o].lost
    /\ faults < MaxFaults
    /\ faults' = faults + 1
    /\ op' = [op EXCEPT ![o].lost = TRUE]
    /\ UNCHANGED <<via, conf, staged, data, read, kept, started, outside>>

-----------------------------------------------------------------------------
(* What Home Assistant shows. *)

\* True comes back: the data shows the settings at once.
Acknowledge(o) ==
    /\ op[o].phase = "committed"
    /\ data' = Applied(data, op[o].wants) \cap Nets
    /\ op' = [op EXCEPT ![o] = Idle]
    /\ UNCHANGED <<via, conf, staged, read, kept, started, faults, outside>>

\* get_wireless_interfaces of a poll: uci answers with what is staged in the same
\* delta as well.
PollRead ==
    /\ read = {}
    /\ read' = {Applied(conf, staged) \cap Nets}
    /\ UNCHANGED <<via, conf, staged, data, op, kept, started, faults, outside>>

PollPublished ==
    /\ \E c \in read : data' = c
    /\ read' = {}
    /\ UNCHANGED <<via, conf, staged, op, kept, started, faults, outside>>

\* Somebody changes the configuration in LuCI or in a shell.
OutsideChange ==
    /\ outside < MaxOutside
    /\ outside' = outside + 1
    /\ \E s \in Sections :
        conf' = IF s \in conf THEN conf \ {s} ELSE conf \cup {s}
    /\ op' = Disturbed
    /\ UNCHANGED <<via, staged, data, read, kept, started, faults>>

Next ==
    \/ PollRead \/ PollPublished
    \/ OutsideChange
    \/ \E o \in Ops :
        \/ SwitchNet(o) \/ SwitchRadio(o) \/ SetPower(o)
        \/ Stage(o) \/ Commit(o) \/ Acknowledge(o)
        \/ CallFails(o) \/ Revert(o) \/ CommandFails(o) \/ AnswerLost(o)

Spec == Init /\ [][Next]_vars

-----------------------------------------------------------------------------
(* Properties. *)

\* "Set an SSID and its radio in one UCI transaction": whatever fails, an
\* operation that nothing else ran beside has changed all it was to change or
\* nothing.  (Beside another one the shared delta commits halves of both.)
OneTransaction ==
    \A o \in Ops : Running(o) /\ op[o].alone =>
        conf \in {op[o].before, Applied(op[o].before, op[o].wants)}

\* What is shown as done was done: at the acknowledgement of an undisturbed
\* operation a network that is on has its radio on, and switching one network off
\* takes no other enabled one off the air, if the data was right when it began.
\* Over LuCI nobody looks at the exit status.
DoneAsShown ==
    \A o \in Ops :
        op[o].phase = "committed" /\ op[o].alone /\ via # "luci" /\ op[o].kind = "net" =>
            LET n == (op[o].wants[IF Len(op[o].wants) = 1 THEN 1
                                  ELSE IF op[o].wants[1].on THEN 2 ELSE 1])
            IN  /\ n.on <=> n.section \in conf
                /\ n.on => Radio \in conf
                /\ ~n.on /\ op[o].fresh /\ Radio \in op[o].before =>
                    (Radio \in conf <=> conf \cap Nets # {})

\* A failed operation over ubus leaves nothing in the session's delta that the
\* next, unrelated operation would commit, unless its revert failed too.  (Over
\* SSH and LuCI nothing is reverted.)
NothingLeftStaged ==
    via = "ubus" /\ ~kept /\ (\A o \in Ops : ~Running(o)) => staged = <<>>

=============================================================================
