---------------------------- MODULE Switches_proofs ----------------------------
(***************************************************************************)
(* Proofs about what a user switches and what the router answers of it:    *)
(* the wireless settings, for any networks, operations, failures and       *)
(* changes by others; the switches of every other kind, whose requests are *)
(* a plan of effects; the internet access of a device; the firmware that   *)
(* is installed; and the online share of a line, for any margins.  The     *)
(* last section puts the five together.                                    *)
(***************************************************************************)
EXTENDS MC_Switches, SequenceTheorems, FiniteSetTheorems, WellFoundedInduction, TLAPS

Kind == {"net", "radio", "power"}

OpRecords == [phase : Phases, kind : Kind, wants : Seq(Settings), todo : Seq(Settings),
              lost : BOOLEAN, before : SUBSET Sections, alone : BOOLEAN, fresh : BOOLEAN]

\* Which operation can fail, and which can lose its answer, depends on the
\* transport.
WirelessTypes ==
    /\ via \in {"ubus", "luci", "ssh"}
    /\ conf \subseteq Sections
    /\ staged \in Seq(Settings)
    /\ op \in [Ops -> OpRecords]
    /\ \A o \in Ops : /\ op[o].phase = "failed" => via = "ubus"
                      /\ op[o].lost => via # "ubus"
                      /\ op[o].kind = "power" => op[o].todo = <<>> /\ op[o].wants = <<>>

\* What is staged over ubus was staged by an operation that is still to commit it
\* or to take it back.
StagedBySomebody ==
    via = "ubus" /\ ~kept /\ staged # <<>> =>
        \E o \in Ops : op[o].phase \in {"staging", "failed"} /\ op[o].kind # "power"

\* An operation that nothing else runs beside has staged exactly what it has done
\* of its settings, on top of the configuration it found.
AloneStages ==
    \A o \in Ops : Running(o) /\ op[o].alone =>
        /\ \A p \in Ops : Running(p) => p = o
        /\ op[o].phase = "staging" => conf = op[o].before /\ staged \o op[o].todo = op[o].wants

\* Whoever looks at the outcome of a commit has committed all there was.
AloneCommits ==
    \A o \in Ops :
        op[o].phase = "committed" /\ op[o].alone /\ via # "luci" /\ op[o].kind = "net" =>
            conf = Applied(op[o].before, op[o].wants)

\* The settings of a network's switch; last: it takes the radio down as well.
SettingsOf(n, on, last) ==
    IF on THEN <<On(Radio), On(n)>>
    ELSE IF last THEN <<Off(n), Off(Radio)>> ELSE <<Off(n)>>

\* The radio is taken down for the last network that the data shows, which are the
\* enabled ones if the data was right.
RightSettings ==
    \A o \in Ops : Running(o) /\ op[o].alone /\ op[o].kind = "net" =>
        \E n \in Nets, on \in BOOLEAN, last \in BOOLEAN :
            /\ op[o].wants = SettingsOf(n, on, last)
            /\ op[o].fresh => (last <=> op[o].before \cap Nets \subseteq {n})

WirelessIInv ==
    /\ WirelessTypes
    /\ StagedBySomebody
    /\ AloneStages
    /\ OneTransaction
    /\ AloneCommits
    /\ RightSettings

-----------------------------------------------------------------------------
(* The wireless settings: what an operation and its settings are.          *)

\* The operation that does nothing.
LEMMA WirelessIdle == Idle \in OpRecords /\ Idle.phase = "idle"
BY DEF Idle, OpRecords, Phases, Kind

\* What is known of an operation.
LEMMA WirelessShapes ==
    ASSUME WirelessTypes, NEW o \in Ops
    PROVE  /\ op[o] \in OpRecords
           /\ op[o].phase \in Phases /\ op[o].kind \in Kind
           /\ op[o].wants \in Seq(Settings) /\ op[o].todo \in Seq(Settings)
           /\ op[o].lost \in BOOLEAN /\ op[o].alone \in BOOLEAN
           /\ op[o].fresh \in BOOLEAN /\ op[o].before \subseteq Sections
BY DEF WirelessTypes, OpRecords

\* The start of every delta.
LEMMA NothingStaged == <<>> \in Seq(Settings)
OBVIOUS

\* The configuration stays one.
LEMMA AppliedType == \A c, s : Applied(c, s) \subseteq Sections
BY DEF Applied

\* An operation goes on and nobody else notices.
LEMMA WirelessGoesOn ==
    ASSUME WirelessTypes, NEW o \in Ops, NEW r \in OpRecords,
           op' = [op EXCEPT ![o] = r]
    PROVE  /\ op' \in [Ops -> OpRecords]
           /\ op'[o] = r
           /\ \A p \in Ops \ {o} : op'[p] = op[p]
BY DEF WirelessTypes

\* The new phase of an operation, what is left of it, or its lost answer.
LEMMA WirelessFields ==
    ASSUME NEW l \in OpRecords
    PROVE  /\ \A p \in Phases : LET r == [l EXCEPT !.phase = p] IN
                 /\ r \in OpRecords /\ r.phase = p
                 /\ r.kind = l.kind /\ r.wants = l.wants /\ r.todo = l.todo
                 /\ r.lost = l.lost /\ r.before = l.before /\ r.alone = l.alone
                 /\ r.fresh = l.fresh
           /\ \A t \in Seq(Settings) : LET r == [l EXCEPT !.todo = t] IN
                 /\ r \in OpRecords /\ r.todo = t
                 /\ r.phase = l.phase /\ r.kind = l.kind /\ r.wants = l.wants
                 /\ r.lost = l.lost /\ r.before = l.before /\ r.alone = l.alone
                 /\ r.fresh = l.fresh
           /\ \A b \in BOOLEAN : LET r == [l EXCEPT !.lost = b] IN
                 /\ r \in OpRecords /\ r.lost = b
                 /\ r.phase = l.phase /\ r.kind = l.kind /\ r.wants = l.wants
                 /\ r.todo = l.todo /\ r.before = l.before /\ r.alone = l.alone
                 /\ r.fresh = l.fresh
BY DEF OpRecords

\* After a change that others notice no operation is alone; nothing else of them
\* changes.
LEMMA WirelessDisturbed ==
    ASSUME WirelessTypes, NEW o \in Ops
    PROVE  /\ Disturbed \in [Ops -> OpRecords]
           /\ Disturbed[o].alone = FALSE
           /\ Disturbed[o].phase = op[o].phase /\ Disturbed[o].kind = op[o].kind
           /\ Disturbed[o].wants = op[o].wants /\ Disturbed[o].todo = op[o].todo
           /\ Disturbed[o].lost = op[o].lost
<1>1. ASSUME NEW p \in Ops
      PROVE  /\ Disturbed[p] \in OpRecords
             /\ Disturbed[p].alone = FALSE
             /\ Disturbed[p].phase = op[p].phase /\ Disturbed[p].kind = op[p].kind
             /\ Disturbed[p].wants = op[p].wants /\ Disturbed[p].todo = op[p].todo
             /\ Disturbed[p].lost = op[p].lost
  <2> DEFINE r == op[p]
             r1 == [r EXCEPT !.alone = FALSE]
             r2 == [r1 EXCEPT !.before = {}]
             r3 == [r2 EXCEPT !.fresh = FALSE]
  <2>1. Disturbed[p] = r3
    BY DEF Disturbed
  <2>2. r \in OpRecords
    BY WirelessShapes
  <2> HIDE DEF r
  <2>3. r1 \in OpRecords /\ r1.alone = FALSE /\ r1.phase = r.phase /\ r1.kind = r.kind
        /\ r1.wants = r.wants /\ r1.todo = r.todo /\ r1.lost = r.lost
    BY <2>2 DEF OpRecords
  <2> HIDE DEF r1
  <2>4. r2 \in OpRecords /\ r2.alone = r1.alone /\ r2.phase = r1.phase
        /\ r2.kind = r1.kind /\ r2.wants = r1.wants /\ r2.todo = r1.todo
        /\ r2.lost = r1.lost
    BY <2>3 DEF OpRecords
  <2> HIDE DEF r2
  <2>5. r3 \in OpRecords /\ r3.alone = r2.alone /\ r3.phase = r2.phase
        /\ r3.kind = r2.kind /\ r3.wants = r2.wants /\ r3.todo = r2.todo
        /\ r3.lost = r2.lost
    BY <2>4 DEF OpRecords
  <2> HIDE DEF r3
  <2> QED
    BY <2>1, <2>3, <2>4, <2>5 DEF r
<1>2. Disturbed \in [Ops -> OpRecords]
  BY <1>1 DEF Disturbed
<1> QED
  BY <1>1, <1>2

-----------------------------------------------------------------------------
(* The steps of an operation. *)

\* What a step of a running operation has to show: whoever else runs is not alone.
LEMMA WirelessStep ==
    ASSUME WirelessIInv, NEW o \in Ops, Running(o), NEW r \in OpRecords,
           op' = [op EXCEPT ![o] = r],
           via' = via, conf' \subseteq Sections, staged' \in Seq(Settings),
           r.phase = "failed" => via = "ubus",
           r.lost => via # "ubus",
           r.kind = "power" => r.todo = <<>> /\ r.wants = <<>>,
           via = "ubus" /\ ~kept' /\ staged' # <<>> =>
               \/ r.phase \in {"staging", "failed"} /\ r.kind # "power"
               \/ /\ ~kept /\ staged # <<>>
                  /\ ~(op[o].phase \in {"staging", "failed"} /\ op[o].kind # "power"),
           r.phase # "idle" /\ r.alone =>
               /\ op[o].alone /\ r.kind = op[o].kind /\ r.wants = op[o].wants
               /\ r.before = op[o].before /\ r.fresh = op[o].fresh
               /\ r.phase = "staging" => conf' = r.before /\ staged' \o r.todo = r.wants
               /\ conf' \in {r.before, Applied(r.before, r.wants)}
               /\ r.phase = "committed" /\ via # "luci" /\ r.kind = "net" =>
                     conf' = Applied(r.before, r.wants)
    PROVE  WirelessIInv'
<1>1. /\ op' \in [Ops -> OpRecords]
      /\ op'[o] = r
      /\ \A p \in Ops \ {o} : op'[p] = op[p]
  BY WirelessGoesOn DEF WirelessIInv
<1>2. WirelessTypes'
  <2>1. \A p \in Ops : /\ op'[p].phase = "failed" => via = "ubus"
                       /\ op'[p].lost => via # "ubus"
                       /\ op'[p].kind = "power" => op'[p].todo = <<>> /\ op'[p].wants = <<>>
    BY <1>1 DEF WirelessIInv, WirelessTypes
  <2> QED
    BY <1>1, <2>1 DEF WirelessIInv, WirelessTypes
<1>3. StagedBySomebody'
  BY <1>1 DEF WirelessIInv, StagedBySomebody
<1>4. \A p \in Ops : op'[p].phase # "idle" /\ op'[p].alone => p = o
  BY <1>1 DEF WirelessIInv, AloneStages, Running
<1>5. r.phase # "idle" /\ r.alone => \A p \in Ops : op'[p].phase # "idle" => p = o
  BY <1>1 DEF WirelessIInv, AloneStages, Running
<1>6. AloneStages'
  BY <1>1, <1>4, <1>5 DEF AloneStages, Running
<1>7. OneTransaction'
  BY <1>1, <1>4 DEF OneTransaction, Running
<1>8. AloneCommits'
  BY <1>1, <1>4 DEF AloneCommits
<1>9. RightSettings'
  <2> SUFFICES ASSUME r.phase # "idle", r.alone, r.kind = "net"
               PROVE  \E n \in Nets, on \in BOOLEAN, last \in BOOLEAN :
                          /\ r.wants = SettingsOf(n, on, last)
                          /\ r.fresh => (last <=> r.before \cap Nets \subseteq {n})
    BY <1>1, <1>4 DEF RightSettings, Running
  <2> QED
    BY DEF WirelessIInv, RightSettings
<1> QED
  BY <1>2, <1>3, <1>6, <1>7, <1>8, <1>9 DEF WirelessIInv

\* One more setting goes from what is to be done to what is staged.
LEMMA HeadStaged ==
    ASSUME NEW S, NEW s \in Seq(S), NEW t \in Seq(S), t # <<>>
    PROVE  /\ Head(t) \in S /\ Tail(t) \in Seq(S)
           /\ Append(s, Head(t)) \in Seq(S)
           /\ Append(s, Head(t)) \o Tail(t) = s \o t
<1>1. Head(t) \in S /\ Tail(t) \in Seq(S) /\ Append(s, Head(t)) \in Seq(S)
  OBVIOUS
<1>2. Len(Append(s, Head(t)) \o Tail(t)) = Len(s \o t)
  BY <1>1
<1>3. \A i \in 1..Len(s \o t) : (Append(s, Head(t)) \o Tail(t))[i] = (s \o t)[i]
  BY <1>1
<1> QED
  BY <1>1, <1>2, <1>3

\* One setting more, over LuCI and ubus or by a command.
LEMMA StageStep ==
    ASSUME WirelessIInv, NEW o \in Ops, Stage(o)
    PROVE  WirelessIInv'
<1> DEFINE l == op[o]
           rest == Tail(l.todo)
           r == [l EXCEPT !.todo = rest]
<1>1. /\ l \in OpRecords /\ l.todo \in Seq(Settings) /\ staged \in Seq(Settings)
      /\ conf \subseteq Sections
  BY WirelessShapes DEF WirelessIInv, WirelessTypes
<1>2. l.phase = "staging" /\ l.todo # <<>>
  BY DEF Stage
<1>3. /\ rest \in Seq(Settings)
      /\ Append(staged, Head(l.todo)) \in Seq(Settings)
      /\ Append(staged, Head(l.todo)) \o rest = staged \o l.todo
  BY <1>1, <1>2, HeadStaged
<1>4. op' = [op EXCEPT ![o] = r] /\ staged' = Append(staged, Head(l.todo))
      /\ UNCHANGED <<via, conf, kept>>
  BY DEF Stage
<1> HIDE DEF rest
<1>5. /\ r \in OpRecords /\ r.phase = l.phase /\ r.kind = l.kind /\ r.wants = l.wants
      /\ r.todo = rest /\ r.lost = l.lost /\ r.before = l.before
      /\ r.alone = l.alone /\ r.fresh = l.fresh
  BY <1>1, <1>3, WirelessFields
<1>6. /\ l.kind # "power" /\ (l.lost => via # "ubus")
      /\ l.alone => conf = l.before /\ staged \o l.todo = l.wants
  BY <1>2 DEF WirelessIInv, WirelessTypes, AloneStages, Running
<1> HIDE DEF l, r
<1> QED
  BY <1>1, <1>2, <1>3, <1>4, <1>5, <1>6, WirelessStep DEF Running, l

\* The commit: of the whole delta, or only of what ubus holds.
LEMMA CommitStep ==
    ASSUME WirelessIInv, NEW o \in Ops, Commit(o)
    PROVE  WirelessIInv'
<1> DEFINE l == op[o]
           r == [l EXCEPT !.phase = "committed"]
<1>1. /\ l \in OpRecords /\ l.lost \in BOOLEAN /\ staged \in Seq(Settings)
      /\ conf \subseteq Sections
  BY WirelessShapes DEF WirelessIInv, WirelessTypes
<1>2. l.phase = "staging" /\ l.todo = <<>>
  BY DEF Commit
<1>3. /\ r \in OpRecords /\ r.phase = "committed" /\ r.kind = l.kind /\ r.wants = l.wants
      /\ r.todo = l.todo /\ r.lost = l.lost /\ r.before = l.before
      /\ r.alone = l.alone /\ r.fresh = l.fresh
  BY <1>1, WirelessFields DEF Phases
<1>4. op' = [op EXCEPT ![o] = IF l.lost THEN Idle ELSE r] /\ UNCHANGED <<via, kept>>
  BY DEF Commit, AfterCommit
<1>5. \/ l.kind = "power" /\ via = "ubus" /\ UNCHANGED <<conf, staged>>
      \/ conf' = Applied(conf, staged) /\ staged' = <<>>
  BY DEF Commit, OwnDelta
<1>6. /\ (l.lost => via # "ubus")
      /\ l.kind = "power" => l.wants = <<>>
      /\ l.alone => conf = l.before /\ staged \o l.todo = l.wants
  BY <1>2 DEF WirelessIInv, WirelessTypes, AloneStages, Running
<1>7. l.alone => conf = l.before /\ staged = l.wants
  BY <1>1, <1>2, <1>6
<1>8. conf' \subseteq Sections /\ staged' \in Seq(Settings)
  <2>1. conf' \subseteq Sections
    BY <1>1, <1>5, AppliedType
  <2>2. staged' \in Seq(Settings)
    BY <1>1, <1>5, NothingStaged
  <2> QED
    BY <2>1, <2>2
<1> HIDE DEF l, r
<1>9. CASE l.lost
  BY <1>2, <1>4, <1>5, <1>6, <1>8, <1>9, WirelessStep, WirelessIdle DEF Running, l, Idle
<1>10. CASE ~l.lost
  BY <1>2, <1>3, <1>4, <1>5, <1>6, <1>7, <1>8, <1>10, WirelessStep DEF Running, l
<1> QED
  BY <1>9, <1>10

\* A call over ubus that fails, before or after its effect.
LEMMA CallFailsStep ==
    ASSUME WirelessIInv, NEW o \in Ops, CallFails(o)
    PROVE  WirelessIInv'
<1> DEFINE l == op[o]
           r == [l EXCEPT !.phase = "failed"]
<1>1. /\ l \in OpRecords /\ l.lost \in BOOLEAN /\ staged \in Seq(Settings)
      /\ l.todo \in Seq(Settings) /\ conf \subseteq Sections
  BY WirelessShapes DEF WirelessIInv, WirelessTypes
<1>2. l.phase = "staging" /\ l.kind # "power" /\ via = "ubus"
  BY DEF CallFails
<1>3. /\ r \in OpRecords /\ r.phase = "failed" /\ r.kind = l.kind /\ r.wants = l.wants
      /\ r.todo = l.todo /\ r.lost = l.lost /\ r.before = l.before
      /\ r.alone = l.alone /\ r.fresh = l.fresh
  BY <1>1, WirelessFields DEF Phases
<1>4. op' = [op EXCEPT ![o] = r] /\ UNCHANGED <<via, kept>>
  BY DEF CallFails
<1>5. \/ UNCHANGED <<conf, staged>>
      \/ l.todo # <<>> /\ staged' = Append(staged, Head(l.todo)) /\ UNCHANGED conf
      \/ l.todo = <<>> /\ conf' = Applied(conf, staged) /\ staged' = <<>>
  BY DEF CallFails
<1>6. /\ (l.lost => via # "ubus")
      /\ l.alone => conf = l.before /\ staged \o l.todo = l.wants
  BY <1>2 DEF WirelessIInv, WirelessTypes, AloneStages, Running
<1>7. l.alone /\ l.todo = <<>> => staged = l.wants
  BY <1>1, <1>6
<1>8. conf' \subseteq Sections /\ staged' \in Seq(Settings)
  <2>1. conf' \subseteq Sections
    BY <1>1, <1>5, AppliedType
  <2>2. l.todo # <<>> => Append(staged, Head(l.todo)) \in Seq(Settings)
    BY <1>1, HeadStaged
  <2>3. staged' \in Seq(Settings)
    BY <1>1, <1>5, <2>2, NothingStaged
  <2> QED
    BY <2>1, <2>3
<1>9. l.alone => conf' \in {l.before, Applied(l.before, l.wants)}
  BY <1>5, <1>6, <1>7
<1> HIDE DEF l, r
<1> QED
  BY <1>2, <1>3, <1>4, <1>6, <1>8, <1>9, WirelessStep DEF Running, l

\* What is staged is taken back, or kept on the router when that fails too.
LEMMA RevertStep ==
    ASSUME WirelessIInv, NEW o \in Ops, Revert(o)
    PROVE  WirelessIInv'
<1>1. /\ op[o].phase = "failed" /\ op' = [op EXCEPT ![o] = Idle]
      /\ UNCHANGED <<via, conf>>
      /\ staged' = <<>> \/ (kept' = TRUE /\ UNCHANGED staged)
  BY DEF Revert
<1>2. conf' \subseteq Sections /\ staged' \in Seq(Settings)
  BY <1>1, NothingStaged DEF WirelessIInv, WirelessTypes
<1> QED
  BY <1>1, <1>2, WirelessStep, WirelessIdle DEF Running, Idle

\* A command that fails ends the operation; what was staged stays.
LEMMA CommandFailsStep ==
    ASSUME WirelessIInv, NEW o \in Ops, CommandFails(o)
    PROVE  WirelessIInv'
<1> DEFINE l == op[o]
           r == [l EXCEPT !.phase = "committed"]
<1>1. /\ l \in OpRecords /\ l.lost \in BOOLEAN /\ staged \in Seq(Settings)
      /\ l.todo \in Seq(Settings) /\ conf \subseteq Sections
  BY WirelessShapes DEF WirelessIInv, WirelessTypes
<1>2. l.phase = "staging" /\ via # "ubus"
  BY DEF CommandFails
<1>3. /\ r \in OpRecords /\ r.phase = "committed" /\ r.kind = l.kind /\ r.wants = l.wants
      /\ r.todo = l.todo /\ r.lost = l.lost /\ r.before = l.before
      /\ r.alone = l.alone /\ r.fresh = l.fresh
  BY <1>1, WirelessFields DEF Phases
<1>4. /\ op' = [op EXCEPT ![o] = IF via = "luci" /\ ~l.lost THEN r ELSE Idle]
      /\ UNCHANGED <<via, conf, staged, kept>>
  BY DEF CommandFails
<1>5. /\ l.alone => conf = l.before
      /\ l.kind = "power" => l.todo = <<>> /\ l.wants = <<>>
  BY <1>2 DEF WirelessIInv, WirelessTypes, AloneStages, Running
<1> HIDE DEF l, r
<1>6. CASE via = "luci" /\ ~l.lost
  BY <1>1, <1>2, <1>3, <1>4, <1>5, <1>6, WirelessStep DEF Running, l
<1>7. CASE ~(via = "luci" /\ ~l.lost)
  BY <1>1, <1>2, <1>4, <1>7, WirelessStep, WirelessIdle DEF Running, l, Idle
<1> QED
  BY <1>6, <1>7

\* The operation goes on without the answer and ends as a failed one.
LEMMA AnswerLostStep ==
    ASSUME WirelessIInv, NEW o \in Ops, AnswerLost(o)
    PROVE  WirelessIInv'
<1> DEFINE l == op[o]
           yes == TRUE
           r == [l EXCEPT !.lost = yes]
<1>1. /\ l \in OpRecords /\ l.lost \in BOOLEAN /\ staged \in Seq(Settings)
      /\ l.todo \in Seq(Settings) /\ conf \subseteq Sections /\ yes \in BOOLEAN
  BY WirelessShapes DEF WirelessIInv, WirelessTypes
<1>2. l.phase = "staging" /\ via # "ubus"
  BY DEF AnswerLost
<1>3. /\ op' = [op EXCEPT ![o] = r] /\ UNCHANGED <<via, conf, staged, kept>>
  BY DEF AnswerLost
<1> HIDE DEF yes
<1>4. /\ r \in OpRecords /\ r.phase = l.phase /\ r.kind = l.kind /\ r.wants = l.wants
      /\ r.todo = l.todo /\ r.before = l.before
      /\ r.alone = l.alone /\ r.fresh = l.fresh
  BY <1>1, WirelessFields
<1>5. /\ l.alone => conf = l.before /\ staged \o l.todo = l.wants
      /\ l.kind = "power" => l.todo = <<>> /\ l.wants = <<>>
  BY <1>2 DEF WirelessIInv, WirelessTypes, AloneStages, Running
<1> HIDE DEF l, r
<1> QED
  BY <1>1, <1>2, <1>3, <1>4, <1>5, WirelessStep DEF Running, l

\* The end of an operation: it is shown as done, or not.
LEMMA WirelessAcknowledgeStep ==
    ASSUME WirelessIInv, NEW o \in Ops, Acknowledge(o)
    PROVE  WirelessIInv'
<1>1. /\ op[o].phase = "committed" /\ op' = [op EXCEPT ![o] = Idle]
      /\ UNCHANGED <<via, conf, staged, kept>>
  BY DEF Acknowledge
<1>2. conf' \subseteq Sections /\ staged' \in Seq(Settings)
  BY <1>1 DEF WirelessIInv, WirelessTypes
<1> QED
  BY <1>1, <1>2, WirelessStep, WirelessIdle DEF Running, Idle

-----------------------------------------------------------------------------
(* A new operation, and changes by others. *)

\* An operation that begins is alone if no other runs and nothing is staged; the
\* others, if any, are not alone any more.
LEMMA WirelessBegins ==
    ASSUME WirelessIInv, NEW o \in Ops, NEW k \in Kind, NEW settings \in Seq(Settings),
           Begin(o, k, settings),
           k = "power" => settings = <<>>,
           k = "net" => \E n \in Nets, on \in BOOLEAN, last \in BOOLEAN :
                            /\ settings = SettingsOf(n, on, last)
                            /\ last <=> data \subseteq {n},
           data \subseteq Nets
    PROVE  WirelessIInv'
<1> DEFINE alone == staged = <<>> /\ \A p \in Ops : ~Running(p)
           before == IF alone THEN conf ELSE {}
           right == alone /\ data = conf \cap Nets
           r == [phase |-> "staging", kind |-> k, wants |-> settings, todo |-> settings,
                 lost |-> FALSE, alone |-> alone, before |-> before, fresh |-> right]
<1>1. /\ ~Running(o) /\ op' = [Disturbed EXCEPT ![o] = r]
      /\ UNCHANGED <<via, conf, staged, data, kept>>
  BY DEF Begin
<1>2. WirelessTypes
  BY DEF WirelessIInv
<1>3. r \in OpRecords
  <2>1. alone \in BOOLEAN /\ right \in BOOLEAN
    BY Zenon
  <2>2. before \subseteq Sections /\ "staging" \in Phases
    BY <1>2 DEF WirelessTypes, Phases
  <2>3. FALSE \in BOOLEAN
    OBVIOUS
  <2> HIDE DEF alone, before, right
  <2> QED
    BY <2>1, <2>2, <2>3 DEF OpRecords
<1>4. /\ r.phase = "staging" /\ r.kind = k /\ r.wants = settings /\ r.todo = settings
      /\ r.lost = FALSE /\ r.before = before /\ (r.alone <=> alone)
      /\ (r.fresh <=> right)
  OBVIOUS
<1>5. Disturbed \in [Ops -> OpRecords]
  BY <1>2, WirelessDisturbed
<1> HIDE DEF r
<1>6. op' \in [Ops -> OpRecords] /\ op'[o] = r
  BY <1>1, <1>3, <1>5
<1>7. ASSUME NEW p \in Ops, p # o
      PROVE  /\ op'[p].alone = FALSE /\ op'[p].phase = op[p].phase
             /\ op'[p].kind = op[p].kind /\ op'[p].wants = op[p].wants
             /\ op'[p].todo = op[p].todo /\ op'[p].lost = op[p].lost
  BY <1>1, <1>2, <1>5, <1>7, WirelessDisturbed
<1> HIDE DEF alone, before, right
<1>8. WirelessTypes'
  <2>1. \A p \in Ops : /\ op'[p].phase = "failed" => via = "ubus"
                       /\ op'[p].lost => via # "ubus"
                       /\ op'[p].kind = "power" => op'[p].todo = <<>> /\ op'[p].wants = <<>>
    <3> SUFFICES ASSUME NEW p \in Ops
                 PROVE  /\ op'[p].phase = "failed" => via = "ubus"
                        /\ op'[p].lost => via # "ubus"
                        /\ op'[p].kind = "power" =>
                              op'[p].todo = <<>> /\ op'[p].wants = <<>>
      OBVIOUS
    <3>1. CASE p = o
      BY <1>2, <1>4, <1>6, <3>1
    <3>2. CASE p # o
      BY <1>2, <1>7, <3>2 DEF WirelessTypes
    <3> QED
      BY <3>1, <3>2
  <2> QED
    BY <1>1, <1>2, <1>6, <2>1 DEF WirelessTypes
<1>9. StagedBySomebody'
  BY <1>1, <1>7 DEF WirelessIInv, StagedBySomebody, Running
<1>10. \A p \in Ops : op'[p].phase # "idle" /\ op'[p].alone => p = o /\ alone
  BY <1>4, <1>6, <1>7
<1>11. alone => /\ before = conf /\ staged = <<>>
                /\ \A p \in Ops : op'[p].phase # "idle" => p = o
                /\ right => data = conf \cap Nets
  BY <1>7 DEF alone, before, right, Running
<1>12. AloneStages'
  <2>1. staged = <<>> => staged \o settings = settings
    OBVIOUS
  <2> QED
    BY <1>1, <1>4, <1>6, <1>10, <1>11, <2>1 DEF AloneStages, Running
<1>13. OneTransaction' /\ AloneCommits'
  BY <1>1, <1>4, <1>6, <1>10, <1>11 DEF OneTransaction, AloneCommits, Running
<1>14. RightSettings'
  <2> SUFFICES ASSUME alone, k = "net"
               PROVE  \E n \in Nets, on \in BOOLEAN, last \in BOOLEAN :
                          /\ r.wants = SettingsOf(n, on, last)
                          /\ r.fresh => (last <=> r.before \cap Nets \subseteq {n})
    BY <1>4, <1>6, <1>10 DEF RightSettings, Running
  <2>1. PICK n \in Nets, on \in BOOLEAN, last \in BOOLEAN :
            settings = SettingsOf(n, on, last) /\ (last <=> data \subseteq {n})
    OBVIOUS
  <2>2. r.fresh => (last <=> r.before \cap Nets \subseteq {n})
    BY <1>4, <1>11, <2>1
  <2> QED
    BY <1>4, <2>1, <2>2
<1> QED
  BY <1>8, <1>9, <1>12, <1>13, <1>14 DEF WirelessIInv

\* Somebody else saves a configuration: nobody is alone any more.
LEMMA OutsideChangeStep ==
    ASSUME WirelessIInv, OutsideChange
    PROVE  WirelessIInv'
<1>1. /\ op' = Disturbed /\ UNCHANGED <<via, staged, kept>>
      /\ conf' \subseteq Sections
  BY DEF OutsideChange, WirelessIInv, WirelessTypes
<1>2. /\ op' \in [Ops -> OpRecords]
      /\ \A o \in Ops :
            /\ op'[o].alone = FALSE /\ op'[o].phase = op[o].phase
            /\ op'[o].kind = op[o].kind /\ op'[o].wants = op[o].wants
            /\ op'[o].todo = op[o].todo /\ op'[o].lost = op[o].lost
  <2>1. ASSUME NEW o \in Ops
        PROVE  /\ op' \in [Ops -> OpRecords]
               /\ op'[o].alone = FALSE /\ op'[o].phase = op[o].phase
               /\ op'[o].kind = op[o].kind /\ op'[o].wants = op[o].wants
               /\ op'[o].todo = op[o].todo /\ op'[o].lost = op[o].lost
    BY <1>1, WirelessDisturbed DEF WirelessIInv
  <2>2. CASE Ops = {}
    BY <1>1, <2>2 DEF Disturbed
  <2> QED
    BY <2>1, <2>2
<1>3. WirelessTypes'
  BY <1>1, <1>2 DEF WirelessIInv, WirelessTypes
<1>4. StagedBySomebody'
  BY <1>1, <1>2 DEF WirelessIInv, StagedBySomebody
<1>5. AloneStages' /\ OneTransaction' /\ AloneCommits' /\ RightSettings'
  BY <1>2 DEF AloneStages, OneTransaction, AloneCommits, RightSettings
<1> QED
  BY <1>3, <1>4, <1>5 DEF WirelessIInv

\* Polls only change what is shown, to networks of the radio.
WirelessData == data \subseteq Nets /\ \A c \in read : c \subseteq Nets

\* Nothing is staged and nothing runs at the start.
LEMMA WirelessInitIInv == Init => WirelessIInv /\ WirelessData
<1> SUFFICES ASSUME Init PROVE WirelessIInv /\ WirelessData
  OBVIOUS
<1>1. \A o \in Ops : op[o] = Idle
  BY DEF Init
<1>2. op \in [Ops -> OpRecords]
  BY WirelessIdle DEF Init
<1>3. WirelessTypes
  BY <1>1, <1>2, WirelessConstants, NothingStaged DEF Init, WirelessTypes, Idle
<1>4. /\ StagedBySomebody /\ AloneStages /\ OneTransaction /\ AloneCommits
      /\ RightSettings
  BY <1>1, WirelessIdle
     DEF Init, StagedBySomebody, AloneStages, OneTransaction, AloneCommits,
         RightSettings, Running
<1> QED
  BY <1>3, <1>4 DEF WirelessIInv, WirelessData, Init

\* The switches and the power of a radio begin with the settings of their code.
LEMMA SwitchStep ==
    ASSUME WirelessIInv, WirelessData, NEW o \in Ops,
           SwitchNet(o) \/ SwitchRadio(o) \/ SetPower(o)
    PROVE  WirelessIInv'
<1>1. \A s \in Sections : On(s) \in Settings /\ Off(s) \in Settings
  BY DEF On, Off, Settings
<1>2. data \subseteq Nets
  BY DEF WirelessData
<1>3. CASE SwitchNet(o)
  <2>1. PICK n \in Nets, on \in BOOLEAN : Begin(o, "net", NetSettings(n, on))
    BY <1>3 DEF SwitchNet
  <2>2. LastOne(n) <=> data \subseteq {n}
    BY <1>2 DEF LastOne
  <2> DEFINE last == LastOne(n)
             settings == NetSettings(n, on)
  <2>3. last \in BOOLEAN
    BY DEF LastOne
  <2>4. settings = SettingsOf(n, on, last)
    BY DEF NetSettings, SettingsOf
  <2>5. settings \in Seq(Settings)
    <3>1. \A x, y \in Settings : <<x>> \in Seq(Settings) /\ <<x, y>> \in Seq(Settings)
      OBVIOUS
    <3>2. n \in Sections /\ Radio \in Sections
      BY DEF Sections
    <3>3. settings \in {<<On(Radio), On(n)>>, <<Off(n), Off(Radio)>>, <<Off(n)>>}
      BY DEF NetSettings
    <3> HIDE DEF settings
    <3> QED
      BY <1>1, <3>1, <3>2, <3>3
  <2> HIDE DEF last, settings
  <2> QED
    BY <1>2, <2>1, <2>2, <2>3, <2>4, <2>5, WirelessBegins DEF Kind, last, settings
<1>4. CASE SwitchRadio(o)
  <2>1. PICK on \in BOOLEAN :
            Begin(o, "radio", IF on THEN <<On(Radio)>> ELSE <<Off(Radio)>>)
    BY <1>4 DEF SwitchRadio
  <2> DEFINE settings == IF on THEN <<On(Radio)>> ELSE <<Off(Radio)>>
  <2>2. settings \in Seq(Settings)
    BY <1>1 DEF Sections
  <2> HIDE DEF settings
  <2> QED
    BY <1>2, <2>1, <2>2, WirelessBegins DEF Kind, settings
<1>5. CASE SetPower(o)
  <2> DEFINE settings == <<>>
  <2>1. settings \in Seq(Settings)
    BY NothingStaged
  <2>2. Begin(o, "power", settings) /\ settings = <<>>
    BY <1>5 DEF SetPower
  <2> HIDE DEF settings
  <2> QED
    BY <1>2, <2>1, <2>2, WirelessBegins DEF Kind
<1> QED
  BY <1>3, <1>4, <1>5

\* The data stays a set of networks.
LEMMA WirelessDataStep ==
    WirelessIInv /\ WirelessData /\ [Next]_vars => WirelessData'
<1> SUFFICES ASSUME WirelessIInv, WirelessData, [Next]_vars PROVE WirelessData'
  OBVIOUS
<1> USE DEF WirelessData
<1>1. CASE PollRead
  BY <1>1 DEF PollRead
<1>2. CASE PollPublished
  BY <1>2 DEF PollPublished
<1>3. CASE OutsideChange \/ UNCHANGED vars
  BY <1>3 DEF OutsideChange, vars
<1>4. ASSUME NEW o \in Ops, SwitchNet(o) \/ SwitchRadio(o) \/ SetPower(o)
      PROVE  WirelessData'
  BY <1>4 DEF SwitchNet, SwitchRadio, SetPower, Begin
<1>5. ASSUME NEW o \in Ops,
             \/ Stage(o) \/ Commit(o) \/ CallFails(o) \/ Revert(o)
             \/ CommandFails(o) \/ AnswerLost(o)
      PROVE  WirelessData'
  BY <1>5 DEF Stage, Commit, CallFails, Revert, CommandFails, AnswerLost
<1>6. ASSUME NEW o \in Ops, Acknowledge(o)
      PROVE  WirelessData'
  BY <1>6 DEF Acknowledge
<1> QED
  BY <1>1, <1>2, <1>3, <1>4, <1>5, <1>6 DEF Next

\* Every step keeps the invariant.
LEMMA WirelessNextIInv ==
    WirelessIInv /\ WirelessData /\ [Next]_vars => WirelessIInv' /\ WirelessData'
<1> SUFFICES ASSUME WirelessIInv, WirelessData, [Next]_vars PROVE WirelessIInv'
  BY WirelessDataStep
<1>1. CASE PollRead \/ PollPublished \/ UNCHANGED vars
  <2>1. UNCHANGED <<via, conf, staged, op, kept>>
    BY <1>1 DEF PollRead, PollPublished, vars
  <2>2. WirelessTypes'
    BY <2>1 DEF WirelessIInv, WirelessTypes
  <2> QED
    BY <2>1, <2>2
       DEF WirelessIInv, StagedBySomebody, AloneStages, OneTransaction,
           AloneCommits, RightSettings, Running
<1>2. CASE OutsideChange
  BY <1>2, OutsideChangeStep
<1>3. ASSUME NEW o \in Ops, SwitchNet(o) \/ SwitchRadio(o) \/ SetPower(o)
      PROVE  WirelessIInv'
  BY <1>3, SwitchStep
<1>4. ASSUME NEW o \in Ops,
             \/ Stage(o) \/ Commit(o) \/ Acknowledge(o) \/ CallFails(o) \/ Revert(o)
             \/ CommandFails(o) \/ AnswerLost(o)
      PROVE  WirelessIInv'
  BY <1>4, StageStep, CommitStep, WirelessAcknowledgeStep, CallFailsStep, RevertStep,
     CommandFailsStep, AnswerLostStep
<1> QED
  BY <1>1, <1>2, <1>3, <1>4 DEF Next

-----------------------------------------------------------------------------
(* What an undisturbed operation leaves. *)

\* What the settings of a network's switch make of a configuration.
LEMMA AppliedSettings ==
    ASSUME NEW c \in SUBSET Sections, NEW n \in Nets, NEW on \in BOOLEAN,
           NEW last \in BOOLEAN
    PROVE  Applied(c, SettingsOf(n, on, last)) =
               IF on THEN c \cup {n, Radio}
               ELSE IF last THEN c \ {n, Radio} ELSE c \ {n}
<1> USE DEF Applied, SettingsOf, On, Off
<1>1. n \in Sections /\ Radio \in Sections /\ n # Radio
  BY WirelessConstants DEF Sections
<1>2. ASSUME NEW i \in Nat PROVE Max({i}) = i
  BY DEF Max
<1>3. ASSUME NEW settings, NEW x, NEW y, NEW s \in Sections, x.section # y.section,
             settings = <<x, y>>
      PROVE  s \in Applied(c, settings) <=>
                 IF s = x.section THEN x.on ELSE IF s = y.section THEN y.on ELSE s \in c
  <2> DEFINE those == {i \in DOMAIN settings : settings[i].section = s}
  <2>1. DOMAIN settings = {1, 2} /\ settings[1] = x /\ settings[2] = y
    BY <1>3
  <2>2. those = IF s = x.section THEN {1} ELSE IF s = y.section THEN {2} ELSE {}
    BY <1>3, <2>1
  <2>3. s \in Applied(c, settings) <=>
            IF those = {} THEN s \in c ELSE settings[Max(those)].on
    OBVIOUS
  <2> HIDE DEF those, Applied
  <2> QED
    BY <1>2, <2>1, <2>2, <2>3
<1>4. ASSUME NEW settings, NEW x, NEW s \in Sections, settings = <<x>>
      PROVE  s \in Applied(c, settings) <=> IF s = x.section THEN x.on ELSE s \in c
  <2> DEFINE those == {i \in DOMAIN settings : settings[i].section = s}
  <2>1. DOMAIN settings = {1} /\ settings[1] = x
    BY <1>4
  <2>2. those = IF s = x.section THEN {1} ELSE {}
    BY <1>4, <2>1
  <2>3. s \in Applied(c, settings) <=>
            IF those = {} THEN s \in c ELSE settings[Max(those)].on
    OBVIOUS
  <2> HIDE DEF those, Applied
  <2> QED
    BY <1>2, <2>1, <2>2, <2>3
<1>5. \A settings : Applied(c, settings) \subseteq Sections
  OBVIOUS
<1> HIDE DEF Applied
<1>6. CASE on
  BY <1>1, <1>3, <1>5, <1>6
<1>7. CASE ~on /\ last
  BY <1>1, <1>3, <1>5, <1>7
<1>8. CASE ~on /\ ~last
  BY <1>1, <1>4, <1>5, <1>8
<1> QED
  BY <1>6, <1>7, <1>8

\* The invariant says what the switch of a network may show as done.
LEMMA WirelessDone == WirelessIInv => DoneAsShown
<1> SUFFICES ASSUME WirelessIInv, NEW o \in Ops,
                    op[o].phase = "committed", op[o].alone, via # "luci",
                    op[o].kind = "net"
             PROVE  LET n == op[o].wants[IF Len(op[o].wants) = 1 THEN 1
                                         ELSE IF op[o].wants[1].on THEN 2 ELSE 1]
                    IN  /\ n.on <=> n.section \in conf
                        /\ n.on => Radio \in conf
                        /\ ~n.on /\ op[o].fresh /\ Radio \in op[o].before =>
                            (Radio \in conf <=> conf \cap Nets # {})
  BY DEF DoneAsShown
<1> DEFINE wants == op[o].wants
           before == op[o].before
           s == wants[IF Len(wants) = 1 THEN 1 ELSE IF wants[1].on THEN 2 ELSE 1]
<1>1. PICK n \in Nets, on \in BOOLEAN, last \in BOOLEAN :
          /\ wants = SettingsOf(n, on, last)
          /\ op[o].fresh => (last <=> before \cap Nets \subseteq {n})
  BY DEF WirelessIInv, RightSettings, Running
<1>2. conf = Applied(before, wants)
  BY DEF WirelessIInv, AloneCommits
<1>3. before \in SUBSET Sections
  BY WirelessShapes DEF WirelessIInv
<1>4. conf = IF on THEN before \cup {n, Radio}
             ELSE IF last THEN before \ {n, Radio} ELSE before \ {n}
  <2>1. Applied(before, wants) = Applied(before, SettingsOf(n, on, last))
    BY <1>1
  <2> HIDE DEF wants, before
  <2> QED
    BY <1>2, <1>3, <2>1, AppliedSettings
<1>5. s.section = n /\ (s.on <=> on)
  BY <1>1 DEF SettingsOf, On, Off
<1>6. n \in Sections /\ Radio \notin Nets
  BY WirelessConstants DEF Sections
<1> HIDE DEF s, wants, before
<1>7. /\ s.on <=> s.section \in conf
      /\ s.on => Radio \in conf
  BY <1>4, <1>5, <1>6
<1>8. ~s.on /\ op[o].fresh /\ Radio \in before => (Radio \in conf <=> conf \cap Nets # {})
  BY <1>1, <1>4, <1>5, <1>6
<1> QED
  BY <1>7, <1>8 DEF s, wants, before

\* Nobody is left to take back what is staged once every operation has ended.
LEMMA WirelessNothingLeft == WirelessIInv => NothingLeftStaged
BY DEF WirelessIInv, StagedBySomebody, NothingLeftStaged, Running

-----------------------------------------------------------------------------
(* The internet access of a device.                                        *)

AccPhases == {"idle", "looking", "adding", "setting", "committing", "reloading",
              "flushing", "done"}

AccRecords == [phase : AccPhases, blocks : BOOLEAN, rule : Nat]

AccessTypes ==
    /\ accVia \in {"ubus", "luci", "ssh"}
    /\ rules \in Seq(Access!Rule) /\ saved \in Seq(Access!Rule) /\ named \in Nat
    /\ acc \in [Ops -> AccRecords]

Blank(i) == rules[i] = "blank"

\* The ghost says it of every two operations.
OneAtATime ==
    ~overlapped => \A o, p \in Ops :
        acc[o].phase # "idle" /\ acc[p].phase # "idle" => o = p

\* Failed operations leave sections without a target behind, but a rule is added
\* only where there is none.
OneRule ==
    accVia = "ubus" /\ ~overlapped =>
        \A i, j \in DOMAIN rules : ~Blank(i) /\ ~Blank(j) => i = j

\* How far an operation has come, whatever the failed ones before it left.
OnItsWay ==
    accVia = "ubus" /\ ~overlapped => \A o \in Ops :
        /\ acc[o].phase = "adding" => acc[o].blocks /\ \A i \in DOMAIN rules : Blank(i)
        /\ acc[o].phase = "setting" =>
            /\ acc[o].rule \in DOMAIN rules
            /\ \A i \in DOMAIN rules : ~Blank(i) => i = acc[o].rule
        /\ acc[o].phase = "committing" => (Access!Blocking(rules) <=> acc[o].blocks)
        /\ acc[o].phase \in {"reloading", "flushing", "done"} =>
            (Access!Blocking(saved) <=> acc[o].blocks)
        /\ acc[o].phase \in {"flushing", "done"} => rejects = acc[o].blocks

AccessIInv ==
    /\ AccessTypes
    /\ OneAtATime
    /\ OneRule
    /\ OnItsWay

\* An operation goes on: the others are as they were.
LEMMA AccessGoesOn ==
    ASSUME AccessTypes, NEW o \in Ops, NEW p \in AccPhases, NEW r \in Nat,
           Access!Goes(o, p, r)
    PROVE  /\ acc' \in [Ops -> AccRecords]
           /\ acc'[o].phase = p /\ acc'[o].rule = r /\ acc'[o].blocks = acc[o].blocks
           /\ \A q \in Ops \ {o} : acc'[q] = acc[q]
<1> DEFINE l == acc[o]
           l1 == [l EXCEPT !.phase = p]
           l2 == [l1 EXCEPT !.rule = r]
<1>1. acc \in [Ops -> AccRecords] /\ l \in AccRecords
  BY DEF AccessTypes
<1>2. acc' = [acc EXCEPT ![o] = l2]
  BY DEF Access!Goes
<1> HIDE DEF l
<1>3. l1 \in AccRecords /\ l1.phase = p /\ l1.blocks = l.blocks
  BY <1>1 DEF AccRecords
<1> HIDE DEF l1
<1>4. l2 \in AccRecords /\ l2.phase = p /\ l2.blocks = l.blocks /\ l2.rule = r
  BY <1>3 DEF AccRecords
<1> HIDE DEF l2
<1> QED
  BY <1>1, <1>2, <1>4 DEF l

\* What a step of a running operation has to show: when operations do not overlap,
\* nobody else runs.
LEMMA AccessStep ==
    ASSUME AccessIInv, NEW o \in Ops, acc[o].phase # "idle",
           acc' \in [Ops -> AccRecords], \A q \in Ops \ {o} : acc'[q] = acc[q],
           UNCHANGED <<accVia, overlapped>>,
           rules' \in Seq(Access!Rule), saved' \in Seq(Access!Rule), named' \in Nat,
           accVia = "ubus" /\ ~overlapped =>
               /\ \A i, j \in DOMAIN rules' : ~Blank(i)' /\ ~Blank(j)' => i = j
               /\ acc'[o].phase = "adding" =>
                    acc'[o].blocks /\ \A i \in DOMAIN rules' : Blank(i)'
               /\ acc'[o].phase = "setting" =>
                    /\ acc'[o].rule \in DOMAIN rules'
                    /\ \A i \in DOMAIN rules' : ~Blank(i)' => i = acc'[o].rule
               /\ acc'[o].phase = "committing" =>
                    (Access!Blocking(rules') <=> acc'[o].blocks)
               /\ acc'[o].phase \in {"reloading", "flushing", "done"} =>
                    (Access!Blocking(saved') <=> acc'[o].blocks)
               /\ acc'[o].phase \in {"flushing", "done"} => rejects' = acc'[o].blocks
    PROVE  AccessIInv'
<1>1. AccessTypes'
  BY DEF AccessIInv, AccessTypes
<1>2. ~overlapped => \A q \in Ops \ {o} : acc'[q].phase = "idle"
  BY DEF AccessIInv, OneAtATime
<1>3. OneAtATime'
  BY <1>2 DEF OneAtATime
<1>4. OneRule'
  BY DEF OneRule
<1>5. OnItsWay'
  BY <1>2 DEF OnItsWay
<1> QED
  BY <1>1, <1>3, <1>4, <1>5 DEF AccessIInv

\* The first rule of a device that has one.
LEMMA AccessMin ==
    ASSUME NEW S \in SUBSET Nat, S # {}
    PROVE  Access!Min(S) \in S
<1> DEFINE R == OpToRel(<, Nat)
<1>1. IsWellFoundedOn(R, Nat)
  BY NatLessThanWellFounded
<1>2. \A x, y \in Nat : <<y, x>> \in R <=> y < x
  BY DEF OpToRel
<1> HIDE DEF R
<1>3. \E x \in S : \A y \in S : ~(<<y, x>> \in R)
  BY <1>1, WFMin
<1>4. PICK x \in S : \A y \in S : ~(<<y, x>> \in R)
  BY <1>3
<1>5. ASSUME NEW y \in S PROVE x <= y
  <2>1. x \in Nat /\ y \in Nat
    OBVIOUS
  <2>2. ~(y < x)
    BY <1>2, <1>4, <2>1
  <2> QED
    BY <2>1, <2>2
<1> QED
  BY <1>5 DEF Access!Min

\* A section more at the end of the list.
LEMMA AccessAppends ==
    ASSUME NEW s \in Seq(Access!Rule), NEW r \in Access!Rule
    PROVE  /\ Append(s, r) \in Seq(Access!Rule)
           /\ Len(Append(s, r)) = Len(s) + 1
           /\ DOMAIN Append(s, r) = DOMAIN s \cup {Len(s) + 1}
           /\ Append(s, r)[Len(s) + 1] = r
           /\ \A i \in DOMAIN s : Append(s, r)[i] = s[i] /\ i # Len(s) + 1
OBVIOUS

\* The rule that the device has is the only one, and nobody else sets it.
LEMMA FindsStep ==
    ASSUME AccessIInv, NEW o \in Ops, Access!Finds(o)
    PROVE  AccessIInv'
<1> DEFINE listed == Access!Listed(rules)
           next == IF listed # {} THEN "setting"
                   ELSE IF acc[o].blocks THEN "adding" ELSE "committing"
           first == IF listed # {} THEN Access!Min(listed) ELSE Access!None
<1>1. /\ acc[o].phase = "looking"
      /\ UNCHANGED <<accVia, rules, named, saved, rejects, overlapped>>
      /\ Access!Goes(o, next, first)
  BY Zenon DEF Access!Finds
<1>2. /\ accVia \in {"ubus", "luci", "ssh"}
      /\ rules \in Seq(Access!Rule) /\ saved \in Seq(Access!Rule) /\ named \in Nat
      /\ acc[o].blocks \in BOOLEAN
  BY DEF AccessIInv, AccessTypes, AccRecords
<1>3. /\ listed \subseteq DOMAIN rules
      /\ accVia = "ubus" => listed = {i \in DOMAIN rules : ~Blank(i)}
  BY <1>2 DEF Access!Listed, Access!UbusLists, Access!LuciLists, Access!SshLists, Blank
<1> HIDE DEF listed
<1>4. first \in Nat /\ (listed # {} => first \in listed)
  <2>1. DOMAIN rules \subseteq Nat
    BY <1>2
  <2>2. listed # {} => Access!Min(listed) \in listed
    BY <1>3, <2>1, AccessMin
  <2> QED
    BY <1>3, <2>1, <2>2 DEF Access!None
<1>5. next \in AccPhases
  BY DEF AccPhases
<1> HIDE DEF next, first
<1>6. /\ acc' \in [Ops -> AccRecords]
      /\ acc'[o].phase = next /\ acc'[o].rule = first /\ acc'[o].blocks = acc[o].blocks
      /\ \A q \in Ops \ {o} : acc'[q] = acc[q]
  BY <1>1, <1>4, <1>5, AccessGoesOn DEF AccessIInv
<1>7. ASSUME accVia = "ubus", ~overlapped
      PROVE  /\ \A i, j \in DOMAIN rules : ~Blank(i) /\ ~Blank(j) => i = j
             /\ next = "setting" => /\ first \in DOMAIN rules
                                    /\ \A i \in DOMAIN rules : ~Blank(i) => i = first
             /\ next = "adding" => acc[o].blocks /\ \A i \in DOMAIN rules : Blank(i)
             /\ next = "committing" => (Access!Blocking(rules) <=> acc[o].blocks)
             /\ next \in {"setting", "adding", "committing"}
  <2>1. \A i, j \in DOMAIN rules : ~Blank(i) /\ ~Blank(j) => i = j
    BY <1>7 DEF AccessIInv, OneRule
  <2>2. CASE listed # {}
    BY <1>3, <1>4, <1>7, <2>1, <2>2 DEF next
  <2>3. CASE listed = {}
    <3>1. \A i \in DOMAIN rules : Blank(i)
      BY <1>3, <1>7, <2>3
    <3>2. ~Access!Blocking(rules)
      BY <3>1 DEF Access!Blocking, Blank
    <3> QED
      BY <1>2, <2>1, <2>3, <3>1, <3>2 DEF next
  <2> QED
    BY <2>2, <2>3
<1> QED
  BY <1>1, <1>2, <1>6, <1>7, AccessStep DEF Blank

\* The rule that is added is the last of the list and blank.
LEMMA UbusAddsStep ==
    ASSUME AccessIInv, NEW o \in Ops, Access!UbusAdds(o)
    PROVE  AccessIInv'
<1> DEFINE n == Len(rules) + 1
<1>1. /\ acc[o].phase = "adding" /\ rules' = Append(rules, "blank")
      /\ Access!Goes(o, "setting", Len(rules'))
      /\ UNCHANGED <<accVia, named, saved, rejects, overlapped>>
  BY DEF Access!UbusAdds
<1>2. AccessTypes /\ "blank" \in Access!Rule /\ "setting" \in AccPhases
  BY DEF AccessIInv, Access!Rule, AccPhases
<1>3. /\ rules' \in Seq(Access!Rule) /\ Len(rules') = n /\ n \in Nat
      /\ DOMAIN rules' = DOMAIN rules \cup {n} /\ rules'[n] = "blank"
      /\ \A i \in DOMAIN rules : rules'[i] = rules[i]
  BY <1>1, <1>2, AccessAppends DEF AccessTypes
<1> HIDE DEF n
<1>4. /\ acc' \in [Ops -> AccRecords]
      /\ acc'[o].phase = "setting" /\ acc'[o].rule = n
      /\ \A q \in Ops \ {o} : acc'[q] = acc[q]
  BY <1>1, <1>2, <1>3, AccessGoesOn
<1>5. ASSUME accVia = "ubus", ~overlapped
      PROVE  \A i \in DOMAIN rules' : Blank(i)'
  BY <1>1, <1>3, <1>5 DEF AccessIInv, OnItsWay, Blank
<1> QED
  BY <1>1, <1>2, <1>3, <1>4, <1>5, AccessStep DEF AccessTypes

\* Over SSH nothing more is promised than the types.
LEMMA SshAddsStep ==
    ASSUME AccessIInv, NEW o \in Ops, Access!SshAdds(o)
    PROVE  AccessIInv'
<1>1. /\ accVia = "ssh" /\ acc[o].phase = "adding"
      /\ Access!Goes(o, "setting", named')
      /\ UNCHANGED <<accVia, saved, rejects, overlapped>>
      /\ \/ rules' = Append(rules, "blank") /\ UNCHANGED named
         \/ rules' = rules \o <<"blank", "blank">> /\ named' = Len(rules')
  BY DEF Access!SshAdds
<1>2. AccessTypes /\ "blank" \in Access!Rule /\ "setting" \in AccPhases
  BY DEF AccessIInv, Access!Rule, AccPhases
<1>3. rules' \in Seq(Access!Rule) /\ named' \in Nat
  <2>1. rules \in Seq(Access!Rule) /\ named \in Nat
    BY <1>2 DEF AccessTypes
  <2> DEFINE two == <<"blank", "blank">>
  <2>2. two \in Seq(Access!Rule)
    BY <1>2
  <2> HIDE DEF two
  <2>3. rules \o two \in Seq(Access!Rule)
    BY <2>1, <2>2
  <2>4. rules' \in Seq(Access!Rule)
    <3>1. CASE rules' = Append(rules, "blank")
      BY <1>2, <2>1, <3>1, AccessAppends
    <3>2. CASE rules' = rules \o two
      BY <2>3, <3>2
    <3> QED
      BY <1>1, <3>1, <3>2 DEF two
  <2>5. Len(rules') \in Nat
    BY <2>4
  <2> QED
    BY <1>1, <2>1, <2>4, <2>5
<1>4. /\ acc' \in [Ops -> AccRecords]
      /\ \A q \in Ops \ {o} : acc'[q] = acc[q]
  BY <1>1, <1>2, <1>3, AccessGoesOn
<1> QED
  BY <1>1, <1>2, <1>3, <1>4, AccessStep DEF AccessTypes

\* With the other rules blank, the one that is set decides whether the list blocks.
LEMMA SetsStep ==
    ASSUME AccessIInv, NEW o \in Ops, Access!Sets(o)
    PROVE  AccessIInv'
<1> DEFINE l == acc[o]
           target == IF l.blocks THEN "on" ELSE "off"
<1>1. /\ l.phase = "setting" /\ rules' = [rules EXCEPT ![l.rule] = target]
      /\ Access!Goes(o, "committing", l.rule)
      /\ UNCHANGED <<accVia, named, saved, rejects, overlapped>>
  BY DEF Access!Sets
<1>2. AccessTypes /\ l.blocks \in BOOLEAN /\ l.rule \in Nat /\ "committing" \in AccPhases
  BY DEF AccessIInv, AccessTypes, AccRecords, AccPhases
<1>3. target \in Access!Rule /\ target # "blank" /\ (target = "on" <=> l.blocks)
  BY <1>2 DEF Access!Rule
<1> HIDE DEF target
<1>4. /\ rules' \in Seq(Access!Rule) /\ DOMAIN rules' = DOMAIN rules
      /\ \A i \in DOMAIN rules : rules'[i] = IF i = l.rule THEN target ELSE rules[i]
  <2> DEFINE R == Access!Rule
             i0 == l.rule
  <2>1. rules \in Seq(R) /\ target \in R /\ rules' = [rules EXCEPT ![i0] = target]
    BY <1>1, <1>2, <1>3 DEF AccessTypes
  <2> HIDE DEF R, i0
  <2>2. /\ rules' \in Seq(R) /\ DOMAIN rules' = DOMAIN rules
        /\ \A i \in DOMAIN rules : rules'[i] = IF i = i0 THEN target ELSE rules[i]
    <3> DEFINE n == Len(rules)
    <3>1. n \in Nat /\ DOMAIN rules = 1..n /\ rules \in [1..n -> R]
      BY <2>1
    <3> HIDE DEF n
    <3>2. rules' \in [1..n -> R]
      BY <2>1, <3>1
    <3>3. rules' \in Seq(R)
      BY <3>1, <3>2
    <3>4. \A i \in DOMAIN rules : rules'[i] = IF i = i0 THEN target ELSE rules[i]
      BY <2>1, <3>1
    <3> QED
      BY <3>1, <3>2, <3>3, <3>4
  <2> QED
    BY <2>2 DEF R, i0
<1>5. /\ acc' \in [Ops -> AccRecords]
      /\ acc'[o].phase = "committing" /\ acc'[o].blocks = l.blocks
      /\ \A q \in Ops \ {o} : acc'[q] = acc[q]
  BY <1>1, <1>2, AccessGoesOn
<1> HIDE DEF l
<1>6. ASSUME accVia = "ubus", ~overlapped
      PROVE  /\ \A i, j \in DOMAIN rules' : ~Blank(i)' /\ ~Blank(j)' => i = j
             /\ Access!Blocking(rules') <=> l.blocks
  <2>1. /\ l.rule \in DOMAIN rules
        /\ \A i \in DOMAIN rules : ~Blank(i) => i = l.rule
    BY <1>1, <1>6 DEF AccessIInv, OnItsWay, l
  <2>2. \A i \in DOMAIN rules : i # l.rule => rules'[i] = "blank"
    BY <1>4, <2>1 DEF Blank
  <2>3. \A i \in DOMAIN rules : rules'[i] = "on" => target = "on"
    BY <1>4, <2>2
  <2>4. Access!Blocking(rules') <=> target = "on"
    BY <1>4, <2>1, <2>3 DEF Access!Blocking
  <2> QED
    BY <1>3, <1>4, <2>2, <2>4 DEF Blank
<1> QED
  BY <1>1, <1>2, <1>4, <1>5, <1>6, AccessStep DEF AccessTypes, l

\* What is committed, runs and is shown is what the rules said.
LEMMA CommitsStep ==
    ASSUME AccessIInv, NEW o \in Ops,
           Access!Commits(o) \/ Access!Reloads(o) \/ Access!Flushes(o)
    PROVE  AccessIInv'
<1> DEFINE l == acc[o]
<1>1. AccessTypes /\ l.blocks \in BOOLEAN /\ l.rule \in Nat
  BY DEF AccessIInv, AccessTypes, AccRecords
<1>2. accVia = "ubus" /\ ~overlapped =>
          \A i, j \in DOMAIN rules : ~Blank(i) /\ ~Blank(j) => i = j
  BY DEF AccessIInv, OneRule
<1>3. accVia = "ubus" /\ ~overlapped =>
          /\ l.phase = "committing" => (Access!Blocking(rules) <=> l.blocks)
          /\ l.phase \in {"reloading", "flushing", "done"} =>
                 (Access!Blocking(saved) <=> l.blocks)
          /\ l.phase \in {"flushing", "done"} => rejects = l.blocks
  BY DEF AccessIInv, OnItsWay
<1>4. Access!Blocking(saved) \in BOOLEAN
  BY DEF Access!Blocking
<1>5. CASE Access!Commits(o)
  <2>1. /\ l.phase = "committing" /\ saved' = rules /\ Access!Goes(o, "reloading", l.rule)
        /\ UNCHANGED <<accVia, rules, named, rejects, overlapped>>
    BY <1>5 DEF Access!Commits
  <2>2. /\ acc' \in [Ops -> AccRecords]
        /\ acc'[o].phase = "reloading" /\ acc'[o].blocks = l.blocks
        /\ \A q \in Ops \ {o} : acc'[q] = acc[q]
    BY <1>1, <2>1, AccessGoesOn DEF AccPhases
  <2> HIDE DEF l
  <2> QED
    BY <1>1, <1>2, <1>3, <2>1, <2>2, AccessStep DEF AccessTypes, Blank, l
<1>6. CASE Access!Reloads(o)
  <2> DEFINE next == IF l.blocks THEN "flushing" ELSE "done"
  <2>1. /\ l.phase = "reloading" /\ rejects' = Access!Blocking(saved)
        /\ Access!Goes(o, next, l.rule)
        /\ UNCHANGED <<accVia, rules, named, saved, overlapped>>
    BY <1>6 DEF Access!Reloads
  <2>2. next \in AccPhases /\ next \in {"flushing", "done"}
    BY DEF AccPhases
  <2> HIDE DEF next
  <2>3. /\ acc' \in [Ops -> AccRecords]
        /\ acc'[o].phase = next /\ acc'[o].blocks = l.blocks
        /\ \A q \in Ops \ {o} : acc'[q] = acc[q]
    BY <1>1, <2>1, <2>2, AccessGoesOn
  <2> HIDE DEF l
  <2>4. accVia = "ubus" /\ ~overlapped => rejects' = l.blocks
    BY <1>1, <1>3, <1>4, <2>1
  <2> QED
    BY <1>1, <1>2, <1>3, <2>1, <2>2, <2>3, <2>4, AccessStep DEF AccessTypes, Blank, l
<1>7. CASE Access!Flushes(o)
  <2>1. /\ l.phase = "flushing" /\ Access!Goes(o, "done", l.rule)
        /\ UNCHANGED <<accVia, rules, named, saved, rejects, overlapped>>
    BY <1>7 DEF Access!Flushes
  <2>2. /\ acc' \in [Ops -> AccRecords]
        /\ acc'[o].phase = "done" /\ acc'[o].blocks = l.blocks
        /\ \A q \in Ops \ {o} : acc'[q] = acc[q]
    BY <1>1, <2>1, AccessGoesOn DEF AccPhases
  <2> HIDE DEF l
  <2> QED
    BY <1>1, <1>2, <1>3, <2>1, <2>2, AccessStep DEF AccessTypes, Blank, l
<1> QED
  BY <1>5, <1>6, <1>7

\* An operation that ends, well or not, leaves the rules as they are.
LEMMA AccessEndsStep ==
    ASSUME AccessIInv, NEW o \in Ops,
           Access!Fails(o) \/ Access!NotOverLuci(o) \/ Access!Acknowledge(o)
    PROVE  AccessIInv'
<1>1. /\ acc[o].phase # "idle" /\ acc' = [acc EXCEPT ![o] = Access!Idle]
      /\ UNCHANGED <<accVia, rules, named, saved, rejects, overlapped>>
  BY DEF Access!Fails, Access!NotOverLuci, Access!Acknowledge, Access!Running
<1>2. Access!Idle \in AccRecords /\ Access!Idle.phase = "idle"
  BY DEF Access!Idle, Access!None, AccRecords, AccPhases
<1>3. /\ acc' \in [Ops -> AccRecords] /\ acc'[o].phase = "idle"
      /\ \A q \in Ops \ {o} : acc'[q] = acc[q]
  BY <1>1, <1>2 DEF AccessIInv, AccessTypes
<1>4. accVia = "ubus" /\ ~overlapped =>
          \A i, j \in DOMAIN rules : ~Blank(i) /\ ~Blank(j) => i = j
  BY DEF AccessIInv, OneRule
<1> QED
  BY <1>1, <1>3, <1>4, AccessStep DEF AccessIInv, AccessTypes, Blank

\* An operation that begins beside another one ends the promise.
LEMMA AccessBeginStep ==
    ASSUME AccessIInv, NEW o \in Ops, Access!Begin(o)
    PROVE  AccessIInv'
<1>1. /\ acc[o].phase = "idle"
      /\ overlapped' = (overlapped \/ \E p \in Ops : Access!Running(p))
      /\ UNCHANGED <<accVia, rules, named, saved, rejects>>
  BY DEF Access!Begin, Access!Running
<1>2. PICK b \in BOOLEAN :
          acc' = [acc EXCEPT ![o] = [Access!Idle EXCEPT !.phase = "looking", !.blocks = b]]
  BY DEF Access!Begin
<1> DEFINE r == [Access!Idle EXCEPT !.phase = "looking", !.blocks = b]
<1>3. r \in AccRecords /\ r.phase = "looking"
  BY DEF Access!Idle, Access!None, AccRecords, AccPhases
<1> HIDE DEF r
<1>4. /\ acc' \in [Ops -> AccRecords] /\ acc'[o].phase = "looking"
      /\ \A q \in Ops \ {o} : acc'[q] = acc[q]
  BY <1>2, <1>3 DEF AccessIInv, AccessTypes, r
<1>5. ~overlapped' => ~overlapped /\ \A q \in Ops : acc[q].phase = "idle"
  BY <1>1 DEF Access!Running
<1>6. AccessTypes'
  BY <1>1, <1>4 DEF AccessIInv, AccessTypes
<1>7. OneAtATime'
  BY <1>4, <1>5 DEF OneAtATime
<1>8. OneRule'
  BY <1>1, <1>5 DEF AccessIInv, OneRule, Blank
<1>9. OnItsWay'
  <2>1. ~overlapped' => \A q \in Ops : acc'[q].phase \in {"idle", "looking"}
    BY <1>4, <1>5
  <2> QED
    BY <2>1 DEF OnItsWay
<1> QED
  BY <1>6, <1>7, <1>8, <1>9 DEF AccessIInv

\* The router begins with the rules it has committed, and no operation runs.
LEMMA AccessInitIInv == Access!Init => AccessIInv
<1> SUFFICES ASSUME Access!Init PROVE AccessIInv
  OBVIOUS
<1>1. \A o \in Ops : acc[o] = Access!Idle
  BY DEF Access!Init
<1>2. Access!Idle \in AccRecords /\ Access!Idle.phase = "idle"
  BY DEF Access!Idle, Access!None, AccRecords, AccPhases
<1>3. AccessTypes
  <2>1. rules \in Seq(Access!Rule) /\ saved = rules
    <3>1. "on" \in Access!Rule /\ "off" \in Access!Rule
      BY DEF Access!Rule
    <3>2. \A r \in Access!Rule : <<>> \in Seq(Access!Rule) /\ <<r>> \in Seq(Access!Rule)
      OBVIOUS
    <3>3. rules \in {<<>>, <<"on">>, <<"off">>} /\ saved = rules
      BY DEF Access!Init
    <3> QED
      BY <3>1, <3>2, <3>3
  <2>2. named \in Nat
    BY <2>1 DEF Access!Init, Access!None
  <2>3. acc \in [Ops -> AccRecords] /\ accVia \in {"ubus", "luci", "ssh"}
    BY <1>2, AccessValues DEF Access!Init, Access!AccessConstants
  <2> QED
    BY <2>1, <2>2, <2>3 DEF AccessTypes
<1>4. OneRule
  BY DEF OneRule, Access!Init
<1> QED
  BY <1>1, <1>2, <1>3, <1>4 DEF AccessIInv, OneAtATime, OnItsWay

\* Every step keeps the invariant.
LEMMA AccessNextIInv == AccessIInv /\ [Access!Next]_accVars => AccessIInv'
<1> SUFFICES ASSUME AccessIInv, [Access!Next]_accVars PROVE AccessIInv'
  OBVIOUS
<1>1. CASE Access!Polls \/ UNCHANGED accVars
  <2>1. UNCHANGED <<accVia, rules, named, saved, rejects, acc, overlapped>>
    BY <1>1 DEF Access!Polls, accVars
  <2> QED
    BY <2>1 DEF AccessIInv, AccessTypes, OneAtATime, OneRule, OnItsWay, Blank
<1>2. ASSUME NEW o \in Ops,
             \/ Access!Begin(o) \/ Access!Finds(o) \/ Access!UbusAdds(o)
             \/ Access!SshAdds(o) \/ Access!Sets(o) \/ Access!Commits(o)
             \/ Access!Reloads(o) \/ Access!Flushes(o) \/ Access!Fails(o)
             \/ Access!NotOverLuci(o) \/ Access!Acknowledge(o)
      PROVE  AccessIInv'
  BY <1>2, AccessBeginStep, FindsStep, UbusAddsStep, SshAddsStep, SetsStep, CommitsStep,
     AccessEndsStep
<1> QED
  BY <1>1, <1>2 DEF Access!Next

\* The invariant says what an operation that is shown as done has done.
LEMMA AccessDone == AccessIInv => AccessAsAsked
<1> SUFFICES ASSUME AccessIInv, NEW o \in Ops, acc[o].phase = "done", accVia = "ubus",
                    ~overlapped
             PROVE  rejects = acc[o].blocks /\ Access!Blocking(saved) = acc[o].blocks
  BY DEF AccessAsAsked, Access!AccessAsAsked
<1>1. acc[o].blocks \in BOOLEAN /\ Access!Blocking(saved) \in BOOLEAN
  BY DEF AccessIInv, AccessTypes, AccRecords, Access!Blocking
<1>2. rejects = acc[o].blocks /\ (Access!Blocking(saved) <=> acc[o].blocks)
  BY DEF AccessIInv, OnItsWay
<1> QED
  BY <1>1, <1>2

-----------------------------------------------------------------------------
(* The checks for firmware and the image that is flashed.                  *)

Offers == [current : Firmware!Releases, named : BOOLEAN, latest : Firmware!Releases,
           upgradable : BOOLEAN, file : Firmware!Files, supported : BOOLEAN,
           available : BOOLEAN]

\* Which query a check awaits depends on the mode; the query of the packages follows
\* a release of the image server that is newer than what the check took to run.
QueriesFit ==
    /\ check \in {"releases", "tags"} => mode = "custom"
    /\ check \in {"index", "profiles", "asu", "packages"} => mode # "custom"
    /\ check = "packages" => offer.available /\ found.release > offer.current
    /\ offer.available => offer.supported
    /\ install = "build" => offer.available

\* What is offered is newer than what it was compared with.
OfferIsNewer == offer.upgradable /\ ~textual => offer.latest > against

\* Until the image server has a newer release, only files of the index are
\* installed, and a later file name is never that of an earlier release: the
\* router does not run more than the file that is offered.
FilesGrow ==
    mode # "custom" /\ ~offer.available =>
        /\ newest > 0
        /\ offer.file.release <= newest
        /\ IF offer.file = Firmware!NoFile THEN running = 1
           ELSE running <= offer.file.release
        /\ check = "profiles" =>
              /\ 0 < found.release /\ found.release <= newest
              /\ offer.file.release <= found.release
        /\ install = "flashing" =>
              /\ offer.file # Firmware!NoFile
              /\ image.file.release <= offer.file.release

\* An image that none of the exceptions of OnlyUpgrades is about.
Fits ==
    /\ ~textual /\ image.offered /\ image.against = running
    /\ mode = "custom" => image.file.release = image.latest

\* It is not older than what the router runs.
ImageIsNewer ==
    install \in {"build", "flashing"} /\ Fits => running <= image.file.release

FirmwareIInv ==
    Firmware!TypeOK /\ QueriesFit /\ OfferIsNewer /\ FilesGrow /\ ImageIsNewer

\* A router on its first release, of which nothing is offered yet.
LEMMA FirmwareInitIInv == Firmware!Init => FirmwareIInv
<1> SUFFICES ASSUME Firmware!Init PROVE FirmwareIInv
  OBVIOUS
<1>1. MaxRelease \in Nat /\ MaxRelease > 0 /\ MaxChecks \in Nat /\ MaxInstalls \in Nat
      /\ "own" \in Images
  BY FirmwareValues DEF Firmware!FirmwareConstants
<1>2. Firmware!TypeOK
  <2>1. {0, 1} \subseteq Firmware!Releases
    BY <1>1 DEF Firmware!Releases
  <2>2. Firmware!NoFile \in Firmware!Files /\ Firmware!NoFile.board = "own"
    BY <1>1, <2>1 DEF Firmware!NoFile, Firmware!Files
  <2>3. mode \in Modes /\ textual \in BOOLEAN /\ builder \in BOOLEAN
    BY DEF Firmware!Init
  <2>4. {newest, imaged, built, running, against} \subseteq Firmware!Releases
    BY <2>1 DEF Firmware!Init
  <2>5. info \in [release : Firmware!Releases, board : BOOLEAN]
    BY <2>1 DEF Firmware!Init
  <2>6. offer \in Offers /\ offer.file.board = "own"
    BY <2>1, <2>2 DEF Firmware!Init, Offers
  <2>7. found \in [release : Firmware!Releases, boards : SUBSET Images]
    BY <2>1 DEF Firmware!Init
  <2>8. image \in [file : Firmware!Files, latest : Firmware!Releases, offered : BOOLEAN,
                   against : Firmware!Releases]
    BY <2>1, <2>2 DEF Firmware!Init
  <2>9. check = "no" /\ install = "no" /\ checks \in 0 .. MaxChecks
        /\ installs \in 0 .. MaxInstalls
    BY <1>1 DEF Firmware!Init
  <2> QED
    BY <2>3, <2>4, <2>5, <2>6, <2>7, <2>8, <2>9 DEF Firmware!TypeOK, Offers
<1>3. QueriesFit /\ OfferIsNewer /\ ImageIsNewer
  BY DEF Firmware!Init, QueriesFit, OfferIsNewer, ImageIsNewer
<1>4. FilesGrow
  BY DEF Firmware!Init, FilesGrow, Firmware!NoFile
<1> QED
  BY <1>2, <1>3, <1>4 DEF FirmwareIInv

\* An installation changes nothing the checks keep.
LEMMA InstallStepIInv == FirmwareIInv /\ Firmware!InstallStep => FirmwareIInv'
<1> USE DEF Firmware!world, Firmware!checking, Firmware!installing
<1> SUFFICES ASSUME FirmwareIInv, Firmware!InstallStep PROVE FirmwareIInv'
  OBVIOUS
<1>0. /\ UNCHANGED <<mode, textual, builder, newest, imaged, built>>
      /\ UNCHANGED <<info, offer, check, found, against, checks>>
  BY DEF Firmware!InstallStep, Firmware!InstallStart, Firmware!BuildRequested,
     Firmware!Built, Firmware!UrlTaken, Firmware!Flashed, Firmware!InstallFails
<1>t. /\ running \in Int /\ against \in Int /\ newest \in Int
      /\ offer \in Offers /\ image.file \in Firmware!Files /\ image.file.release \in Int
      /\ image.against \in Int
      /\ offer.file \in Firmware!Files /\ offer.file.release \in Int /\ offer.latest \in Int
  BY DEF FirmwareIInv, Firmware!TypeOK, Offers, Firmware!Releases, Firmware!Files
<1>1. CASE Firmware!InstallStart
  <2>1. Firmware!TypeOK'
    BY <1>0, <1>1, FirmwareValues
       DEF FirmwareIInv, Firmware!TypeOK, Firmware!InstallStart,
           Firmware!FirmwareConstants
  <2> QED
    BY <1>0, <1>1, <2>1
       DEF FirmwareIInv, QueriesFit, OfferIsNewer, FilesGrow, ImageIsNewer,
           Firmware!InstallStart
<1>2. CASE Firmware!BuildRequested
  <2>1. image' = [file |-> [release |-> offer.latest, board |-> "own"],
                  latest |-> offer.latest,
                  offered |-> offer.upgradable, against |-> against]
    BY <1>2 DEF Firmware!BuildRequested, Firmware!Chosen
  <2>2. /\ image'.file.release = offer.latest /\ image'.latest = offer.latest
        /\ image'.offered = offer.upgradable /\ image'.against = against
    BY <2>1
  <2>3. Firmware!TypeOK'
    BY <1>0, <1>2, <2>1, FirmwareValues
       DEF FirmwareIInv, Firmware!TypeOK, Firmware!BuildRequested,
           Firmware!FirmwareConstants, Firmware!Files
  <2>4. install' = "build" /\ running' = running /\ offer.available /\ offer.supported
    BY <1>2 DEF Firmware!BuildRequested, Firmware!BuildOnDemand
  <2>5. ImageIsNewer'
    BY <1>0, <1>t, <2>2, <2>4 DEF ImageIsNewer, Fits, FirmwareIInv, OfferIsNewer
  <2>6. QueriesFit' /\ OfferIsNewer' /\ FilesGrow'
    BY <1>0, <2>4 DEF FirmwareIInv, QueriesFit, OfferIsNewer, FilesGrow
  <2> QED
    BY <2>3, <2>5, <2>6 DEF FirmwareIInv
<1>3. CASE Firmware!Built
  <2>1. Firmware!TypeOK'
    BY <1>0, <1>3 DEF FirmwareIInv, Firmware!TypeOK, Firmware!Built
  <2> QED
    BY <1>0, <1>3, <2>1
       DEF FirmwareIInv, QueriesFit, OfferIsNewer, FilesGrow, ImageIsNewer, Fits,
           Firmware!Built
<1>4. CASE Firmware!UrlTaken
  <2>1. image' = [file |-> offer.file, latest |-> offer.latest,
                 offered |-> offer.upgradable, against |-> against]
    BY <1>4 DEF Firmware!UrlTaken, Firmware!Chosen
  <2>2. /\ image'.file = offer.file /\ image'.latest = offer.latest
        /\ image'.offered = offer.upgradable /\ image'.against = against
    BY <2>1
  <2>3. Firmware!TypeOK'
    BY <1>0, <1>4, <2>1 DEF FirmwareIInv, Firmware!TypeOK, Firmware!UrlTaken
  <2>4. install' = "flashing" /\ running' = running /\ offer.file # Firmware!NoFile
        /\ ~(offer.supported /\ offer.available)
    BY <1>4 DEF Firmware!UrlTaken, Firmware!BuildOnDemand
  <2>5. ~offer.available
    BY <2>4 DEF FirmwareIInv, QueriesFit
  <2>6. ImageIsNewer'
    BY <1>0, <1>t, <2>2, <2>4, <2>5
       DEF ImageIsNewer, Fits, FirmwareIInv, OfferIsNewer, FilesGrow
  <2>7. FilesGrow'
    BY <1>0, <1>t, <2>2, <2>4 DEF FirmwareIInv, FilesGrow
  <2>8. QueriesFit' /\ OfferIsNewer'
    BY <1>0, <2>4 DEF FirmwareIInv, QueriesFit, OfferIsNewer
  <2> QED
    BY <2>3, <2>6, <2>7, <2>8 DEF FirmwareIInv
<1>5. CASE Firmware!Flashed
  <2>1. Firmware!TypeOK'
    BY <1>0, <1>5 DEF FirmwareIInv, Firmware!TypeOK, Firmware!Flashed, Firmware!Files
  <2>2. FilesGrow'
    BY <1>0, <1>5, <1>t DEF FirmwareIInv, FilesGrow, Firmware!Flashed
  <2> QED
    BY <1>0, <1>5, <2>1, <2>2
       DEF FirmwareIInv, QueriesFit, OfferIsNewer, ImageIsNewer, Firmware!Flashed
<1>6. CASE Firmware!InstallFails
  <2>1. Firmware!TypeOK'
    BY <1>0, <1>6 DEF FirmwareIInv, Firmware!TypeOK, Firmware!InstallFails
  <2> QED
    BY <1>0, <1>6, <2>1
       DEF FirmwareIInv, QueriesFit, OfferIsNewer, FilesGrow, ImageIsNewer,
           Firmware!InstallFails
<1> QED
  BY <1>1, <1>2, <1>3, <1>4, <1>5, <1>6 DEF Firmware!InstallStep

\* Nor do the releases of the project, the repository and the image server.
LEMMA WorldIInv ==
    FirmwareIInv /\ (Firmware!Released \/ Firmware!ImageAdded \/ Firmware!AsuUpdated)
        => FirmwareIInv'
<1> SUFFICES ASSUME FirmwareIInv,
                    Firmware!Released \/ Firmware!ImageAdded \/ Firmware!AsuUpdated
             PROVE  FirmwareIInv'
  OBVIOUS
<1>1. /\ UNCHANGED <<mode, textual, builder, running, info, offer, check, found>>
      /\ UNCHANGED <<install, image, against, checks, installs>>
  BY DEF Firmware!Released, Firmware!ImageAdded, Firmware!AsuUpdated, Firmware!checking,
     Firmware!installing
<1>2. {newest, imaged, built} \subseteq Firmware!Releases /\ MaxRelease \in Nat
  BY FirmwareValues DEF FirmwareIInv, Firmware!TypeOK, Firmware!FirmwareConstants
<1>3. {newest', imaged', built'} \subseteq Firmware!Releases /\ newest <= newest'
  BY <1>2 DEF Firmware!Released, Firmware!ImageAdded, Firmware!AsuUpdated,
     Firmware!Releases
<1>4. {newest, newest', offer.file.release, found.release} \subseteq Int
  BY <1>2, <1>3 DEF FirmwareIInv, Firmware!TypeOK, Firmware!Releases, Firmware!Files
<1>5. Firmware!TypeOK'
  BY <1>1, <1>3 DEF FirmwareIInv, Firmware!TypeOK
<1>6. FilesGrow'
  BY <1>1, <1>3, <1>4 DEF FirmwareIInv, FilesGrow
<1> QED
  BY <1>1, <1>5, <1>6 DEF FirmwareIInv, QueriesFit, OfferIsNewer, ImageIsNewer, Fits

\* The queries of a check keep the invariant if they keep its parts about the offer.
LEMMA CheckKeeps ==
    ASSUME FirmwareIInv, UNCHANGED <<Firmware!world, Firmware!installing>>,
           info' \in [release : Firmware!Releases, board : BOOLEAN],
           offer' \in Offers, mode # "custom" => offer'.file.board = "own",
           check' \in {"no", "index", "profiles", "asu", "packages", "releases", "tags"},
           found' \in [release : Firmware!Releases, boards : SUBSET Images],
           against' \in Firmware!Releases, checks' \in 0 .. MaxChecks,
           QueriesFit', OfferIsNewer', FilesGrow'
    PROVE  FirmwareIInv'
<1> USE DEF Firmware!world, Firmware!installing
<1>1. ImageIsNewer'
  BY DEF FirmwareIInv, ImageIsNewer, Fits
<1>2. Firmware!TypeOK'
  BY DEF FirmwareIInv, Firmware!TypeOK, Offers
<1> QED
  BY <1>1, <1>2 DEF FirmwareIInv

\* The offer of a check, field by field.
LEMMA OfferFields ==
    FirmwareIInv =>
        /\ offer \in Offers /\ offer.file \in Firmware!Files
        /\ {offer.current, offer.latest, offer.file.release} \subseteq Firmware!Releases
        /\ {offer.named, offer.upgradable, offer.supported, offer.available}
               \subseteq BOOLEAN
        /\ info \in [release : Firmware!Releases, board : BOOLEAN]
        /\ info.release \in Firmware!Releases
        /\ found \in [release : Firmware!Releases, boards : SUBSET Images]
        /\ found.release \in Firmware!Releases
        /\ {newest, imaged, built, running, against} \subseteq Firmware!Releases
        /\ mode # "custom" => offer.file.board = "own"
        /\ checks \in 0 .. MaxChecks
        /\ Firmware!Releases \subseteq Int
BY DEF FirmwareIInv, Firmware!TypeOK, Offers, Firmware!Files, Firmware!Releases

\* A poll takes over what the slow tier knows.
LEMMA PollStepIInv ==
    FirmwareIInv /\ (Firmware!Poll \/ Firmware!CheckStart) => FirmwareIInv'
<1> SUFFICES ASSUME FirmwareIInv, Firmware!Poll \/ Firmware!CheckStart
             PROVE  FirmwareIInv'
  OBVIOUS
<1>1. PICK i \in Firmware!DeviceInfos : Firmware!SyncFirmwareState(i)
  BY DEF Firmware!Poll, Firmware!CheckStart
<1>2. i \in [release : Firmware!Releases, board : BOOLEAN]
  <2>1. 0 \in Firmware!Releases
    BY FirmwareValues DEF Firmware!FirmwareConstants, Firmware!Releases
  <2> QED
    BY <2>1, OfferFields DEF Firmware!DeviceInfos
<1>3. info' = i /\ offer' = [offer EXCEPT !.current = i.release, !.named = FALSE]
  BY <1>1 DEF Firmware!SyncFirmwareState
<1>4. i.release \in Firmware!Releases
  BY <1>2
<1>5. /\ offer' \in Offers
      /\ offer'.latest = offer.latest /\ offer'.upgradable = offer.upgradable
      /\ offer'.file = offer.file /\ offer'.supported = offer.supported
      /\ offer'.available = offer.available
  BY <1>3, <1>4, OfferFields DEF Offers
<1>6. /\ check = "no" /\ check' \in {"no", IF mode = "custom" THEN "releases" ELSE "index"}
      /\ UNCHANGED <<Firmware!world, Firmware!installing, found, against>>
      /\ checks' \in 0 .. MaxChecks
  BY OfferFields, FirmwareValues
     DEF Firmware!Poll, Firmware!CheckStart, Firmware!FirmwareConstants
<1>7. QueriesFit' /\ OfferIsNewer' /\ FilesGrow'
  BY <1>5, <1>6 DEF FirmwareIInv, QueriesFit, OfferIsNewer, FilesGrow, Firmware!world,
     Firmware!installing
<1> QED
  BY <1>2, <1>3, <1>5, <1>6, <1>7, OfferFields, CheckKeeps

\* The index of the stable releases, profiles.json, the index of the snapshots.
LEMMA IndexStepIInv ==
    ASSUME FirmwareIInv,
           \/ Firmware!IndexFails \/ Firmware!StableIndexAnswers \/ Firmware!ProfilesAnswer
           \/ Firmware!ProfilesFail \/ Firmware!SnapshotIndexAnswers \/ Firmware!AsuFails
           \/ Firmware!ReleasesFail
    PROVE  FirmwareIInv'
<1> USE DEF Firmware!world, Firmware!installing, Firmware!AfterIndex
<1>t. "own" \in Images
  BY FirmwareValues DEF Firmware!FirmwareConstants
<1>1. CASE Firmware!IndexFails \/ Firmware!AsuFails \/ Firmware!ReleasesFail
  <2>1. /\ UNCHANGED <<Firmware!world, Firmware!installing, info, offer, found,
                       against, checks>>
        /\ check' \in {"no", "asu"} /\ (check' = "asu" => mode # "custom")
    BY <1>1
       DEF Firmware!IndexFails, Firmware!AsuFails, Firmware!ReleasesFail, FirmwareIInv,
           QueriesFit
  <2>2. QueriesFit' /\ OfferIsNewer' /\ FilesGrow'
    BY <2>1 DEF FirmwareIInv, QueriesFit, OfferIsNewer, FilesGrow
  <2> QED
    BY <2>1, <2>2, OfferFields, CheckKeeps
<1>2. CASE Firmware!StableIndexAnswers
  <2> DEFINE newer == Firmware!VersionIsNewer(info.release, newest)
  <2>1. /\ check = "index" /\ mode = "stable"
        /\ offer' = [offer EXCEPT !.latest = newest, !.upgradable = newer]
        /\ check' = IF newer /\ info.board THEN "profiles" ELSE Firmware!AfterIndex
        /\ found' = [release |-> newest, boards |-> {}]
        /\ against' = info.release
        /\ UNCHANGED <<Firmware!world, Firmware!installing, info, checks>>
    BY <1>2 DEF Firmware!StableIndexAnswers
  <2>2. newer \in BOOLEAN /\ (newer <=> newest > info.release)
    BY DEF Firmware!VersionIsNewer
  <2> HIDE DEF newer
  <2>3. offer' \in Offers
    BY <2>1, <2>2, OfferFields DEF Offers
  <2>4. /\ offer'.latest = newest /\ offer'.upgradable = newer /\ offer'.file = offer.file
        /\ offer'.supported = offer.supported /\ offer'.available = offer.available
        /\ offer'.current = offer.current
    BY <2>1, OfferFields DEF Offers
  <2>5. /\ found' \in [release : Firmware!Releases, boards : SUBSET Images]
        /\ found'.release = newest
    BY <2>1, OfferFields
  <2>6. check' \in {"no", "profiles", "asu"}
    BY <2>1
  <2>7. QueriesFit' /\ OfferIsNewer'
    BY <2>1, <2>2, <2>4, <2>6 DEF FirmwareIInv, QueriesFit, OfferIsNewer
  <2>8. FilesGrow'
    BY <2>1, <2>4, <2>5, OfferFields DEF FirmwareIInv, FilesGrow
  <2> QED
    BY <2>1, <2>3, <2>4, <2>5, <2>6, <2>7, <2>8, OfferFields, CheckKeeps
<1>3. CASE Firmware!ProfilesAnswer \/ Firmware!ProfilesFail
  <2> DEFINE file == [release |-> found.release, board |-> "own"]
  <2>1. /\ check = "profiles" /\ check' = "asu" /\ mode # "custom"
        /\ \/ offer' = [offer EXCEPT !.file = file]
           \/ offer' = offer /\ offer.file # Firmware!NoFile
        /\ UNCHANGED <<Firmware!world, Firmware!installing, info, found, against, checks>>
    BY <1>3 DEF Firmware!ProfilesAnswer, Firmware!ProfilesFail, FirmwareIInv, QueriesFit
  <2>2. file \in Firmware!Files /\ file.release = found.release /\ file.board = "own"
    BY <1>t, OfferFields DEF Firmware!Files
  <2>n. found.release > 0 => file # Firmware!NoFile
    BY OfferFields DEF Firmware!NoFile
  <2> HIDE DEF file
  <2>3. offer' \in Offers
    BY <2>1, <2>2, OfferFields DEF Offers
  <2>4. /\ offer'.latest = offer.latest /\ offer'.upgradable = offer.upgradable
        /\ offer'.supported = offer.supported /\ offer'.available = offer.available
        /\ offer'.current = offer.current
        /\ \/ offer'.file = file
           \/ offer'.file = offer.file /\ offer.file # Firmware!NoFile
    BY <2>1, OfferFields DEF Offers
  <2>5. QueriesFit' /\ OfferIsNewer'
    BY <2>1, <2>4 DEF FirmwareIInv, QueriesFit, OfferIsNewer
  <2>6. FilesGrow'
    <3> SUFFICES ASSUME mode' # "custom", ~offer'.available PROVE FilesGrow'
      BY DEF FilesGrow
    <3>1. /\ FilesGrow /\ mode # "custom" /\ ~offer.available
          /\ {newest, running, found.release, offer.file.release, image.file.release}
                \subseteq Int
      BY <2>1, <2>4, OfferFields DEF FirmwareIInv, Firmware!TypeOK, Firmware!Files,
         Firmware!Releases
    <3>2. CASE offer'.file = offer.file /\ offer.file # Firmware!NoFile
      BY <2>1, <3>1, <3>2 DEF FilesGrow
    <3>3. CASE offer'.file = file
      <4>1. running <= found.release
        BY <2>1, <3>1 DEF FilesGrow
      <4> QED
        BY <2>1, <2>2, <2>n, <3>1, <3>3, <4>1 DEF FilesGrow
    <3> QED
      BY <2>4, <3>2, <3>3
  <2> QED
    BY <2>1, <2>2, <2>3, <2>4, <2>5, <2>6, OfferFields, CheckKeeps
<1>4. CASE Firmware!SnapshotIndexAnswers
  <2> DEFINE newer == Firmware!VersionIsNewer(offer.current, newest)
  <2>1. PICK listed \in {FALSE, info.board} :
          offer' = [offer EXCEPT
                       !.latest = newest, !.upgradable = newer,
                       !.file = IF listed THEN [release |-> newest, board |-> "own"]
                                ELSE offer.file]
    BY <1>4 DEF Firmware!SnapshotIndexAnswers
  <2> DEFINE file == IF listed THEN [release |-> newest, board |-> "own"] ELSE offer.file
  <2>2. /\ check = "index" /\ mode = "snapshot" /\ check' \in {"no", "asu"}
        /\ against' = offer.current
        /\ UNCHANGED <<Firmware!world, Firmware!installing, info, found, checks>>
    BY <1>4 DEF Firmware!SnapshotIndexAnswers
  <2>3. newer \in BOOLEAN /\ (newer <=> newest > offer.current)
    BY DEF Firmware!VersionIsNewer
  <2>4. /\ file \in Firmware!Files /\ file.board = "own"
        /\ \/ file = offer.file
           \/ file.release = newest /\ (newest > 0 => file # Firmware!NoFile)
    BY <1>t, <2>2, OfferFields DEF Firmware!Files, Firmware!NoFile
  <2>5. offer' = [offer EXCEPT !.latest = newest, !.upgradable = newer, !.file = file]
    BY <2>1
  <2> HIDE DEF newer, file
  <2>6. offer' \in Offers
    BY <2>3, <2>4, <2>5, OfferFields DEF Offers
  <2>7. /\ offer'.latest = newest /\ offer'.upgradable = newer /\ offer'.file = file
        /\ offer'.supported = offer.supported /\ offer'.available = offer.available
        /\ offer'.current = offer.current
    BY <2>5, OfferFields DEF Offers
  <2>8. QueriesFit' /\ OfferIsNewer'
    BY <2>2, <2>3, <2>7 DEF FirmwareIInv, QueriesFit, OfferIsNewer
  <2>9. FilesGrow'
    <3> SUFFICES ASSUME mode' # "custom", ~offer'.available PROVE FilesGrow'
      BY DEF FilesGrow
    <3>1. /\ FilesGrow /\ mode # "custom" /\ ~offer.available
          /\ {newest, running, offer.file.release, image.file.release} \subseteq Int
      BY <2>2, <2>7, OfferFields DEF FirmwareIInv, Firmware!TypeOK, Firmware!Files,
         Firmware!Releases
    <3>2. CASE file = offer.file
      BY <2>2, <2>7, <3>1, <3>2 DEF FilesGrow
    <3>3. CASE file.release = newest /\ (newest > 0 => file # Firmware!NoFile)
      <4>1. running <= newest
        BY <3>1 DEF FilesGrow
      <4> QED
        BY <2>2, <2>7, <3>1, <3>3, <4>1 DEF FilesGrow
    <3> QED
      BY <2>4, <3>2, <3>3
  <2> QED
    BY <2>2, <2>4, <2>6, <2>7, <2>8, <2>9, OfferFields, CheckKeeps
<1> QED
  BY <1>1, <1>2, <1>3, <1>4

\* The image server and the packages of its release.
LEMMA AsuStepIInv ==
    ASSUME FirmwareIInv, Firmware!AsuAnswers \/ Firmware!PackagesRead
    PROVE  FirmwareIInv'
<1> USE DEF Firmware!world, Firmware!installing
<1>1. CASE Firmware!AsuAnswers
  <2> DEFINE newer == Firmware!VersionIsNewer(offer.current, built)
             available == offer.available \/ newer
  <2>1. /\ check = "asu" /\ mode # "custom"
        /\ offer' = [offer EXCEPT !.supported = TRUE, !.available = available]
        /\ check' = IF newer THEN "packages" ELSE "no"
        /\ found' = [release |-> built, boards |-> {}]
        /\ UNCHANGED <<Firmware!world, Firmware!installing, info, against, checks>>
    BY <1>1 DEF Firmware!AsuAnswers, FirmwareIInv, QueriesFit
  <2>2. /\ available \in BOOLEAN /\ (newer <=> built > offer.current)
        /\ newer => available
        /\ offer.available => available
    BY OfferFields DEF Firmware!VersionIsNewer
  <2> HIDE DEF newer, available
  <2>3. offer' \in Offers
    BY <2>1, <2>2, OfferFields DEF Offers
  <2>4. /\ offer'.latest = offer.latest /\ offer'.upgradable = offer.upgradable
        /\ offer'.file = offer.file /\ offer'.supported = TRUE
        /\ offer'.available = available /\ offer'.current = offer.current
    BY <2>1, OfferFields DEF Offers
  <2>5. /\ found' \in [release : Firmware!Releases, boards : SUBSET Images]
        /\ found'.release = built
    BY <2>1, OfferFields
  <2>6. QueriesFit' /\ OfferIsNewer' /\ FilesGrow'
    BY <2>1, <2>2, <2>4, <2>5 DEF FirmwareIInv, QueriesFit, OfferIsNewer, FilesGrow
  <2> QED
    BY <2>1, <2>3, <2>4, <2>5, <2>6, OfferFields, CheckKeeps
<1>2. CASE Firmware!PackagesRead
  <2>1. /\ check = "packages" /\ check' = "no" /\ mode # "custom"
        /\ offer.available /\ found.release > offer.current
        /\ UNCHANGED <<Firmware!world, Firmware!installing, info, found, checks>>
    BY <1>2 DEF Firmware!PackagesRead, FirmwareIInv, QueriesFit
  <2>2. CASE UNCHANGED <<offer, against>>
    <3>1. QueriesFit' /\ OfferIsNewer' /\ FilesGrow'
      BY <2>1, <2>2 DEF FirmwareIInv, QueriesFit, OfferIsNewer, FilesGrow
    <3> QED
      BY <2>1, <2>2, <3>1, OfferFields, CheckKeeps
  <2>3. CASE /\ offer' = [offer EXCEPT !.latest = found.release, !.upgradable = TRUE,
                                       !.file = Firmware!NoFile]
             /\ against' = offer.current
    <3>1. Firmware!NoFile \in Firmware!Files /\ Firmware!NoFile.board = "own"
      BY FirmwareValues
         DEF Firmware!FirmwareConstants, Firmware!NoFile, Firmware!Files, Firmware!Releases
    <3>2. offer' \in Offers
      BY <2>3, <3>1, OfferFields DEF Offers
    <3>3. /\ offer'.latest = found.release /\ offer'.file = Firmware!NoFile
          /\ offer'.supported = offer.supported /\ offer'.available = offer.available
      BY <2>3, OfferFields DEF Offers
    <3>4. QueriesFit' /\ OfferIsNewer' /\ FilesGrow'
      BY <2>1, <2>3, <3>3 DEF FirmwareIInv, QueriesFit, OfferIsNewer, FilesGrow
    <3> QED
      BY <2>1, <2>3, <3>1, <3>2, <3>3, <3>4, OfferFields, CheckKeeps
  <2> QED
    BY <1>2, <2>2, <2>3 DEF Firmware!PackagesRead
<1> QED
  BY <1>1, <1>2

\* The releases and the tags of a custom repository.
LEMMA RepositoryStepIInv ==
    ASSUME FirmwareIInv, Firmware!ReleasesAnswer \/ Firmware!TagsAnswer
    PROVE  FirmwareIInv'
<1> USE DEF Firmware!world, Firmware!installing
<1>1. CASE Firmware!ReleasesAnswer
  <2>1. /\ check = "releases" /\ check' = "tags" /\ mode = "custom"
        /\ UNCHANGED <<Firmware!world, Firmware!installing, info, offer, against, checks>>
    BY <1>1 DEF Firmware!ReleasesAnswer, FirmwareIInv, QueriesFit
  <2>2. \E boards \in SUBSET Images, r \in {imaged, newest} :
            found' = [release |-> r, boards |-> boards]
    BY <1>1 DEF Firmware!ReleasesAnswer
  <2>3. found' \in [release : Firmware!Releases, boards : SUBSET Images]
    BY <2>2, OfferFields
  <2>4. QueriesFit' /\ OfferIsNewer' /\ FilesGrow'
    BY <2>1 DEF FirmwareIInv, QueriesFit, OfferIsNewer, FilesGrow
  <2> QED
    BY <2>1, <2>3, <2>4, OfferFields, CheckKeeps
<1>2. CASE Firmware!TagsAnswer
  <2>1. /\ check = "tags" /\ check' = "no" /\ mode = "custom"
        /\ against' = offer.current
        /\ UNCHANGED <<Firmware!world, Firmware!installing, info, found, checks>>
    BY <1>2 DEF Firmware!TagsAnswer, FirmwareIInv, QueriesFit
  <2>2. PICK tagged \in {offer.named, info.release # 0} :
          LET same == tagged /\ info.release = found.release
              newer == IF textual THEN ~same
                       ELSE Firmware!VersionIsNewer(offer.current, found.release)
              made == [offer EXCEPT !.named = tagged, !.latest = found.release,
                                    !.upgradable = newer]
          IN  IF Firmware!Matching(found.boards) = {} THEN offer' = made
              ELSE \E b \in Firmware!Matching(found.boards) :
                      offer' = [made EXCEPT
                                   !.file = [release |-> found.release, board |-> b]]
    BY <1>2 DEF Firmware!TagsAnswer
  <2> DEFINE same == tagged /\ info.release = found.release
             newer == IF textual THEN ~same
                      ELSE Firmware!VersionIsNewer(offer.current, found.release)
             made == [offer EXCEPT !.named = tagged, !.latest = found.release,
                                   !.upgradable = newer]
  <2>3. /\ tagged \in BOOLEAN /\ newer \in BOOLEAN
        /\ ~textual => (newer <=> found.release > offer.current)
    <3>1. offer.named \in BOOLEAN
      BY OfferFields
    <3>2. tagged \in BOOLEAN
      BY <3>1
    <3>3. textual \in BOOLEAN
      BY DEF FirmwareIInv, Firmware!TypeOK
    <3>4. CASE textual
      BY <3>2, <3>4
    <3>5. CASE ~textual
      BY <3>2, <3>5 DEF Firmware!VersionIsNewer
    <3> QED
      BY <3>3, <3>4, <3>5
  <2>4. \/ offer' = made
        \/ \E b \in Images :
              offer' = [made EXCEPT !.file = [release |-> found.release, board |-> b]]
    <3>1. Firmware!Matching(found.boards) \subseteq Images
      BY OfferFields DEF Firmware!Matching
    <3> QED
      BY <2>2, <3>1
  <2> HIDE DEF newer
  <2>5. made \in Offers
    BY <2>3, OfferFields DEF Offers
  <2>6. /\ made.latest = found.release /\ made.upgradable = newer
        /\ made.supported = offer.supported /\ made.available = offer.available
    BY OfferFields DEF Offers
  <2> HIDE DEF made
  <2>7. \A b \in Images : [release |-> found.release, board |-> b] \in Firmware!Files
    BY OfferFields DEF Firmware!Files
  <2>8. offer' \in Offers
    BY <2>4, <2>5, <2>7 DEF Offers
  <2>9. /\ offer'.latest = found.release /\ offer'.upgradable = newer
        /\ offer'.supported = offer.supported /\ offer'.available = offer.available
    BY <2>4, <2>5, <2>6 DEF Offers
  <2>10. QueriesFit' /\ OfferIsNewer' /\ FilesGrow'
    BY <2>1, <2>3, <2>9 DEF FirmwareIInv, QueriesFit, OfferIsNewer, FilesGrow
  <2> QED
    BY <2>1, <2>8, <2>10, OfferFields, CheckKeeps
<1> QED
  BY <1>1, <1>2

\* Every step keeps the invariant.
LEMMA FirmwareNextIInv == FirmwareIInv /\ [Firmware!Next]_firmwareVars => FirmwareIInv'
<1>1. FirmwareIInv /\ UNCHANGED firmwareVars => FirmwareIInv'
  BY
     DEF firmwareVars, FirmwareIInv, Firmware!TypeOK, QueriesFit, OfferIsNewer, FilesGrow,
         ImageIsNewer, Fits
<1>2. FirmwareIInv /\ Firmware!CheckStep => FirmwareIInv'
  BY PollStepIInv, IndexStepIInv, AsuStepIInv, RepositoryStepIInv DEF Firmware!CheckStep
<1> QED
  BY <1>1, <1>2, InstallStepIInv, WorldIInv DEF Firmware!Next

\* And flashes no image that is older, but for the exceptions.
LEMMA FirmwareUpgrades ==
    ASSUME FirmwareIInv, [Firmware!Next]_firmwareVars, running' < running
    PROVE  \/ textual \/ ~image.offered \/ image.against # running
           \/ mode = "custom" /\ image.file.release # image.latest
<1>1. running \in Int /\ image.file.release \in Int
  BY DEF FirmwareIInv, Firmware!TypeOK, Firmware!Releases, Firmware!Files
<1>2. running' # running
  BY <1>1
<1>3. Firmware!Flashed
  BY <1>2
     DEF Firmware!Next, Firmware!CheckStep, Firmware!InstallStep, firmwareVars,
         Firmware!installing, Firmware!Poll, Firmware!CheckStart, Firmware!IndexFails,
         Firmware!StableIndexAnswers, Firmware!ProfilesAnswer, Firmware!ProfilesFail,
         Firmware!SnapshotIndexAnswers, Firmware!AsuFails, Firmware!AsuAnswers,
         Firmware!PackagesRead, Firmware!ReleasesFail, Firmware!ReleasesAnswer,
         Firmware!TagsAnswer, Firmware!InstallStart, Firmware!BuildRequested,
         Firmware!Built, Firmware!UrlTaken, Firmware!InstallFails, Firmware!Released,
         Firmware!ImageAdded, Firmware!AsuUpdated
<1> QED
  BY <1>1, <1>3 DEF FirmwareIInv, ImageIsNewer, Fits, Firmware!Flashed

-----------------------------------------------------------------------------
(* The switches of the other kinds: what the scripts do, request by        *)
(* request.                                                                *)

ActRequests == [does : Seq(Act!Effects), way : Act!Ways]
ActPhases == {"idle", "running", "acked"}
ActRecords == [phase : ActPhases, wants : BOOLEAN, todo : Seq(ActRequests),
               clean : BOOLEAN, alone : BOOLEAN]
Staged == {{}, {TRUE}, {FALSE}}
ActSettings == [conf : BOOLEAN, delta : Staged, live : BOOLEAN]

\* The scripts differ in what they do, in how many requests; by kind and transport.
InThree ==
    /\ kind \in {"rule", "redirect", "sqm"}
    /\ <<kind, actVia>> \notin {<<"redirect", "ubus">>, <<"rule", "luci">>, <<"redirect", "luci">>}
InOne == kind \in {"rule", "redirect"} /\ actVia = "luci"
InTwo == kind \in {"adblock", "simple_adblock", "banip"}
JustRuns == kind \in {"service", "led", "light", "wireguard", "wps"}

ActPlan ==
    IF InOne THEN <<<<"set", "commit", "reload">>>>
    ELSE IF InThree THEN <<<<"set">>, <<"commit">>, <<"reload">>>>
    ELSE IF InTwo THEN <<<<"set", "commit">>, <<"run">>>>
    ELSE IF JustRuns THEN <<<<"run">>>>
    ELSE IF kind = "oneshot" THEN <<<<"enable">>, <<"run">>>>
    ELSE <<<<"set">>, <<"commit">>, <<"unknown">>>>

\* The rest of a script.
OnPlan(todo) ==
    /\ Len(todo) <= Len(ActPlan)
    /\ \A i \in 1..Len(todo) : todo[i].does = ActPlan[Len(ActPlan) - Len(todo) + i]

ActTypes ==
    /\ kind \in Kinds /\ actVia \in Transports
    /\ actConf \in BOOLEAN /\ live \in BOOLEAN /\ actData \in BOOLEAN
    /\ delta \in Staged /\ actRead \in Staged
    /\ act \in [Ops -> ActRecords]
    /\ \A o \in Ops : /\ act[o].phase = "running" <=> act[o].todo # <<>>
                      /\ OnPlan(act[o].todo)
    /\ actStarted \in 0..(MaxOps + 1) /\ actFaults \in 0..MaxFaults

\* Nothing can go wrong unnoticed with a verified operation.
ActVerified ==
    Act!Verified =>
        \A o \in Ops : /\ act[o].clean
                      /\ \A i \in DOMAIN act[o].todo : act[o].todo[i].way = "call"

ActAlone ==
    \A o \in Ops : Act!Running(o) /\ act[o].alone =>
        \A p \in Ops : Act!Running(p) => p = o

\* What an undisturbed operation has done with n requests left.
Put(n, wants, c, d, l) ==
    /\ InThree => /\ n = 2 => d = {wants}
                  /\ n \in 0..1 => c = wants /\ d = {}
                  /\ n = 0 => l = wants
    /\ InOne /\ n = 0 => c = wants /\ d = {} /\ l = wants
    /\ InTwo => /\ n \in 0..1 => c = wants /\ d = {}
                /\ n = 0 => l = wants
    /\ JustRuns /\ n = 0 => l = wants
    /\ kind = "oneshot" => /\ n \in 0..1 => c = wants
                           /\ n = 0 => l = wants

ActPuts ==
    \A o \in Ops : Act!Running(o) /\ act[o].alone /\ act[o].clean =>
        Put(Len(act[o].todo), act[o].wants, actConf, delta, live)

\* Where the last request of a script reads what is committed, somebody is still to
\* read what the router does not do yet, and to commit what is staged.
ActAgrees ==
    actFaults = 0 /\ (InThree \/ InOne) =>
        /\ live # actConf => \E o \in Ops : act[o].phase = "running"
        /\ delta # {} => \E o \in Ops : Len(act[o].todo) >= 2

ActIInv == ActTypes /\ ActVerified /\ ActAlone /\ ActPuts /\ ActAgrees

\* A request has at most three effects, so that the definition of Prefix has a
\* solution, which need not be found by induction.
LEMMA ActPrefix ==
    ASSUME NEW o, Len(Head(act[o].todo).does) \in 0..3
    PROVE  LET does == Head(act[o].todo).does
               wants == act[o].wants
               P(n) == Act!Prefix(o, n)
           IN  /\ P(0) = Act!Settings
               /\ \A n \in 1..Len(does) : P(n) = Act!After(does[n], wants, P(n - 1))
<1> DEFINE does == Head(act[o].todo).does
           wants == act[o].wants
           D == 0..Len(does)
           Body(g) == [i \in D |-> IF i = 0 THEN Act!Settings
                                   ELSE Act!After(does[i], wants, g[i - 1])]
           F == CHOOSE g : g = Body(g)
           s1 == Act!After(does[1], wants, Act!Settings)
           s2 == Act!After(does[2], wants, s1)
           s3 == Act!After(does[3], wants, s2)
           w == [i \in D |-> IF i = 0 THEN Act!Settings ELSE IF i = 1 THEN s1
                             ELSE IF i = 2 THEN s2 ELSE s3]
<1>0. Len(does) \in 0..3
  OBVIOUS
<1>1. \A n : Act!Prefix(o, n) = F[n]
  BY DEF Act!Prefix
<1>2. w = Body(w)
  <2>1. \A i \in D : w[i] = Body(w)[i]
    <3> SUFFICES ASSUME NEW i \in D
                 PROVE  w[i] = Body(w)[i]
      OBVIOUS
    <3>1. Body(w)[i] = IF i = 0 THEN Act!Settings ELSE Act!After(does[i], wants, w[i - 1])
      OBVIOUS
    <3>2. i = 0 \/ i = 1 \/ i = 2 \/ i = 3
      <4>1. \A m \in 0..3 : \A j \in 0..m : j = 0 \/ j = 1 \/ j = 2 \/ j = 3
        OBVIOUS
      <4> HIDE DEF does
      <4> QED
        BY <1>0, <4>1
    <3>3. \A j \in D : w[j] = IF j = 0 THEN Act!Settings ELSE IF j = 1 THEN s1
                             ELSE IF j = 2 THEN s2 ELSE s3
      OBVIOUS
    <3>4. i # 0 => i - 1 \in D
      OBVIOUS
    <3> HIDE DEF w, D, does, Body, wants
    <3>5. CASE i = 0
      BY <3>1, <3>3, <3>5
    <3>6. CASE i = 1
      BY <3>1, <3>3, <3>4, <3>6
    <3>7. CASE i = 2
      BY <3>1, <3>3, <3>4, <3>7
    <3>8. CASE i = 3
      BY <3>1, <3>3, <3>4, <3>8
    <3> QED
      BY <3>2, <3>5, <3>6, <3>7, <3>8
  <2>2. DOMAIN w = D /\ DOMAIN Body(w) = D
    OBVIOUS
  <2> QED
    BY <2>1, <2>2
<1> HIDE DEF Body
<1>3. F = Body(F)
  BY <1>2
<1> USE DEF Body
<1> HIDE DEF F
<1>4. F[0] = Act!Settings
  BY <1>3
<1>5. ASSUME NEW n \in 1..Len(does) PROVE F[n] = Act!After(does[n], wants, F[n - 1])
  <2>1. n \in D /\ n # 0
    <3> HIDE DEF does
    <3> QED
      BY <1>0
  <2> HIDE DEF does, D
  <2> QED
    BY <1>3, <2>1
<1> QED
  BY <1>1, <1>4, <1>5

\* The effect of a request's effects.
LEMMA ActEffects ==
    ASSUME NEW c, NEW d, NEW l, NEW wants
    PROVE  LET S(x, y, z) == [conf |-> x, delta |-> y, live |-> z]
           IN  /\ Act!After("set", wants, S(c, d, l)) = S(c, {wants}, l)
               /\ Act!After("commit", wants, S(c, d, l)) =
                    S(IF d = {} THEN c ELSE CHOOSE v \in d : TRUE, {}, l)
               /\ Act!After("reload", wants, S(c, d, l)) = S(c, d, c)
               /\ Act!After("run", wants, S(c, d, l)) = S(c, d, wants)
               /\ Act!After("enable", wants, S(c, d, l)) = S(wants, d, l)
               /\ Act!After("unknown", wants, S(c, d, l)) = S(c, d, l)
<1> DEFINE S(x, y, z) == [conf |-> x, delta |-> y, live |-> z]
<1>1. Act!After("set", wants, S(c, d, l)) = S(c, {wants}, l)
  BY DEF Act!After
<1>2. Act!After("commit", wants, S(c, d, l)) =
        S(IF d = {} THEN c ELSE CHOOSE v \in d : TRUE, {}, l)
  <2> DEFINE Some(x) == CHOOSE v \in x : TRUE
             s == S(c, d, l)
  <2>1. s.delta = d /\ s.conf = c
    OBVIOUS
  <2>2. \A x : [S(x, d, l) EXCEPT !.delta = {}] = S(x, {}, l)
    OBVIOUS
  <2>3. \A x : [s EXCEPT !.conf = x] = S(x, d, l)
    OBVIOUS
  <2>6. \A x : [s EXCEPT !.conf = x, !.delta = {}] = S(x, {}, l)
    <3> SUFFICES ASSUME NEW x PROVE [s EXCEPT !.conf = x, !.delta = {}] = S(x, {}, l)
      OBVIOUS
    <3>1. [s EXCEPT !.conf = x, !.delta = {}] = [[s EXCEPT !.conf = x] EXCEPT !.delta = {}]
      OBVIOUS
    <3> HIDE DEF S, s
    <3> QED
      BY <2>2, <2>3, <3>1
  <2> HIDE DEF s
  <2>4. Act!After("commit", wants, s) =
          [s EXCEPT !.conf = IF s.delta = {} THEN s.conf ELSE Some(s.delta), !.delta = {}]
    BY DEF Act!After
  <2> HIDE DEF Some
  <2>5. Act!After("commit", wants, s) = S(IF d = {} THEN c ELSE Some(d), {}, l)
    BY <2>1, <2>4, <2>6
  <2> QED
    BY <2>5 DEF Some, s
<1>3. Act!After("reload", wants, S(c, d, l)) = S(c, d, c)
  BY DEF Act!After
<1>4. Act!After("run", wants, S(c, d, l)) = S(c, d, wants)
  BY DEF Act!After
<1>5. Act!After("enable", wants, S(c, d, l)) = S(wants, d, l)
  BY DEF Act!After
<1>6. Act!After("unknown", wants, S(c, d, l)) = S(c, d, l)
  BY DEF Act!After
<1> HIDE DEF S
<1> QED
  BY <1>1, <1>2, <1>3, <1>4, <1>5, <1>6 DEF S

\* The router's settings stay such.
LEMMA ActAfterType ==
    ASSUME NEW e \in Act!Effects, NEW wants \in BOOLEAN, NEW s \in ActSettings
    PROVE  Act!After(e, wants, s) \in ActSettings
<1> DEFINE S(x, y, z) == [conf |-> x, delta |-> y, live |-> z]
<1>1. PICK c \in BOOLEAN, d \in Staged, l \in BOOLEAN : s = S(c, d, l)
  BY DEF ActSettings
<1>2. (IF d = {} THEN c ELSE CHOOSE v \in d : TRUE) \in BOOLEAN
  BY Zenon DEF Staged
<1>3. {wants} \in Staged /\ {} \in Staged
  BY Zenon DEF Staged
<1>4. \A x \in BOOLEAN, y \in Staged, z \in BOOLEAN : S(x, y, z) \in ActSettings
  BY DEF ActSettings
<1>5. /\ Act!After("set", wants, S(c, d, l)) = S(c, {wants}, l)
      /\ Act!After("commit", wants, S(c, d, l)) =
            S(IF d = {} THEN c ELSE CHOOSE v \in d : TRUE, {}, l)
      /\ Act!After("reload", wants, S(c, d, l)) = S(c, d, c)
      /\ Act!After("run", wants, S(c, d, l)) = S(c, d, wants)
      /\ Act!After("enable", wants, S(c, d, l)) = S(wants, d, l)
      /\ Act!After("unknown", wants, S(c, d, l)) = S(c, d, l)
  BY ActEffects
<1> HIDE DEF S
<1> QED
  BY <1>1, <1>2, <1>3, <1>4, <1>5 DEF Act!Effects

\* The scripts of a switch are the plan of its kind and transport, request by request.
LEMMA ActPlans ==
    /\ Len(ActPlan) \in 1..3
    /\ \A i \in 1..Len(ActPlan) : ActPlan[i] \in Seq(Act!Effects) /\ Len(ActPlan[i]) \in 1..3
<1> DEFINE S == Seq(Act!Effects)
<1>1. /\ <<"set", "commit", "reload">> \in S /\ <<"set">> \in S /\ <<"commit">> \in S
      /\ <<"reload">> \in S /\ <<"run">> \in S /\ <<"enable">> \in S
      /\ <<"unknown">> \in S /\ <<"set", "commit">> \in S
  BY DEF Act!Effects
<1>2. \E a, b, c \in S : /\ ActPlan \in {<<a>>, <<a, b>>, <<a, b, c>>}
                        /\ {Len(a), Len(b), Len(c)} \subseteq 1..3
  <2>1. ASSUME NEW a \in S, Len(a) \in 1..3, ActPlan = <<a>>
        PROVE  <1>2
    BY <2>1
  <2>2. ASSUME NEW a \in S, NEW b \in S, Len(a) \in 1..3, Len(b) \in 1..3, ActPlan = <<a, b>>
        PROVE  <1>2
    BY <2>2
  <2>3. ASSUME NEW a \in S, NEW b \in S, NEW c \in S, Len(a) \in 1..3, Len(b) \in 1..3, 
               Len(c) \in 1..3, ActPlan = <<a, b, c>>
        PROVE  <1>2
    BY <2>3
  <2>4. \A x, y, z : Len(<<x>>) = 1 /\ Len(<<x, y>>) = 2 /\ Len(<<x, y, z>>) = 3
    OBVIOUS
  <2> HIDE DEF S
  <2> QED
    BY <1>1, <2>1, <2>2, <2>3, <2>4 DEF ActPlan
<1> HIDE DEF S
<1>3. PICK a \in S, b \in S, c \in S : /\ ActPlan \in {<<a>>, <<a, b>>, <<a, b, c>>}
                        /\ {Len(a), Len(b), Len(c)} \subseteq 1..3
  BY <1>2
<1> QED
  BY <1>3 DEF S

\* A script of this plan.
IsScript(script) ==
    /\ script \in Seq(ActRequests) /\ script # <<>>
    /\ Len(script) = Len(ActPlan)
    /\ OnPlan(script)
    /\ Act!Verified => \A i \in DOMAIN script : script[i].way = "call"

Request(does, way) == [does |-> does, way |-> way]

\* Two scripts of one request make one of two.
LEMMA JoinedRequests == \A x, y : <<x>> \o <<y>> = <<x, y>>
<1> SUFFICES ASSUME NEW x, NEW y PROVE <<x>> \o <<y>> = <<x, y>>
  OBVIOUS
<1> DEFINE S == {x, y}
           s == <<x>>
           t == <<y>>
<1>1. s \in Seq(S) /\ t \in Seq(S) /\ Len(s) = 1 /\ Len(t) = 1 /\ s[1] = x /\ t[1] = y
  OBVIOUS
<1>2. <<x, y>> \in Seq(S) /\ Len(<<x, y>>) = 2 /\ <<x, y>>[1] = x /\ <<x, y>>[2] = y
  OBVIOUS
<1> HIDE DEF s, t, S
<1>3. s \o t \in Seq(S) /\ Len(s \o t) = 2 /\ (s \o t)[1] = x /\ (s \o t)[2] = y
  <2>1. /\ s \o t \in Seq(S) /\ Len(s \o t) = Len(s) + Len(t)
        /\ \A i \in 1..(Len(s) + Len(t)) :
                (s \o t)[i] = IF i <= Len(s) THEN s[i] ELSE t[i - Len(s)]
    BY <1>1, ConcatProperties
  <2> QED
    BY <1>1, <2>1
<1>4. \A u, v \in Seq(S) : Len(u) = 2 /\ Len(v) = 2 /\ u[1] = v[1] /\ u[2] = v[2] => u = v
  OBVIOUS
<1>5. s \o t = <<x, y>>
  BY <1>2, <1>3, <1>4
<1> QED
  BY <1>5 DEF s, t

\* Scripts of one, two and three requests.
LEMMA ScriptOfOne ==
    ASSUME NEW d \in Seq(Act!Effects), ActPlan = <<d>>,
           NEW a \in Act!Ways, Act!Verified => a = "call"
    PROVE  IsScript(<<Request(d, a)>>)
BY DEF IsScript, Request, ActRequests, OnPlan

\* A script of two requests.
LEMMA ScriptOfTwo ==
    ASSUME NEW d \in Seq(Act!Effects), NEW e \in Seq(Act!Effects), ActPlan = <<d, e>>,
           NEW a \in Act!Ways, NEW b \in Act!Ways, ~Act!Verified
    PROVE  IsScript(<<Request(d, a), Request(e, b)>>)
BY DEF IsScript, Request, ActRequests, OnPlan

\* A script of three requests.
LEMMA ScriptOfThree ==
    ASSUME NEW d \in Seq(Act!Effects), NEW e \in Seq(Act!Effects),
           NEW f \in Seq(Act!Effects), ActPlan = <<d, e, f>>,
           NEW a \in Act!Ways, NEW b \in Act!Ways, NEW c \in Act!Ways,
           Act!Verified => a = "call" /\ b = "call" /\ c = "call"
    PROVE  IsScript(<<Request(d, a), Request(e, b), Request(f, c)>>)
BY DEF IsScript, Request, ActRequests, OnPlan

\* The script of a switch is its plan.
LEMMA ActScripts ==
    ASSUME kind \in Kinds, actVia \in Transports
    PROVE  IsScript(Act!Switch.script)
<1> DEFINE script == Act!Switch.script
<1>1. /\ kind \in Act!AllKinds /\ actVia \in {"ubus", "luci", "ssh"}
  BY ActionsValues DEF Act!ActionsConstants
<1>2. \A a, b, c : Act!Over(a, b, c) =
          IF actVia = "ubus" THEN a ELSE IF actVia = "luci" THEN b ELSE c
  BY <1>1 DEF Act!Over
<1>3. \A d : \E w \in Act!Ways : Act!Shell(d) = Request(d, w)
  BY DEF Act!Shell, Act!Quiet, Act!Command, Act!Ways, Request
<1>4. \A d : /\ Act!Call(d) = Request(<<d>>, "call")
             /\ Act!Command(d) = Request(d, "command")
             /\ Act!Quiet(d) = Request(d, "quiet")
  BY DEF Act!Quiet, Act!Command, Act!Call, Request
<1>5. {"call", "command", "quiet"} \subseteq Act!Ways
  BY DEF Act!Ways
<1>6. Act!Verified <=> kind = "rule" /\ actVia = "ubus"
  BY DEF Act!Verified
<1> HIDE DEF Act!Call, Act!Command, Act!Quiet, Act!Shell, Act!Over, Request
<1>7. CASE InThree
  <2>1. PICK a, b, c \in Act!Ways :
            /\ script = <<Request(<<"set">>, a), Request(<<"commit">>, b), Request(<<"reload">>, c)>>
            /\ Act!Verified => a = "call" /\ b = "call" /\ c = "call"
    <3>1. CASE kind = "rule"
      <4>1. script = Act!Over(Act!UbusSetsRule, Act!LuciSetsRule, Act!SshSetsRule)
        BY <3>1 DEF Act!Switch, Act!RuleSwitch
      <4> QED
        BY <1>1, <1>2, <1>4, <1>5, <1>6, <1>7, <3>1, <4>1
           DEF InThree, Act!UbusSetsRule, Act!SshSetsRule
    <3>2. CASE kind = "redirect"
      <4>1. script = Act!Over(Act!UbusSetsRedirect, Act!LuciSetsRedirect, Act!SshSetsRedirect)
        BY <3>2 DEF Act!Switch, Act!RedirectSwitch
      <4> QED
        BY <1>1, <1>2, <1>4, <1>5, <1>6, <1>7, <3>2, <4>1
           DEF InThree, Act!SshSetsRedirect, Act!SshSetsRule
    <3>3. CASE kind = "sqm"
      <4>1. script = Act!Over(Act!UbusSetsSqm, Act!LuciSetsSqm, Act!SshSetsSqm)
        BY <3>3 DEF Act!Switch, Act!SqmSwitch
      <4> QED
        BY <1>1, <1>2, <1>4, <1>5, <1>6, <1>7, <3>3, <4>1
           DEF InThree, Act!UbusSetsSqm, Act!LuciSetsSqm, Act!SshSetsSqm
    <3> QED
      BY <1>7, <3>1, <3>2, <3>3 DEF InThree
  <2>2. ActPlan = <<<<"set">>, <<"commit">>, <<"reload">>>>
    BY <1>7 DEF InThree, InOne, ActPlan
  <2>3. /\ <<"set">> \in Seq(Act!Effects) /\ <<"commit">> \in Seq(Act!Effects)
        /\ <<"reload">> \in Seq(Act!Effects)
    BY DEF Act!Effects
  <2> QED
    BY <2>1, <2>2, <2>3, ScriptOfThree
<1>8. CASE InOne
  <2>1. script = <<Request(<<"set", "commit", "reload">>, "command")>>
    <3>1. kind = "rule" => script = Act!Over(Act!UbusSetsRule, Act!LuciSetsRule, Act!SshSetsRule)
      BY DEF Act!Switch, Act!RuleSwitch
    <3>2. kind = "redirect" =>
            script = Act!Over(Act!UbusSetsRedirect, Act!LuciSetsRedirect, Act!SshSetsRedirect)
      BY DEF Act!Switch, Act!RedirectSwitch
    <3> QED
      BY <1>2, <1>4, <1>8, <3>1, <3>2 DEF InOne, Act!LuciSetsRule, Act!LuciSetsRedirect
  <2>2. ActPlan = <<<<"set", "commit", "reload">>>>
    BY <1>8 DEF ActPlan
  <2>3. <<"set", "commit", "reload">> \in Seq(Act!Effects)
    BY DEF Act!Effects
  <2>4. ~Act!Verified
    BY <1>6, <1>8 DEF InOne
  <2> QED
    BY <1>5, <2>1, <2>2, <2>3, <2>4, ScriptOfOne
<1>9. CASE InTwo
  <2>1. \E a, b \in Act!Ways :
            script = <<Request(<<"set", "commit">>, a), Request(<<"run">>, b)>>
    <3>1. kind = "adblock" =>
            script = Act!Over(Act!UbusSetsAdblock, Act!LuciSetsAdblock, Act!SshSetsAdblock)
      BY DEF Act!Switch, Act!AdBlockSwitch
    <3>2. kind = "simple_adblock" =>
            script = Act!Over(Act!UbusSetsSimple, Act!LuciSetsSimple, Act!SshSetsSimple)
      BY DEF Act!Switch, Act!SimpleAdBlockSwitch
    <3>3. kind = "banip" =>
            script = <<Act!Shell(<<"set", "commit">>), Act!Shell(<<"run">>)>>
      BY DEF Act!Switch, Act!BanIpSwitch, Act!SetsBanip
    <3>4. CASE kind = "banip"
      BY <1>3, <3>3, <3>4
    <3>5. CASE kind # "banip"
      BY <1>2, <1>4, <1>5, <1>9, <3>1, <3>2, <3>5
         DEF InTwo, Act!UbusSetsAdblock, Act!LuciSetsAdblock, Act!SshSetsAdblock,
             Act!UbusSetsSimple, Act!LuciSetsSimple, Act!SshSetsSimple
    <3> QED
      BY <3>4, <3>5
  <2>2. ActPlan = <<<<"set", "commit">>, <<"run">>>>
    BY <1>9 DEF InTwo, InOne, InThree, ActPlan
  <2>3. <<"set", "commit">> \in Seq(Act!Effects) /\ <<"run">> \in Seq(Act!Effects)
    BY DEF Act!Effects
  <2>4. ~Act!Verified
    BY <1>6, <1>9 DEF InTwo
  <2> QED
    BY <2>1, <2>2, <2>3, <2>4, ScriptOfTwo
<1>10. CASE JustRuns
  <2>1. \E a \in Act!Ways : script = <<Request(<<"run">>, a)>>
    <3>1. kind = "service" => script = Act!Manages("run")
      BY DEF Act!Switch, Act!ServiceSwitch
    <3>2. kind = "led" =>
            script = Act!Over(Act!UbusSetsLed, Act!LuciSetsLed, Act!SshSetsLed)
      BY DEF Act!Switch, Act!LedSwitch
    <3>3. kind = "light" =>
            script = Act!Over(Act!UbusSetsLed, Act!LuciSetsLed, Act!SshSetsLed)
      BY DEF Act!Switch, Act!LedLight, Act!LedSwitch
    <3>4. kind = "wireguard" => script = <<Act!Shell(<<"run">>)>>
      BY DEF Act!Switch, Act!WireGuardSwitch
    <3>5. kind = "wps" =>
            script = Act!Over(Act!UbusSetsWps, Act!LuciSetsWps, Act!SshSetsWps)
      BY DEF Act!Switch, Act!WpsSwitch
    <3>6. CASE kind = "wireguard"
      BY <1>3, <3>4, <3>6
    <3>7. CASE kind # "wireguard"
      BY <1>2, <1>4, <1>5, <1>10, <3>1, <3>2, <3>3, <3>5, <3>7
         DEF JustRuns, Act!Manages, Act!UbusManages, Act!LuciManages, Act!SshManages,
             Act!UbusSetsLed, Act!LuciSetsLed, Act!SshSetsLed, Act!UbusSetsWps,
             Act!LuciSetsWps, Act!SshSetsWps
    <3> QED
      BY <3>6, <3>7
  <2>2. ActPlan = <<<<"run">>>>
    BY <1>10 DEF JustRuns, InOne, InThree, InTwo, ActPlan
  <2>3. <<"run">> \in Seq(Act!Effects)
    BY DEF Act!Effects
  <2>4. ~Act!Verified
    BY <1>6, <1>10 DEF JustRuns
  <2> QED
    BY <2>1, <2>2, <2>3, <2>4, ScriptOfOne
<1>11. CASE kind = "oneshot"
  <2>1. \E a, b \in Act!Ways : script = <<Request(<<"enable">>, a), Request(<<"run">>, b)>>
    <3>1. script = Act!Manages("enable") \o Act!Manages("run")
      BY <1>11 DEF Act!Switch, Act!OneShotSwitch
    <3>2. \A e : \E a \in Act!Ways : Act!Manages(e) = <<Request(<<e>>, a)>>
      BY <1>2, <1>4, <1>5
         DEF Act!Manages, Act!UbusManages, Act!LuciManages, Act!SshManages
    <3>3. PICK a \in Act!Ways : Act!Manages("enable") = <<Request(<<"enable">>, a)>>
      BY <3>2
    <3>4. PICK b \in Act!Ways : Act!Manages("run") = <<Request(<<"run">>, b)>>
      BY <3>2
    <3> HIDE DEF script
    <3> QED
      BY <3>1, <3>3, <3>4, JoinedRequests
  <2>2. ActPlan = <<<<"enable">>, <<"run">>>>
    BY <1>11 DEF JustRuns, InOne, InThree, InTwo, ActPlan
  <2>3. <<"enable">> \in Seq(Act!Effects) /\ <<"run">> \in Seq(Act!Effects)
    BY DEF Act!Effects
  <2>4. ~Act!Verified
    BY <1>6, <1>11
  <2> QED
    BY <2>1, <2>2, <2>3, <2>4, ScriptOfTwo
<1>12. CASE kind = "redirect" /\ actVia = "ubus"
  <2>1. script = <<Request(<<"set">>, "call"), Request(<<"commit">>, "call"),
                   Request(<<"unknown">>, "call")>>
    <3>1. script = Act!Over(Act!UbusSetsRedirect, Act!LuciSetsRedirect, Act!SshSetsRedirect)
      BY <1>12 DEF Act!Switch, Act!RedirectSwitch
    <3> QED
      BY <1>2, <1>4, <1>12, <3>1 DEF Act!UbusSetsRedirect
  <2>2. ActPlan = <<<<"set">>, <<"commit">>, <<"unknown">>>>
    BY <1>12 DEF JustRuns, InOne, InThree, InTwo, ActPlan
  <2>3. /\ <<"set">> \in Seq(Act!Effects) /\ <<"commit">> \in Seq(Act!Effects)
        /\ <<"unknown">> \in Seq(Act!Effects)
    BY DEF Act!Effects
  <2> QED
    BY <1>5, <2>1, <2>2, <2>3, ScriptOfThree
<1>13. InThree \/ InOne \/ InTwo \/ JustRuns \/ kind = "oneshot"
       \/ (kind = "redirect" /\ actVia = "ubus")
  BY <1>1 DEF InThree, InOne, InTwo, JustRuns, Act!AllKinds
<1> QED
  BY <1>7, <1>8, <1>9, <1>10, <1>11, <1>12, <1>13

\* The rest of a script after its first request.
LEMMA ActTail ==
    ASSUME NEW t \in Seq(ActRequests), t # <<>>, OnPlan(t)
    PROVE  /\ Tail(t) \in Seq(ActRequests) /\ OnPlan(Tail(t))
           /\ Len(t) \in 1..3 /\ Len(Tail(t)) = Len(t) - 1
           /\ Tail(t) = <<>> <=> Len(t) = 1
           /\ Head(t) = t[1] /\ Head(t) \in ActRequests
           /\ Head(t).does = ActPlan[Len(ActPlan) - Len(t) + 1]
           /\ Head(t).does \in Seq(Act!Effects) /\ Len(Head(t).does) \in 1..3
           /\ \A i \in DOMAIN Tail(t) : i + 1 \in DOMAIN t /\ Tail(t)[i] = t[i + 1]
<1>1. /\ Tail(t) \in Seq(ActRequests) /\ Len(t) \in Nat \ {0} /\ Len(Tail(t)) = Len(t) - 1
      /\ Head(t) = t[1] /\ t[1] \in ActRequests /\ 1 \in 1..Len(t) /\ DOMAIN t = 1..Len(t)
      /\ DOMAIN Tail(t) = 1..(Len(t) - 1)
      /\ \A i \in 1..(Len(t) - 1) : Tail(t)[i] = t[i + 1]
  OBVIOUS
<1>2. Tail(t) = <<>> <=> Len(t) = 1
  <2>1. \A s \in Seq(ActRequests) : s = <<>> <=> Len(s) = 0
    OBVIOUS
  <2>2. Len(Tail(t)) = 0 <=> Len(t) = 1
    BY <1>1
  <2> QED
    BY <1>1, <2>1, <2>2
<1>3. Len(ActPlan) \in 1..3 /\ Len(t) <= Len(ActPlan)
  BY ActPlans DEF OnPlan
<1>4. Head(t).does = ActPlan[Len(ActPlan) - Len(t) + 1]
  BY <1>1 DEF OnPlan
<1>5. Len(ActPlan) - Len(t) + 1 \in 1..Len(ActPlan)
  BY <1>1, <1>3
<1>6. /\ Head(t).does \in Seq(Act!Effects) /\ Len(Head(t).does) \in 1..3
  BY <1>4, <1>5, ActPlans
<1>7. OnPlan(Tail(t))
  <2>1. ASSUME NEW i \in 1..(Len(t) - 1)
        PROVE  Tail(t)[i].does = ActPlan[Len(ActPlan) - (Len(t) - 1) + i]
    <3>1. i + 1 \in 1..Len(t) /\ Len(ActPlan) - Len(t) + (i + 1) = Len(ActPlan) - (Len(t) - 1) + i
      BY <1>1, <1>3
    <3>2. t[i + 1].does = ActPlan[Len(ActPlan) - Len(t) + (i + 1)]
      BY <3>1 DEF OnPlan
    <3> QED
      BY <1>1, <3>1, <3>2
  <2> QED
    BY <1>1, <1>3, <2>1 DEF OnPlan
<1>8. Len(t) \in 1..3
  <2>1. \A i \in Nat \ {0}, j \in 1..3 : i <= j => i \in 1..3
    OBVIOUS
  <2> QED
    BY <1>1, <1>3, <2>1
<1>9. \A i \in DOMAIN Tail(t) : i + 1 \in DOMAIN t /\ Tail(t)[i] = t[i + 1]
  BY <1>1
<1> QED
  BY <1>1, <1>2, <1>4, <1>6, <1>7, <1>8, <1>9

\* What a request does, whatever part of it, leaves the router with settings.
LEMMA ActPrefixType ==
    ASSUME ActTypes, NEW o \in Ops, act[o].phase = "running",
           NEW n \in 0..Len(Head(act[o].todo).does)
    PROVE  Act!Prefix(o, n) \in ActSettings
<1> DEFINE does == Head(act[o].todo).does
           wants == act[o].wants
           P(i) == Act!Prefix(o, i)
<1>1. act[o] \in ActRecords /\ act[o].todo # <<>> /\ OnPlan(act[o].todo)
  BY DEF ActTypes
<1>2. wants \in BOOLEAN /\ act[o].todo \in Seq(ActRequests)
  BY <1>1 DEF ActRecords
<1>3. does \in Seq(Act!Effects) /\ Len(does) \in 1..3
  BY <1>1, <1>2, ActTail
<1>4. /\ P(0) = Act!Settings
      /\ \A i \in 1..Len(does) : P(i) = Act!After(does[i], wants, P(i - 1))
  BY <1>3, ActPrefix
<1>5. P(0) \in ActSettings
  BY <1>4 DEF ActTypes, Act!Settings, ActSettings
<1> HIDE DEF P, does, wants
<1>6. \A i \in 1..Len(does) : P(i - 1) \in ActSettings => P(i) \in ActSettings
  BY <1>2, <1>3, <1>4, ActAfterType
<1>7. 1 - 1 = 0 /\ 2 - 1 = 1 /\ 3 - 1 = 2
  OBVIOUS
<1>8. /\ 1 \in 1..Len(does)
      /\ Len(does) >= 2 => 2 \in 1..Len(does)
      /\ Len(does) >= 3 => 3 \in 1..Len(does)
  BY <1>3
<1>9. P(1) \in ActSettings
  BY <1>5, <1>6, <1>7, <1>8
<1>10. Len(does) >= 2 => P(2) \in ActSettings
  BY <1>6, <1>7, <1>8, <1>9
<1>11. Len(does) >= 3 => P(3) \in ActSettings
  BY <1>3, <1>6, <1>7, <1>8, <1>10
<1>12. n = 0 \/ n = 1 \/ (n = 2 /\ Len(does) >= 2) \/ (n = 3 /\ Len(does) >= 3)
  <2>1. n \in 0..Len(does)
    BY DEF does
  <2>2. \A j \in 1..3 : \A i \in 0..j :
            i = 0 \/ i = 1 \/ (i = 2 /\ j >= 2) \/ (i = 3 /\ j >= 3)
    OBVIOUS
  <2> QED
    BY <1>3, <2>1, <2>2
<1> QED
  BY <1>5, <1>9, <1>10, <1>11, <1>12 DEF P

\* The router's settings after a request, whatever part of it had its effect.
LEMMA ActTakes ==
    ASSUME ActTypes, NEW o \in Ops, act[o].phase = "running",
           NEW n \in 0..Len(Head(act[o].todo).does), Act!Takes(Act!Prefix(o, n))
    PROVE  actConf' \in BOOLEAN /\ delta' \in Staged /\ live' \in BOOLEAN
<1>1. Act!Prefix(o, n) \in ActSettings
  BY ActPrefixType
<1> QED
  BY <1>1 DEF ActSettings, Act!Takes

\* What a request that goes well does to the router.
LEMMA ActRequested ==
    ASSUME ActTypes, NEW o \in Ops, act[o].phase = "running",
           Act!Takes(Act!Prefix(o, Len(Head(act[o].todo).does)))
    PROVE  LET does == Head(act[o].todo).does
               w == act[o].wants
           IN  /\ does = <<"set">> =>
                    actConf' = actConf /\ delta' = {w} /\ live' = live
               /\ does = <<"commit">> =>
                    /\ actConf' = IF delta = {} THEN actConf ELSE CHOOSE v \in delta : TRUE
                    /\ delta' = {} /\ live' = live
               /\ does = <<"reload">> =>
                    actConf' = actConf /\ delta' = delta /\ live' = actConf
               /\ does = <<"run">> =>
                    actConf' = actConf /\ delta' = delta /\ live' = w
               /\ does = <<"enable">> =>
                    actConf' = w /\ delta' = delta /\ live' = live
               /\ does = <<"set", "commit">> =>
                    actConf' = w /\ delta' = {} /\ live' = live
               /\ does = <<"set", "commit", "reload">> =>
                    actConf' = w /\ delta' = {} /\ live' = w
<1> DEFINE does == Head(act[o].todo).does
           w == act[o].wants
           P(n) == Act!Prefix(o, n)
           S(x, y, z) == [conf |-> x, delta |-> y, live |-> z]
           Now == Act!Settings
           Some(d) == CHOOSE v \in d : TRUE
<1>1. /\ does \in Seq(Act!Effects) /\ Len(does) \in 1..3
  BY ActTail DEF ActTypes, ActRecords
<1>2. /\ P(0) = Now
      /\ \A n \in 1..Len(does) : P(n) = Act!After(does[n], w, P(n - 1))
  BY <1>1, ActPrefix
<1>3. Now = S(actConf, delta, live)
  BY DEF Act!Settings
<1>4. Act!Takes(P(Len(does)))
  OBVIOUS
<1>5. \A x, y, z : Act!Takes(S(x, y, z)) => actConf' = x /\ delta' = y /\ live' = z
  BY DEF Act!Takes
<1>6. \A x, y, z :
        /\ Act!After("set", w, S(x, y, z)) = S(x, {w}, z)
        /\ Act!After("commit", w, S(x, y, z)) = S(IF y = {} THEN x ELSE Some(y), {}, z)
        /\ Act!After("reload", w, S(x, y, z)) = S(x, y, x)
        /\ Act!After("run", w, S(x, y, z)) = S(x, y, w)
        /\ Act!After("enable", w, S(x, y, z)) = S(w, y, z)
  BY ActEffects
<1>7. Some({w}) = w /\ {w} # {}
  OBVIOUS
<1>16. Act!After("set", w, Now) = S(actConf, {w}, live)
  BY <1>3, <1>6
<1>17. Act!After("commit", w, S(actConf, {w}, live)) = S(w, {}, live)
  <2>1. ASSUME NEW d, d = {w} PROVE Act!After("commit", w, S(actConf, d, live)) = S(w, {}, live)
    <3> HIDE DEF S, Some, w
    <3>1. Act!After("commit", w, S(actConf, d, live)) =
            S(IF d = {} THEN actConf ELSE Some(d), {}, live)
      BY <1>6
    <3> QED
      BY <1>7, <2>1, <3>1
  <2> HIDE DEF S, w
  <2> QED
    BY <2>1
<1>18. Act!After("reload", w, S(w, {}, live)) = S(w, {}, w)
  <2>1. ASSUME NEW d PROVE Act!After("reload", w, S(w, d, live)) = S(w, d, w)
    BY <1>6
  <2> HIDE DEF S, w
  <2> QED
    BY <2>1
<1>8. \A e : does = <<e>> => P(Len(does)) = Act!After(e, w, Now)
  <2> SUFFICES ASSUME NEW e, does = <<e>> PROVE P(Len(does)) = Act!After(e, w, Now)
    OBVIOUS
  <2> HIDE DEF does, P, Now
  <2>1. Len(does) = 1 /\ does[1] = e
    OBVIOUS
  <2> QED
    BY <1>2, <2>1
<1>9. does = <<"set", "commit">> => P(Len(does)) = S(w, {}, live)
  <2> SUFFICES ASSUME does = <<"set", "commit">> PROVE P(Len(does)) = S(w, {}, live)
    OBVIOUS
  <2> HIDE DEF does, P, Now, S, Some, w
  <2>1. Len(does) = 2 /\ does[1] = "set" /\ does[2] = "commit"
    OBVIOUS
  <2>2. P(1) = Act!After("set", w, Now) /\ P(2) = Act!After("commit", w, P(1))
    BY <1>2, <2>1
  <2> QED
    BY <1>16, <1>17, <2>1, <2>2
<1>10. does = <<"set", "commit", "reload">> => P(Len(does)) = S(w, {}, w)
  <2> SUFFICES ASSUME does = <<"set", "commit", "reload">> PROVE P(Len(does)) = S(w, {}, w)
    OBVIOUS
  <2> HIDE DEF does, P, Now, S, Some, w
  <2>1. Len(does) = 3 /\ does[1] = "set" /\ does[2] = "commit" /\ does[3] = "reload"
    OBVIOUS
  <2>2. /\ P(1) = Act!After("set", w, Now) /\ P(2) = Act!After("commit", w, P(1))
        /\ P(3) = Act!After("reload", w, P(2))
    BY <1>2, <2>1
  <2> QED
    BY <1>16, <1>17, <1>18, <2>1, <2>2
<1> HIDE DEF P, Now, S, does, w
<1>11. does = <<"set">> => actConf' = actConf /\ delta' = {w} /\ live' = live
  BY <1>3, <1>4, <1>5, <1>6, <1>8
<1>12. does = <<"commit">> =>
         /\ actConf' = IF delta = {} THEN actConf ELSE Some(delta)
         /\ delta' = {} /\ live' = live
  <2> HIDE DEF Some
  <2> QED
    BY <1>3, <1>4, <1>5, <1>6, <1>8
<1>13. /\ does = <<"reload">> => actConf' = actConf /\ delta' = delta /\ live' = actConf
       /\ does = <<"run">> => actConf' = actConf /\ delta' = delta /\ live' = w
       /\ does = <<"enable">> => actConf' = w /\ delta' = delta /\ live' = live
  <2> HIDE DEF Some
  <2> QED
    BY <1>3, <1>4, <1>5, <1>6, <1>8
<1>14. does = <<"set", "commit">> => actConf' = w /\ delta' = {} /\ live' = live
  BY <1>4, <1>5, <1>9
<1>15. does = <<"set", "commit", "reload">> => actConf' = w /\ delta' = {} /\ live' = w
  BY <1>4, <1>5, <1>10
<1> QED
  BY <1>11, <1>12, <1>13, <1>14, <1>15 DEF does, w

\* A request that goes well takes an undisturbed operation one step on.
LEMMA RequestPuts ==
    ASSUME ActTypes, NEW o \in Ops, act[o].phase = "running",
           Act!Takes(Act!Prefix(o, Len(Head(act[o].todo).does))),
           Put(Len(act[o].todo), act[o].wants, actConf, delta, live)
    PROVE  Put(Len(act[o].todo) - 1, act[o].wants, actConf', delta', live')
<1> DEFINE t == act[o].todo
           does == Head(t).does
           w == act[o].wants
           n == Len(t)
<1>1. /\ n \in 1..3 /\ n <= Len(ActPlan) /\ does = ActPlan[Len(ActPlan) - n + 1]
  BY ActTail DEF ActTypes, ActRecords, OnPlan
<1>2. Put(n, w, actConf, delta, live)
  OBVIOUS
<1>3. /\ does = <<"set">> => actConf' = actConf /\ delta' = {w} /\ live' = live
      /\ does = <<"commit">> =>
            /\ actConf' = IF delta = {} THEN actConf ELSE CHOOSE v \in delta : TRUE
            /\ delta' = {} /\ live' = live
      /\ does = <<"reload">> => actConf' = actConf /\ delta' = delta /\ live' = actConf
      /\ does = <<"run">> => actConf' = actConf /\ delta' = delta /\ live' = w
      /\ does = <<"enable">> => actConf' = w /\ delta' = delta /\ live' = live
      /\ does = <<"set", "commit">> => actConf' = w /\ delta' = {} /\ live' = live
      /\ does = <<"set", "commit", "reload">> => actConf' = w /\ delta' = {} /\ live' = w
  BY ActRequested
<1> HIDE DEF t, does, n
<1>4. CASE InThree
  <2>1. ActPlan = <<<<"set">>, <<"commit">>, <<"reload">>>>
    BY <1>4 DEF ActPlan, InOne, InThree
  <2>2. ~InOne /\ ~InTwo /\ ~JustRuns /\ kind # "oneshot"
    BY <1>4 DEF InThree, InOne, InTwo, JustRuns
  <2>3. n = 3 => does = <<"set">>
    BY <1>1, <2>1
  <2>4. n = 2 => does = <<"commit">>
    BY <1>1, <2>1
  <2>5. n = 1 => does = <<"reload">>
    BY <1>1, <2>1
  <2>6. n = 2 => delta = {w} /\ (CHOOSE v \in {w} : TRUE) = w
    BY <1>2, <1>4 DEF Put
  <2>7. n = 1 => actConf = w /\ delta = {}
    BY <1>2, <1>4 DEF Put
  <2>8. n = 3 => delta' = {w}
    BY <1>3, <2>3
  <2>9. n = 2 => actConf' = w /\ delta' = {}
    BY <1>3, <2>4, <2>6
  <2>10. n = 1 => actConf' = w /\ delta' = {} /\ live' = w
    BY <1>3, <2>5, <2>7
  <2>11. n = 1 \/ n = 2 \/ n = 3
    BY <1>1
  <2> HIDE DEF w
  <2>12. Put(n - 1, w, actConf', delta', live')
    BY <2>2, <2>8, <2>9, <2>10, <2>11 DEF Put
  <2> QED
    BY <2>12 DEF t, n, w
<1>5. CASE InOne
  <2>1. ActPlan = <<<<"set", "commit", "reload">>>>
    BY <1>5 DEF ActPlan
  <2>2. ~InThree /\ ~InTwo /\ ~JustRuns /\ kind # "oneshot"
    BY <1>5 DEF InThree, InOne, InTwo, JustRuns
  <2> QED
    BY <1>1, <1>3, <2>1, <2>2 DEF Put, t, n, w
<1>6. CASE InTwo
  <2>1. ActPlan = <<<<"set", "commit">>, <<"run">>>>
    BY <1>6 DEF ActPlan, InThree, InOne, InTwo
  <2>2. ~InThree /\ ~InOne /\ ~JustRuns /\ kind # "oneshot"
    BY <1>6 DEF InThree, InOne, InTwo, JustRuns
  <2>3. n = 2 => does = <<"set", "commit">>
    BY <1>1, <2>1
  <2>4. n = 1 => does = <<"run">>
    BY <1>1, <2>1
  <2>5. n = 1 => actConf = w /\ delta = {}
    BY <1>2, <1>6 DEF Put
  <2>6. n = 1 \/ n = 2
    BY <1>1, <2>1
  <2> QED
    BY <1>3, <2>2, <2>3, <2>4, <2>5, <2>6 DEF Put, t, n, w
<1>7. CASE JustRuns
  <2>1. ActPlan = <<<<"run">>>>
    BY <1>7 DEF ActPlan, InThree, InOne, InTwo, JustRuns
  <2>2. ~InThree /\ ~InTwo /\ ~InOne /\ kind # "oneshot"
    BY <1>7 DEF InThree, InOne, InTwo, JustRuns
  <2> QED
    BY <1>1, <1>3, <2>1, <2>2 DEF Put, t, n, w
<1>8. CASE kind = "oneshot"
  <2>1. ActPlan = <<<<"enable">>, <<"run">>>>
    BY <1>8 DEF ActPlan, InThree, InOne, InTwo, JustRuns
  <2>2. ~InThree /\ ~InOne /\ ~JustRuns /\ ~InTwo
    BY <1>8 DEF InThree, InOne, InTwo, JustRuns
  <2>3. n = 2 => does = <<"enable">>
    BY <1>1, <2>1
  <2>4. n = 1 => does = <<"run">>
    BY <1>1, <2>1
  <2>5. n = 1 => actConf = w
    BY <1>2, <1>8 DEF Put
  <2>6. n = 1 \/ n = 2
    BY <1>1, <2>1
  <2> QED
    BY <1>3, <2>2, <2>3, <2>4, <2>5, <2>6 DEF Put, t, n, w
<1>9. CASE ~InThree /\ ~InTwo /\ ~InOne /\ ~JustRuns /\ kind # "oneshot"
  BY <1>9 DEF Put
<1> QED
  BY <1>4, <1>5, <1>6, <1>7, <1>8, <1>9

\* One operation changes, and with it what the router does.
LEMMA ActChange ==
    ASSUME ActIInv, NEW o \in Ops, NEW r \in ActRecords,
           act' = [act EXCEPT ![o] = r], UNCHANGED <<kind, actVia, actRead, actStarted>>,
           Act!Running(o),
           actConf' \in BOOLEAN, delta' \in Staged, live' \in BOOLEAN, actData' \in BOOLEAN,
           actFaults' \in 0..MaxFaults,
           r.phase = "running" <=> r.todo # <<>>, OnPlan(r.todo),
           Act!Verified => r.clean /\ \A i \in DOMAIN r.todo : r.todo[i].way = "call",
           r.phase # "idle" /\ r.alone => act[o].alone,
           r.phase # "idle" /\ r.alone /\ r.clean =>
               Put(Len(r.todo), r.wants, actConf', delta', live'),
           ActAgrees'
    PROVE  ActIInv'
<1>1. /\ act' \in [Ops -> ActRecords] /\ act'[o] = r
      /\ \A p \in Ops : p # o => act'[p] = act[p]
  BY DEF ActIInv, ActTypes
<1>2. ActPlan' = ActPlan
  BY DEF ActPlan, InOne, InTwo, InThree, JustRuns
<1>4. ActTypes'
  <2>1. ASSUME NEW p \in Ops
        PROVE  (act'[p].phase = "running" <=> act'[p].todo # <<>>) /\ OnPlan(act[p].todo)'
    <3>1. PICK t : t = act'[p].todo
      OBVIOUS
    <3>2. (act'[p].phase = "running" <=> t # <<>>) /\ OnPlan(t)
      BY <1>1, <3>1 DEF ActIInv, ActTypes
    <3> QED
      BY <1>2, <3>1, <3>2 DEF OnPlan
  <2> QED
    BY <1>1, <2>1 DEF ActIInv, ActTypes
<1>5. ActVerified'
  BY <1>1 DEF ActIInv, ActVerified, Act!Verified
<1>6. ActAlone'
  BY <1>1 DEF ActIInv, ActAlone, Act!Running
<1>7. ActPuts'
  <2> SUFFICES ASSUME NEW p \in Ops, act'[p].phase # "idle", act'[p].alone, act'[p].clean
               PROVE  Put(Len(act[p].todo), act[p].wants, actConf, delta, live)'
    BY DEF ActPuts, Act!Running
  <2> QED
    BY <1>1 DEF ActIInv, ActAlone, Act!Running, Put, InOne, InTwo, InThree, JustRuns
<1> QED
  BY <1>4, <1>5, <1>6, <1>7 DEF ActIInv

\* The idle operation.
LEMMA ActIdle ==
    /\ Act!Idle \in ActRecords /\ Act!Idle.phase = "idle" /\ Act!Idle.todo = <<>>
    /\ Act!Idle.clean /\ OnPlan(<<>>) /\ <<>> \in Seq(ActRequests) /\ Len(<<>>) = 0
<1>1. /\ <<>> \in Seq(ActRequests) /\ Len(<<>>) = 0
  OBVIOUS
<1>2. Act!Idle \in ActRecords /\ Act!Idle.phase = "idle" /\ Act!Idle.todo = <<>>
      /\ Act!Idle.clean
  BY <1>1 DEF Act!Idle, ActRecords, ActPhases
<1>3. OnPlan(<<>>)
  BY ActPlans DEF OnPlan
<1> QED
  BY <1>1, <1>2, <1>3

\* The operation after a request that did not fail it, clean or not.
LEMMA ActOnward ==
    ASSUME NEW r \in ActRecords, r.todo # <<>>, OnPlan(r.todo)
    PROVE  LET x == Act!Onward(r)
               y == [x EXCEPT !.clean = FALSE]
           IN  /\ x \in ActRecords
               /\ x.todo = Tail(r.todo) /\ x.phase \in {"running", "acked"}
               /\ x.phase = "running" <=> Len(r.todo) # 1
               /\ x.wants = r.wants /\ x.alone = r.alone /\ x.clean = r.clean
               /\ y \in ActRecords
               /\ y.todo = Tail(r.todo) /\ y.phase = x.phase /\ ~y.clean
               /\ y.wants = r.wants /\ y.alone = r.alone
<1> DEFINE u == [r EXCEPT !.todo = Tail(r.todo)]
           f == IF Len(r.todo) = 1 THEN "acked" ELSE "running"
           x == [u EXCEPT !.phase = f]
           y == [x EXCEPT !.clean = FALSE]
<1>1. Tail(r.todo) \in Seq(ActRequests)
  BY ActTail DEF ActRecords
<1>2. u \in ActRecords
  BY <1>1 DEF ActRecords
<1>3. /\ u.todo = Tail(r.todo) /\ u.wants = r.wants /\ u.alone = r.alone
      /\ u.clean = r.clean
  BY DEF ActRecords
<1> HIDE DEF u
<1>4. x \in ActRecords
  BY <1>2 DEF ActRecords, ActPhases
<1>5. /\ x.todo = u.todo /\ x.wants = u.wants /\ x.alone = u.alone /\ x.clean = u.clean
      /\ x.phase = f
  BY <1>2 DEF ActRecords
<1> HIDE DEF x
<1>6. y \in ActRecords
  BY <1>4 DEF ActRecords
<1>7. /\ y.todo = x.todo /\ y.wants = x.wants /\ y.alone = x.alone /\ y.clean = FALSE
      /\ y.phase = x.phase
  BY <1>4 DEF ActRecords
<1>8. Act!Onward(r) = x
  BY DEF Act!Onward, x, u
<1> HIDE DEF y
<1>9. /\ x.phase \in {"running", "acked"}
      /\ x.phase = "running" <=> Len(r.todo) # 1
  BY <1>5
<1> QED
  BY <1>3, <1>4, <1>5, <1>6, <1>7, <1>8, <1>9 DEF y

\* The operation after a request that failed it.
LEMMA ActFailed ==
    ASSUME NEW r \in ActRecords, r.phase # "idle"
    PROVE  LET x == Act!Failed(r)
           IN  /\ x \in ActRecords /\ x.todo = <<>>
               /\ x.phase # "running"
               /\ x.phase # "idle" => ~x.clean /\ x.alone = r.alone
               /\ Act!Verified => x.clean
<1> DEFINE u == [r EXCEPT !.todo = <<>>]
           v == [u EXCEPT !.clean = FALSE]
           x == [v EXCEPT !.phase = "acked"]
<1>1. u \in ActRecords
  BY ActIdle DEF ActRecords
<1>2. u.todo = <<>> /\ u.alone = r.alone
  BY DEF ActRecords
<1> HIDE DEF u
<1>3. v \in ActRecords
  BY <1>1 DEF ActRecords
<1>4. v.todo = u.todo /\ v.alone = u.alone /\ v.clean = FALSE
  BY <1>1 DEF ActRecords
<1> HIDE DEF v
<1>5. x \in ActRecords
  BY <1>3 DEF ActRecords, ActPhases
<1>6. x.todo = v.todo /\ x.alone = v.alone /\ x.clean = v.clean /\ x.phase = "acked"
  BY <1>3 DEF ActRecords
<1> HIDE DEF x
<1>7. Act!Failed(r) = IF Act!Switch.checks THEN Act!Idle ELSE x
  BY DEF Act!Failed, x, v, u
<1>8. Act!Verified => Act!Switch.checks
  BY DEF Act!Verified, Act!Switch, Act!RuleSwitch
<1>9. ~x.clean
  BY <1>4, <1>6
<1> QED
  BY <1>2, <1>4, <1>5, <1>6, <1>7, <1>8, <1>9, ActIdle

\* The operation's record and its first request.
LEMMA ActRunning ==
    ASSUME ActIInv, NEW o \in Ops, act[o].phase = "running"
    PROVE  /\ act[o] \in ActRecords /\ act[o].todo # <<>> /\ OnPlan(act[o].todo)
           /\ act[o].todo \in Seq(ActRequests)
           /\ Act!Verified => /\ act[o].clean /\ Head(act[o].todo).way = "call"
                              /\ \A i \in DOMAIN act[o].todo : act[o].todo[i].way = "call"
<1>1. act[o] \in ActRecords /\ act[o].todo # <<>> /\ OnPlan(act[o].todo)
  BY DEF ActIInv, ActTypes
<1>2. act[o].todo \in Seq(ActRequests)
  BY <1>1 DEF ActRecords
<1>3. Head(act[o].todo) = act[o].todo[1] /\ 1 \in DOMAIN act[o].todo
  BY <1>1, <1>2
<1> QED
  BY <1>1, <1>2, <1>3 DEF ActIInv, ActVerified

\* A request that goes well.
LEMMA RequestedStep ==
    ASSUME ActIInv, NEW o \in Ops, Act!Requested(o)
    PROVE  ActIInv'
<1> DEFINE t == act[o].todo
           n == Len(t)
           r == Act!Onward(act[o])
           does == Head(t).does
           w == act[o].wants
<1>1. /\ act[o].phase = "running" /\ act' = [act EXCEPT ![o] = r]
      /\ UNCHANGED <<kind, actVia, actRead, actStarted, actData, actFaults>>
      /\ Act!Takes(Act!Prefix(o, Len(Head(act[o].todo).does)))
  BY DEF Act!Requested
<1>2. /\ act[o] \in ActRecords /\ t # <<>> /\ OnPlan(t) /\ t \in Seq(ActRequests)
      /\ Act!Verified => act[o].clean /\ \A i \in DOMAIN t : t[i].way = "call"
  BY <1>1, ActRunning
<1>3. /\ Tail(t) \in Seq(ActRequests) /\ OnPlan(Tail(t)) /\ n \in 1..3
      /\ Len(Tail(t)) = n - 1 /\ (Tail(t) = <<>> <=> n = 1)
      /\ does = ActPlan[Len(ActPlan) - n + 1]
      /\ \A i \in DOMAIN Tail(t) : i + 1 \in DOMAIN t /\ Tail(t)[i] = t[i + 1]
      /\ n <= Len(ActPlan)
  BY <1>2, ActTail DEF OnPlan
<1>4. /\ r \in ActRecords /\ r.todo = Tail(t) /\ r.phase \in {"running", "acked"}
      /\ r.phase = "running" <=> n # 1
      /\ r.wants = w /\ r.alone = act[o].alone /\ r.clean = act[o].clean
  BY <1>2, ActOnward
<1>5. actConf' \in BOOLEAN /\ delta' \in Staged /\ live' \in BOOLEAN
  <2>1. Len(Head(act[o].todo).does) \in 0..Len(Head(act[o].todo).does)
    BY <1>2, ActTail
  <2> QED
    BY <1>1, <2>1, ActTakes DEF ActIInv
<1>6. Act!Running(o)
  BY <1>1 DEF Act!Running
<1>7. r.alone /\ r.clean => Put(Len(r.todo), r.wants, actConf', delta', live')
  <2>1. act[o].alone /\ act[o].clean => Put(n, w, actConf, delta, live)
    BY <1>6 DEF ActIInv, ActPuts
  <2>2. Put(n, w, actConf, delta, live) => Put(n - 1, w, actConf', delta', live')
    BY <1>1, RequestPuts DEF ActIInv
  <2> QED
    BY <1>3, <1>4, <2>1, <2>2
<1>8. /\ does = <<"set">> => actConf' = actConf /\ delta' = {w} /\ live' = live
      /\ does = <<"commit">> => delta' = {}
      /\ does = <<"reload">> => actConf' = actConf /\ delta' = delta /\ live' = actConf
      /\ does = <<"set", "commit", "reload">> => actConf' = w /\ delta' = {} /\ live' = w
  BY <1>1, ActRequested DEF ActIInv
<1>9. /\ act'[o] = r /\ \A p \in Ops : p # o => act'[p] = act[p]
  BY <1>1 DEF ActIInv, ActTypes
<1>14. n = Len(act[o].todo) /\ act'[o].todo = Tail(t) /\ act'[o].phase = r.phase
  BY <1>4, <1>9
<1> HIDE DEF r, t, n, does, w
<1>10. ActAgrees'
  <2> SUFFICES ASSUME actFaults = 0, InThree \/ InOne
               PROVE  /\ live' # actConf' => \E p \in Ops : act'[p].phase = "running"
                      /\ delta' # {} => \E p \in Ops : Len(act'[p].todo) >= 2
    BY <1>1 DEF ActAgrees, InThree, InOne
  <2>1. /\ live # actConf => \E p \in Ops : act[p].phase = "running"
        /\ delta # {} => \E p \in Ops : Len(act[p].todo) >= 2
    BY DEF ActIInv, ActAgrees
  <2>2. CASE InOne
    <3>1. ActPlan = <<<<"set", "commit", "reload">>>>
      BY <2>2 DEF ActPlan
    <3>2. does = <<"set", "commit", "reload">>
      BY <1>3, <3>1
    <3> QED
      BY <1>8, <3>2
  <2>3. CASE InThree
    <3>1. ActPlan = <<<<"set">>, <<"commit">>, <<"reload">>>>
      BY <2>3 DEF ActPlan, InThree, InOne
    <3>2. n = 3 => does = <<"set">>
      BY <1>3, <3>1
    <3>3. n = 2 => does = <<"commit">>
      BY <1>3, <3>1
    <3>4. n = 1 => does = <<"reload">>
      BY <1>3, <3>1
    <3>5. CASE n = 3
      <4> DEFINE left == Len(Tail(t))
      <4>1. left = 2 /\ left = Len(act'[o].todo) /\ act'[o].phase = "running"
        BY <1>3, <1>4, <1>14, <3>5
      <4> HIDE DEF left
      <4>2. left >= 2
        BY <4>1
      <4> QED
        BY <4>1, <4>2
    <3>6. CASE n = 2
      <4>1. act'[o].phase = "running"
        BY <1>3, <1>4, <1>14, <3>6
      <4>2. delta' = {}
        BY <1>8, <3>3, <3>6
      <4> QED
        BY <4>1, <4>2
    <3>7. CASE n = 1
      <4>1. \A p \in Ops : Len(act[p].todo) >= 2 => p # o
        <5> SUFFICES ASSUME NEW p \in Ops, Len(act[p].todo) >= 2, p = o
                     PROVE  FALSE
          OBVIOUS
        <5>1. Len(act[p].todo) = 1
          BY <1>14, <3>7
        <5> QED
          BY <5>1
      <4> QED
        BY <1>8, <1>9, <2>1, <3>4, <3>7, <4>1
    <3> QED
      BY <1>3, <3>5, <3>6, <3>7
  <2> QED
    BY <2>2, <2>3
<1>11. Act!Verified => r.clean /\ \A i \in DOMAIN r.todo : r.todo[i].way = "call"
  BY <1>2, <1>3, <1>4
<1>12. r.phase = "running" <=> r.todo # <<>>
  BY <1>3, <1>4
<1>13. actData' \in BOOLEAN /\ actFaults' \in 0..MaxFaults /\ OnPlan(r.todo)
  BY <1>1, <1>3, <1>4 DEF ActIInv, ActTypes
<1> QED
  BY <1>1, <1>4, <1>5, <1>6, <1>7, <1>10, <1>11, <1>12, <1>13, ActChange

\* An operation that ends with an error, or goes on after one nobody looks at.
LEMMA ActFails ==
    ASSUME ActIInv, NEW o \in Ops, act[o].phase = "running", NEW r,
           r = Act!Failed(act[o]) \/
             (~Act!Verified /\ r = [Act!Onward(act[o]) EXCEPT !.clean = FALSE]),
           act' = [act EXCEPT ![o] = r],
           UNCHANGED <<kind, actVia, actRead, actStarted, actData>>,
           actConf' \in BOOLEAN, delta' \in Staged, live' \in BOOLEAN,
           actFaults' \in 0..MaxFaults, ActAgrees'
    PROVE  ActIInv'
<1>1. /\ act[o] \in ActRecords /\ act[o].todo # <<>> /\ OnPlan(act[o].todo)
      /\ act[o].todo \in Seq(ActRequests) /\ Act!Running(o)
  BY ActRunning DEF Act!Running
<1>2. actData' \in BOOLEAN
  BY DEF ActIInv, ActTypes
<1>3. CASE r = Act!Failed(act[o])
  <2>1. /\ r \in ActRecords /\ r.todo = <<>> /\ r.phase # "running"
        /\ r.phase # "idle" => ~r.clean /\ r.alone = act[o].alone
        /\ Act!Verified => r.clean
    BY <1>1, <1>3, ActFailed
  <2>2. OnPlan(r.todo) /\ \A i \in DOMAIN r.todo : FALSE
    BY <2>1, ActIdle
  <2> QED
    BY <1>1, <1>2, <2>1, <2>2, ActChange
<1>4. CASE ~Act!Verified /\ r = [Act!Onward(act[o]) EXCEPT !.clean = FALSE]
  <2>1. /\ r \in ActRecords /\ r.todo = Tail(act[o].todo)
        /\ r.phase \in {"running", "acked"}
        /\ r.phase = "running" <=> Len(act[o].todo) # 1
        /\ ~r.clean /\ r.alone = act[o].alone
    BY <1>1, <1>4, ActOnward
  <2>2. OnPlan(r.todo) /\ (r.phase = "running" <=> r.todo # <<>>)
    BY <1>1, <2>1, ActTail
  <2> QED
    BY <1>1, <1>2, <1>4, <2>1, <2>2, ActChange
<1> QED
  BY <1>3, <1>4

\* Once a fault was counted.
LEMMA ActFaulty == actFaults \in Nat /\ actFaults' = actFaults + 1 => ActAgrees'
BY DEF ActAgrees

\* A request of which the router does not know the method: nothing happens on the
\* router.
LEMMA MethodUnknownStep ==
    ASSUME ActIInv, NEW o \in Ops, Act!MethodUnknown(o)
    PROVE  ActIInv'
<1>1. /\ act[o].phase = "running" /\ act' = [act EXCEPT ![o] = Act!Failed(act[o])]
      /\ UNCHANGED <<kind, actVia, actConf, delta, live, actData, actRead, actStarted, actFaults>>
      /\ Head(act[o].todo).does = <<"unknown">>
  BY DEF Act!MethodUnknown
<1>2. /\ act[o].todo \in Seq(ActRequests) /\ act[o].todo # <<>> /\ OnPlan(act[o].todo)
  BY <1>1, ActRunning
<1>3. ~InThree /\ ~InOne
  <2> DEFINE n == Len(act[o].todo)
  <2>1. n \in 1..3 /\ n <= Len(ActPlan) /\ <<"unknown">> = ActPlan[Len(ActPlan) - n + 1]
    BY <1>1, <1>2, ActTail DEF OnPlan
  <2> HIDE DEF n
  <2>2. CASE InOne
    <3>1. ActPlan = <<<<"set", "commit", "reload">>>>
      BY <2>2 DEF ActPlan
    <3>2. <<"unknown">> # <<"set", "commit", "reload">>
      OBVIOUS
    <3> QED
      BY <2>1, <3>1, <3>2
  <2>3. CASE InThree
    <3>1. ActPlan = <<<<"set">>, <<"commit">>, <<"reload">>>>
      BY <2>3 DEF ActPlan, InThree, InOne
    <3>2. <<"unknown">> \notin {<<"set">>, <<"commit">>, <<"reload">>}
      OBVIOUS
    <3> QED
      BY <2>1, <3>1, <3>2
  <2> QED
    BY <2>2, <2>3
<1>4. ActAgrees'
  BY <1>1, <1>3 DEF ActAgrees, InThree, InOne
<1>5. /\ actConf' \in BOOLEAN /\ delta' \in Staged /\ live' \in BOOLEAN
      /\ actFaults' \in 0..MaxFaults
  BY <1>1 DEF ActIInv, ActTypes
<1> QED
  BY <1>1, <1>4, <1>5, ActFails

\* A request the router rejects: the operation ends, or goes on where nobody looks.
LEMMA RejectedStep ==
    ASSUME ActIInv, NEW o \in Ops, Act!Rejected(o)
    PROVE  ActIInv'
<1> DEFINE r == IF Head(act[o].todo).way = "call" THEN Act!Failed(act[o])
                ELSE [Act!Onward(act[o]) EXCEPT !.clean = FALSE]
<1>1. /\ act[o].phase = "running" /\ act' = [act EXCEPT ![o] = r]
      /\ UNCHANGED <<kind, actVia, actRead, actStarted, actData>>
      /\ actFaults < MaxFaults /\ actFaults' = actFaults + 1
      /\ \E n \in 0..(Len(Head(act[o].todo).does) - 1) : Act!Takes(Act!Prefix(o, n))
  BY DEF Act!Rejected
<1>2. Act!Verified => Head(act[o].todo).way = "call"
  BY <1>1, ActRunning
<1>3. actConf' \in BOOLEAN /\ delta' \in Staged /\ live' \in BOOLEAN
  <2>1. PICK n \in 0..(Len(Head(act[o].todo).does) - 1) : Act!Takes(Act!Prefix(o, n))
    BY <1>1
  <2>2. n \in 0..Len(Head(act[o].todo).does)
    <3>1. Len(Head(act[o].todo).does) \in 1..3
      BY <1>1, ActRunning, ActTail
    <3> QED
      BY <3>1
  <2> QED
    BY <1>1, <2>1, <2>2, ActTakes DEF ActIInv
<1>4. actFaults \in Nat /\ actFaults' \in 0..MaxFaults
  BY <1>1, ActionsValues DEF ActIInv, ActTypes, Act!ActionsConstants
<1>5. ActAgrees'
  BY <1>1, <1>4, ActFaulty
<1>6. r = Act!Failed(act[o]) \/
         (~Act!Verified /\ r = [Act!Onward(act[o]) EXCEPT !.clean = FALSE])
  BY <1>2
<1> HIDE DEF r
<1> QED
  BY <1>1, <1>3, <1>4, <1>5, <1>6, ActFails

\* An answer that is lost after its effect ends the operation for its user.
LEMMA ActAnswerLostStep ==
    ASSUME ActIInv, NEW o \in Ops, Act!AnswerLost(o)
    PROVE  ActIInv'
<1> DEFINE r == IF Head(act[o].todo).way # "quiet" THEN Act!Failed(act[o])
                ELSE [Act!Onward(act[o]) EXCEPT !.clean = FALSE]
<1>1. /\ act[o].phase = "running" /\ act' = [act EXCEPT ![o] = r]
      /\ UNCHANGED <<kind, actVia, actRead, actStarted, actData>>
      /\ actFaults < MaxFaults /\ actFaults' = actFaults + 1
      /\ \E n \in 0..Len(Head(act[o].todo).does) : Act!Takes(Act!Prefix(o, n))
  BY DEF Act!AnswerLost
<1>2. Act!Verified => Head(act[o].todo).way # "quiet"
  BY <1>1, ActRunning
<1>3. actConf' \in BOOLEAN /\ delta' \in Staged /\ live' \in BOOLEAN
  BY <1>1, ActTakes DEF ActIInv
<1>4. actFaults \in Nat /\ actFaults' \in 0..MaxFaults
  BY <1>1, ActionsValues DEF ActIInv, ActTypes, Act!ActionsConstants
<1>5. ActAgrees'
  BY <1>1, <1>4, ActFaulty
<1>6. r = Act!Failed(act[o]) \/
         (~Act!Verified /\ r = [Act!Onward(act[o]) EXCEPT !.clean = FALSE])
  BY <1>2
<1> HIDE DEF r
<1> QED
  BY <1>1, <1>3, <1>4, <1>5, <1>6, ActFails

\* What is acknowledged is shown, and the operation is over.
LEMMA ActAcknowledgeStep ==
    ASSUME ActIInv, NEW o \in Ops, Act!Acknowledge(o)
    PROVE  ActIInv'
<1> DEFINE r == Act!Idle
<1>1. /\ act[o].phase = "acked" /\ act' = [act EXCEPT ![o] = r]
      /\ UNCHANGED <<kind, actVia, actConf, delta, live, actRead, actStarted, actFaults>>
      /\ actData' = act[o].wants
  BY DEF Act!Acknowledge
<1>2. /\ act[o] \in ActRecords /\ act[o].todo = <<>>
  BY <1>1 DEF ActIInv, ActTypes
<1>3. /\ act'[o] = r /\ \A p \in Ops : p # o => act'[p] = act[p]
  BY <1>1 DEF ActIInv, ActTypes
<1>4. ActAgrees'
  <2> SUFFICES ASSUME actFaults = 0, InThree \/ InOne
               PROVE  /\ live # actConf => \E p \in Ops : act'[p].phase = "running"
                      /\ delta # {} => \E p \in Ops : Len(act'[p].todo) >= 2
    BY <1>1 DEF ActAgrees, InThree, InOne
  <2>1. /\ live # actConf => \E p \in Ops : act[p].phase = "running"
        /\ delta # {} => \E p \in Ops : Len(act[p].todo) >= 2
    BY DEF ActIInv, ActAgrees
  <2>2. \A p \in Ops : Len(act[p].todo) >= 2 => p # o
    BY <1>2, ActIdle
  <2> QED
    BY <1>1, <1>3, <2>1, <2>2
<1>5. /\ r \in ActRecords /\ r.phase = "idle" /\ r.todo = <<>> /\ r.clean /\ OnPlan(r.todo)
      /\ \A i \in DOMAIN r.todo : FALSE
  BY ActIdle
<1>6. actData' \in BOOLEAN
  BY <1>1, <1>2 DEF ActRecords
<1>7. /\ actConf' \in BOOLEAN /\ delta' \in Staged /\ live' \in BOOLEAN
      /\ actFaults' \in 0..MaxFaults
  BY <1>1 DEF ActIInv, ActTypes
<1>8. Act!Running(o)
  BY <1>1 DEF Act!Running
<1> HIDE DEF r
<1> QED
  BY <1>1, <1>4, <1>5, <1>6, <1>7, <1>8, ActChange

\* An operation begins; those under way are no longer alone, and neither is it
\* beside them.
LEMMA ActBeginStep ==
    ASSUME ActIInv, NEW o \in Ops, Act!Begin(o)
    PROVE  ActIInv'
<1> DEFINE noone == \A p \in Ops : ~Act!Running(p)
<1>1. PICK on \in BOOLEAN :
        act' = [p \in Ops |->
                IF p = o THEN [phase |-> "running", wants |-> on, todo |-> Act!Switch.script,
                               clean |-> TRUE, alone |-> noone /\ delta = {}]
                ELSE [act[p] EXCEPT !.alone = ~Act!Running(p)]]
  BY DEF Act!Begin
<1>2. /\ ~Act!Running(o)
      /\ actStarted < MaxOps + 1 /\ actStarted' = actStarted + 1
      /\ UNCHANGED <<kind, actVia, actConf, delta, live, actData, actRead, actFaults>>
  BY DEF Act!Begin
<1>3. IsScript(Act!Switch.script)
  BY ActScripts DEF ActIInv, ActTypes
<1> DEFINE alone == noone /\ delta = {}
           script == Act!Switch.script
           r == [phase |-> "running", wants |-> on, todo |-> script, clean |-> TRUE,
                 alone |-> alone]
           others(p) == ~Act!Running(p)
<1>4. alone \in BOOLEAN /\ \A p \in Ops : others(p) \in BOOLEAN
  OBVIOUS
<1>5. alone => \A p \in Ops : ~Act!Running(p)
  OBVIOUS
<1>6. \A p \in Ops : others(p) <=> ~Act!Running(p)
  OBVIOUS
<1>7. act' = [p \in Ops |-> IF p = o THEN r ELSE [act[p] EXCEPT !.alone = others(p)]]
  BY <1>1
<1> HIDE DEF alone, script, others
<1>8. r \in ActRecords /\ r.phase = "running" /\ r.todo = script /\ r.clean /\ r.alone = alone
  BY <1>3, <1>4 DEF IsScript, ActRecords, ActPhases, script
<1>9. act'[o] = r
  BY <1>7
<1>10. \A p \in Ops : p # o =>
          /\ act'[p] \in ActRecords /\ act'[p].phase = act[p].phase
          /\ act'[p].todo = act[p].todo /\ act'[p].wants = act[p].wants
          /\ act'[p].clean = act[p].clean /\ act'[p].alone = others(p)
  <2> SUFFICES ASSUME NEW p \in Ops, p # o
               PROVE  /\ act'[p] \in ActRecords /\ act'[p].phase = act[p].phase
                      /\ act'[p].todo = act[p].todo /\ act'[p].wants = act[p].wants
                      /\ act'[p].clean = act[p].clean /\ act'[p].alone = others(p)
    OBVIOUS
  <2> DEFINE x == [act[p] EXCEPT !.alone = others(p)]
  <2>1. act'[p] = x /\ act[p] \in ActRecords
    BY <1>7 DEF ActIInv, ActTypes
  <2>2. x \in ActRecords
    BY <1>4, <2>1 DEF ActRecords
  <2>3. /\ x.phase = act[p].phase /\ x.todo = act[p].todo /\ x.wants = act[p].wants
        /\ x.clean = act[p].clean /\ x.alone = others(p)
    BY <2>1 DEF ActRecords
  <2> HIDE DEF x
  <2> QED
    BY <2>1, <2>2, <2>3
<1> HIDE DEF r
<1>11. act' \in [Ops -> ActRecords]
  BY <1>7, <1>8, <1>9, <1>10
<1>12. ActPlan' = ActPlan
  BY <1>2 DEF ActPlan, InOne, InTwo, InThree, JustRuns
<1>13. ActTypes'
  <2>1. \A p \in Ops : /\ act'[p].phase = "running" <=> act'[p].todo # <<>>
                      /\ OnPlan(act[p].todo)'
    <3> SUFFICES ASSUME NEW p \in Ops
                 PROVE  /\ act'[p].phase = "running" <=> act'[p].todo # <<>>
                        /\ OnPlan(act[p].todo)'
      OBVIOUS
    <3>1. CASE p = o
      BY <1>3, <1>8, <1>9, <1>12, <3>1 DEF IsScript, OnPlan, script
    <3>2. CASE p # o
      BY <1>10, <1>12, <3>2 DEF ActIInv, ActTypes, OnPlan
    <3> QED
      BY <3>1, <3>2
  <2>2. actStarted' \in 0..(MaxOps + 1)
    BY <1>2, ActionsValues DEF ActIInv, ActTypes, Act!ActionsConstants
  <2> QED
    BY <1>2, <1>11, <2>1, <2>2 DEF ActIInv, ActTypes
<1>14. ActVerified'
  <2> SUFFICES ASSUME Act!Verified, NEW p \in Ops
               PROVE  act'[p].clean /\ \A i \in DOMAIN act'[p].todo : act'[p].todo[i].way = "call"
    BY <1>2 DEF ActVerified, Act!Verified
  <2>1. CASE p = o
    BY <1>3, <1>8, <1>9, <2>1 DEF IsScript, script
  <2>2. CASE p # o
    BY <1>10, <2>2 DEF ActIInv, ActVerified
  <2> QED
    BY <2>1, <2>2
<1>15. \A p \in Ops : p # o => (act'[p].phase # "idle" => ~act'[p].alone)
  BY <1>6, <1>10 DEF Act!Running
<1>16. ActAlone'
  BY <1>5, <1>8, <1>9, <1>10, <1>15 DEF ActAlone, Act!Running
<1>17. ActPuts'
  <2> SUFFICES ASSUME NEW p \in Ops, act'[p].phase # "idle", act'[p].alone, act'[p].clean
               PROVE  Put(Len(act[p].todo), act[p].wants, actConf, delta, live)'
    BY DEF ActPuts, Act!Running
  <2>1. p = o
    BY <1>15
  <2>2. Len(act'[p].todo) = Len(ActPlan)
    BY <1>3, <1>8, <1>9, <2>1 DEF IsScript, script
  <2>3. /\ InThree => Len(ActPlan) = 3
        /\ InOne => Len(ActPlan) = 1
        /\ InTwo => Len(ActPlan) = 2
        /\ JustRuns => Len(ActPlan) = 1
        /\ kind = "oneshot" => Len(ActPlan) = 2
    BY DEF ActPlan, InOne, InTwo, InThree, JustRuns
  <2>4. /\ InThree' = InThree /\ InOne' = InOne /\ InTwo' = InTwo /\ JustRuns' = JustRuns
        /\ kind' = kind
    BY <1>2 DEF InOne, InTwo, InThree, JustRuns
  <2> DEFINE n == Len(act'[p].todo)
  <2>5. /\ InThree => n = 3
        /\ InOne => n = 1
        /\ InTwo => n = 2
        /\ JustRuns => n = 1
        /\ kind = "oneshot" => n = 2
    BY <2>2, <2>3
  <2> HIDE DEF n
  <2>6. \A w, c, d, l : Put(n, w, c, d, l)
    BY <2>5 DEF Put
  <2>7. Put(n, act'[p].wants, actConf', delta', live')
    BY <2>6
  <2> QED
    BY <2>4, <2>7 DEF n, Put
<1>18. ActAgrees'
  <2> SUFFICES ASSUME actFaults = 0, InThree \/ InOne
               PROVE  /\ live # actConf => \E p \in Ops : act'[p].phase = "running"
                      /\ delta # {} => \E p \in Ops : Len(act'[p].todo) >= 2
    BY <1>2 DEF ActAgrees, InThree, InOne
  <2>1. /\ live # actConf => \E p \in Ops : act[p].phase = "running"
        /\ delta # {} => \E p \in Ops : Len(act[p].todo) >= 2
    BY DEF ActIInv, ActAgrees
  <2>2. act[o].todo = <<>> /\ Len(<<>>) = 0
    BY <1>2, ActIdle DEF ActIInv, ActTypes, Act!Running
  <2>3. \A p \in Ops : Len(act[p].todo) >= 2 => p # o
    BY <2>2
  <2> QED
    BY <1>8, <1>9, <1>10, <2>1, <2>3
<1> QED
  BY <1>13, <1>14, <1>16, <1>17, <1>18 DEF ActIInv

\* What a query answers, and what the data then shows, is a setting.
LEMMA ActPollStep ==
    ASSUME ActIInv, Act!PollRead \/ Act!PollPublished
    PROVE  ActIInv'
<1>1. UNCHANGED <<kind, actVia, actConf, delta, live, act, actStarted, actFaults>>
  BY DEF Act!PollRead, Act!PollPublished
<1>2. Act!Shown \in BOOLEAN
  <2>1. delta # {} => (CHOOSE v \in delta : TRUE) \in BOOLEAN
    BY Zenon DEF ActIInv, ActTypes, Staged
  <2>2. actConf \in BOOLEAN /\ live \in BOOLEAN
    BY DEF ActIInv, ActTypes
  <2>3. Act!Switch.shows \in {"setting", "boot", "running"}
    <3>1. kind \in Act!AllKinds
      BY ActionsValues DEF Act!ActionsConstants, ActIInv, ActTypes
    <3> QED
      BY <3>1
         DEF Act!AllKinds, Act!Switch, Act!RuleSwitch, Act!RedirectSwitch, Act!ServiceSwitch,
             Act!OneShotSwitch, Act!AdBlockSwitch, Act!SimpleAdBlockSwitch, Act!BanIpSwitch,
             Act!SqmSwitch, Act!LedSwitch, Act!LedLight, Act!WireGuardSwitch, Act!WpsSwitch
  <2> QED
    BY <2>1, <2>2, <2>3 DEF Act!Shown
<1>3. \A v \in BOOLEAN : {v} \in Staged
  BY Zenon DEF Staged
<1>4. {} \in Staged
  BY DEF Staged
<1>5. actRead' \in Staged
  BY <1>2, <1>3, <1>4 DEF Act!PollRead, Act!PollPublished
<1>6. actData' \in BOOLEAN
  <2>1. CASE Act!PollRead
    BY <2>1 DEF Act!PollRead, ActIInv, ActTypes
  <2>2. CASE Act!PollPublished
    <3>1. actRead = {} \/ actRead = {TRUE} \/ actRead = {FALSE}
      BY Zenon DEF ActIInv, ActTypes, Staged
    <3>2. \A v \in actRead : v \in BOOLEAN
      BY Zenon, <3>1
    <3> QED
      BY <2>2, <3>2 DEF Act!PollPublished
  <2> QED
    BY <2>1, <2>2
<1>7. ActTypes'
  <2>1. ActPlan' = ActPlan
    BY <1>1 DEF ActPlan, InOne, InTwo, InThree, JustRuns
  <2> QED
    BY <1>1, <1>5, <1>6, <2>1 DEF ActIInv, ActTypes, OnPlan
<1> QED
  BY <1>1, <1>7
     DEF ActIInv, ActVerified, ActAlone, ActPuts, ActAgrees, Act!Running, Act!Verified, Put,
         InOne, InTwo, InThree, JustRuns

\* At the start nothing runs and the router runs what is configured.
LEMMA ActInitIInv == Act!Init => ActIInv
<1> SUFFICES ASSUME Act!Init PROVE ActIInv
  OBVIOUS
<1>1. /\ kind \in Kinds /\ actVia \in Transports
      /\ actConf \in BOOLEAN /\ live = actConf /\ actData = actConf
      /\ delta = {} /\ actRead = {} /\ act = [o \in Ops |-> Act!Idle]
      /\ actStarted = 0 /\ actFaults = 0
  BY DEF Act!Init
<1>2. {} \in Staged
  BY DEF Staged
<1>3. 0 \in 0..(MaxOps + 1) /\ 0 \in 0..MaxFaults
  BY ActionsValues DEF Act!ActionsConstants
<1>4. /\ Act!Idle \in ActRecords /\ Act!Idle.phase = "idle" /\ Act!Idle.todo = <<>>
      /\ Act!Idle.clean /\ OnPlan(<<>>) /\ DOMAIN <<>> = {}
  BY ActIdle
<1>5. act \in [Ops -> ActRecords] /\ \A o \in Ops : act[o] = Act!Idle
  BY <1>1, <1>4
<1>6. ActTypes
  BY <1>1, <1>2, <1>3, <1>4, <1>5 DEF ActTypes
<1>7. ActVerified
  BY <1>4, <1>5 DEF ActVerified
<1> QED
  BY <1>1, <1>4, <1>5, <1>6, <1>7 DEF ActIInv, ActAlone, ActPuts, ActAgrees, Act!Running

\* Every step keeps the invariant.
LEMMA ActNextIInv == ActIInv /\ [Act!Next]_actVars => ActIInv'
<1>1. ASSUME ActIInv, UNCHANGED actVars PROVE ActIInv'
  <2>1. ActTypes'
    <3>1. ActPlan' = ActPlan
      BY <1>1 DEF actVars, ActPlan, InOne, InTwo, InThree, JustRuns
    <3> QED
      BY <1>1, <3>1 DEF actVars, ActIInv, ActTypes, OnPlan
  <2>2. ActVerified' /\ ActAlone'
    BY <1>1 DEF actVars, ActIInv, ActVerified, ActAlone, Act!Running, Act!Verified
  <2>3. ActPuts'
    BY <1>1
       DEF actVars, ActIInv, ActPuts, Act!Running, Put, InOne, InTwo, InThree, JustRuns
  <2>4. ActAgrees'
    BY <1>1 DEF actVars, ActIInv, ActAgrees, InOne, InThree
  <2> QED
    BY <2>1, <2>2, <2>3, <2>4 DEF ActIInv
<1> QED
  BY <1>1, ActBeginStep, RequestedStep, MethodUnknownStep, RejectedStep,
     ActAnswerLostStep, ActAcknowledgeStep, ActPollStep DEF Act!Next

\* Once its script is done an undisturbed operation has done what it was asked for.
LEMMA ActDone == ActIInv => AckedIsDone
<1> SUFFICES ASSUME ActIInv, NEW o \in Ops, act[o].phase = "acked", act[o].alone,
                    act[o].clean \/ Act!Verified,
                    <<kind, actVia>> \notin {<<"redirect", "ubus">>, <<"wps", "luci">>}
             PROVE  /\ live = act[o].wants /\ Act!Shown = act[o].wants
                    /\ kind \notin {"service", "led", "light", "wireguard", "wps"} =>
                          actConf = act[o].wants
  BY DEF AckedIsDone, Act!AckedIsDone
<1> DEFINE w == act[o].wants
<1>1. act[o].clean /\ act[o].todo = <<>> /\ Len(<<>>) = 0
  BY ActIdle DEF ActIInv, ActTypes, ActVerified
<1>2. Put(0, w, actConf, delta, live)
  BY <1>1 DEF ActIInv, ActPuts, Act!Running
<1>3. kind \in Act!AllKinds /\ actVia \in {"ubus", "luci", "ssh"}
  BY ActionsValues DEF ActIInv, ActTypes, Act!ActionsConstants
<1>4. InThree \/ InOne \/ InTwo \/ JustRuns \/ kind = "oneshot"
  BY <1>3 DEF InThree, InOne, InTwo, JustRuns, Act!AllKinds
<1> HIDE DEF w
<1>5. /\ InThree \/ InOne \/ InTwo => actConf = w /\ delta = {} /\ live = w
      /\ JustRuns => live = w
      /\ kind = "oneshot" => actConf = w /\ live = w
  BY <1>2 DEF Put
<1>6. /\ InThree \/ InOne \/ InTwo => Act!Switch.shows \in {"setting", "running"}
      /\ JustRuns => Act!Switch.shows = "running"
      /\ kind = "oneshot" => Act!Switch.shows = "boot"
  <2>1. kind \in {"rule", "redirect", "sqm", "adblock", "simple_adblock", "banip"} =>
            Act!Switch.shows \in {"setting", "running"}
    BY DEF Act!Switch, Act!RuleSwitch, Act!RedirectSwitch, Act!AdBlockSwitch,
           Act!SimpleAdBlockSwitch, Act!BanIpSwitch, Act!SqmSwitch
  <2>2. kind \in {"service", "led", "light", "wireguard"} => Act!Switch.shows = "running"
    BY DEF Act!Switch, Act!ServiceSwitch, Act!LedSwitch, Act!LedLight, Act!WireGuardSwitch
  <2>3. kind = "wps" => Act!Switch.shows = "running"
    BY DEF Act!Switch, Act!WpsSwitch
  <2>4. kind = "oneshot" => Act!Switch.shows = "boot"
    BY DEF Act!Switch, Act!OneShotSwitch
  <2> QED
    BY <2>1, <2>2, <2>3, <2>4 DEF InThree, InOne, InTwo, JustRuns
<1>7. Act!Shown = w
  BY <1>4, <1>5, <1>6 DEF Act!Shown
<1>8. JustRuns <=> kind \in {"service", "led", "light", "wireguard", "wps"}
  BY DEF JustRuns
<1> QED
  BY <1>4, <1>5, <1>7, <1>8 DEF w

\* Once nobody is left to read what is committed, or to commit what is staged.
LEMMA ActSettled == ActIInv => ParallelChangesAgree
<1> SUFFICES ASSUME ActIInv,
                    kind \in {"rule", "redirect", "sqm"}, <<kind, actVia>> # <<"redirect", "ubus">>,
                    actFaults = 0, \A o \in Ops : ~Act!Running(o)
             PROVE  live = actConf /\ delta = {}
  BY DEF ParallelChangesAgree, Act!ParallelChangesAgree
<1>1. InThree \/ InOne
  <2>1. actVia \in {"ubus", "luci", "ssh"}
    BY ActionsValues DEF ActIInv, ActTypes, Act!ActionsConstants
  <2> QED
    BY <2>1 DEF InThree, InOne
<1>2. \A o \in Ops : act[o].phase # "running" /\ act[o].todo = <<>> /\ Len(<<>>) = 0
  BY ActIdle DEF ActIInv, ActTypes, Act!Running
<1>3. \A o \in Ops : ~(Len(act[o].todo) >= 2)
  BY <1>2
<1> QED
  BY <1>1, <1>2, <1>3 DEF ActIInv, ActAgrees

-----------------------------------------------------------------------------
(* The online share of a line.                                             *)

\* Records of numbers; the ranges are stated apart.
TotalInts == [first : Int, total : Int, since : Int, lastUp : Int, start : Int, epoch : Int]
SampleInts == [uptime : Int, online : Int, offline : Int]

\* Totals with a new value.
LEMMA TotalsWith ==
    ASSUME NEW t \in TotalInts, NEW b \in Int
    PROVE  /\ \A r : r = [t EXCEPT !.start = b] =>
                /\ r \in TotalInts /\ r.total = t.total /\ r.start = b /\ r.first = t.first
                /\ r.since = t.since /\ r.lastUp = t.lastUp /\ r.epoch = t.epoch
           /\ \A r : r = [t EXCEPT !.total = b] =>
                /\ r \in TotalInts /\ r.total = b /\ r.start = t.start /\ r.first = t.first
                /\ r.since = t.since /\ r.lastUp = t.lastUp /\ r.epoch = t.epoch
           /\ \A r : r = [t EXCEPT !.since = b] =>
                /\ r \in TotalInts /\ r.total = t.total /\ r.start = t.start
                /\ r.first = t.first /\ r.since = b /\ r.lastUp = t.lastUp
                /\ r.epoch = t.epoch
           /\ \A r : r = [t EXCEPT !.lastUp = b] =>
                /\ r \in TotalInts /\ r.total = t.total /\ r.start = t.start
                /\ r.first = t.first /\ r.since = t.since /\ r.lastUp = b
                /\ r.epoch = t.epoch
           /\ \A r : r = [t EXCEPT !.epoch = b] =>
                /\ r \in TotalInts /\ r.total = t.total /\ r.start = t.start
                /\ r.first = t.first /\ r.since = t.since /\ r.lastUp = t.lastUp
                /\ r.epoch = b
BY DEF TotalInts

\* The totals after an outage or an online spell of which a sample tells.
LEMMA CountOnlineFields ==
    ASSUME NEW t \in TotalInts, NEW start \in Int
    PROVE  LET r == Mwan!CountOnline(t, start)
               gap == t.start # -1 /\ t.start <= start /\ start > t.start + Tolerance
               base == IF t.lastUp < t.start THEN t.start ELSE t.lastUp
           IN  /\ r \in TotalInts /\ r.lastUp = t.lastUp /\ r.epoch = t.epoch
               /\ t.first = -1 => /\ r.first = start /\ r.start = start
                                  /\ r.total = t.total /\ r.since = t.since
               /\ t.first # -1 => r.first = t.first /\ r.since = -1
               /\ t.first # -1 /\ t.since # -1 =>
                    /\ r.start = start
                    /\ r.total = t.total + IF start < t.since THEN 0 ELSE start - t.since
               /\ t.first # -1 /\ t.since = -1 /\ (t.start = -1 \/ start < t.start) =>
                    r.start = start /\ r.total = t.total
               /\ t.first # -1 /\ t.since = -1 /\ gap =>
                    /\ r.start = start
                    /\ r.total = t.total + IF start < base THEN 0 ELSE start - base
               /\ t.first # -1 /\ t.since = -1 /\ t.start # -1 /\ t.start <= start /\ ~gap =>
                    r.start = t.start /\ r.total = t.total
<1> DEFINE r == Mwan!CountOnline(t, start)
           base == IF t.lastUp < t.start THEN t.start ELSE t.lastUp
           seen == IF start < t.since THEN 0 ELSE start - t.since
           missed == IF start < base THEN 0 ELSE start - base
<1>0. Tolerance \in Nat
  BY MwanValues DEF Mwan!MwanConstants
<1>1. /\ t.first \in Int /\ t.total \in Int /\ t.since \in Int /\ t.lastUp \in Int
      /\ t.start \in Int /\ t.epoch \in Int
  BY DEF TotalInts
<1>2. seen \in Int /\ missed \in Int
  BY <1>1
<1>3. /\ Mwan!AtLeast0(start - t.since) = seen
      /\ Mwan!AtLeast0(start - Mwan!Larger(t.lastUp, t.start)) = missed
  BY <1>1 DEF Mwan!AtLeast0, Mwan!Larger
<1>4. CASE t.first = -1
  <2>1. r = [t EXCEPT !.first = start, !.start = start]
    BY <1>4 DEF Mwan!CountOnline, Mwan!Never
  <2> QED
    BY <1>4, <2>1 DEF TotalInts
<1>5. CASE t.first # -1 /\ t.since # -1
  <2>1. r = [t EXCEPT !.total = t.total + seen, !.since = -1, !.start = start]
    BY <1>3, <1>5 DEF Mwan!CountOnline, Mwan!Never
  <2> HIDE DEF r, seen, missed
  <2>2. /\ r \in TotalInts /\ r.lastUp = t.lastUp /\ r.epoch = t.epoch /\ r.first = t.first
        /\ r.since = -1 /\ r.start = start /\ r.total = t.total + seen
    <3> DEFINE a == t.total + seen
               u == [t EXCEPT !.total = a]
               v == [u EXCEPT !.since = -1]
               x == [v EXCEPT !.start = start]
    <3>1. a \in Int /\ -1 \in Int
      BY <1>1, <1>2
    <3>2. r = x
      BY <2>1
    <3> HIDE DEF a
    <3>3. /\ u \in TotalInts /\ u.total = a /\ u.start = t.start /\ u.first = t.first
          /\ u.since = t.since /\ u.lastUp = t.lastUp /\ u.epoch = t.epoch
      BY <3>1 DEF TotalInts
    <3> HIDE DEF u
    <3>4. /\ v \in TotalInts /\ v.total = a /\ v.start = u.start /\ v.first = u.first
          /\ v.since = -1 /\ v.lastUp = u.lastUp /\ v.epoch = u.epoch
      BY <3>1, <3>3 DEF TotalInts
    <3> HIDE DEF v
    <3>5. /\ x \in TotalInts /\ x.total = v.total /\ x.start = start /\ x.first = v.first
          /\ x.since = v.since /\ x.lastUp = v.lastUp /\ x.epoch = v.epoch
      BY <3>4 DEF TotalInts
    <3> HIDE DEF x
    <3> QED
      BY <3>2, <3>3, <3>4, <3>5 DEF a
  <2> QED
    BY <1>5, <2>2 DEF r, seen
<1>6. CASE t.first # -1 /\ t.since = -1 /\ (t.start = -1 \/ start < t.start)
  <2>1. r = [t EXCEPT !.start = start]
    BY <1>6 DEF Mwan!CountOnline, Mwan!Never
  <2> HIDE DEF r
  <2>2. /\ r \in TotalInts /\ r.lastUp = t.lastUp /\ r.epoch = t.epoch /\ r.first = t.first
        /\ r.since = t.since /\ r.start = start /\ r.total = t.total
    BY <1>1, <2>1 DEF TotalInts
  <2> QED
    BY <1>1, <1>6, <2>2 DEF r
<1>7. CASE t.first # -1 /\ t.since = -1 /\ t.start # -1 /\ t.start <= start
           /\ start > t.start + Tolerance
  <2>0. ~(start < t.start)
    BY <1>1, <1>7
  <2>1. r = [t EXCEPT !.total = t.total + missed, !.start = start]
    <3> HIDE DEF missed
    <3> QED
      BY <1>3, <1>7, <2>0 DEF Mwan!CountOnline, Mwan!Never
  <2> HIDE DEF r, seen, missed
  <2>2. /\ r \in TotalInts /\ r.lastUp = t.lastUp /\ r.epoch = t.epoch /\ r.first = t.first
        /\ r.since = t.since /\ r.start = start /\ r.total = t.total + missed
    <3> DEFINE a == t.total + missed
               u == [t EXCEPT !.total = a]
               x == [u EXCEPT !.start = start]
    <3>1. a \in Int
      BY <1>1, <1>2
    <3>2. r = x
      BY <2>1
    <3> HIDE DEF a
    <3>3. /\ u \in TotalInts /\ u.total = a /\ u.start = t.start /\ u.first = t.first
          /\ u.since = t.since /\ u.lastUp = t.lastUp /\ u.epoch = t.epoch
      BY <3>1 DEF TotalInts
    <3> HIDE DEF u
    <3>4. /\ x \in TotalInts /\ x.total = u.total /\ x.start = start /\ x.first = u.first
          /\ x.since = u.since /\ x.lastUp = u.lastUp /\ x.epoch = u.epoch
      BY <3>3 DEF TotalInts
    <3> HIDE DEF x
    <3> QED
      BY <3>2, <3>3, <3>4 DEF a
  <2> QED
    BY <1>1, <1>7, <2>2 DEF r, missed
<1>8. CASE t.first # -1 /\ t.since = -1 /\ t.start # -1 /\ t.start <= start
           /\ ~(start > t.start + Tolerance)
  <2>1. r = t
    BY <1>1, <1>8 DEF Mwan!CountOnline, Mwan!Never
  <2> HIDE DEF r
  <2> QED
    BY <1>1, <1>8, <2>1 DEF r
<1>9. start < t.start \/ t.start <= start
  BY <1>1
<1> QED
  BY <1>4, <1>5, <1>6, <1>7, <1>8, <1>9

\* The totals after a sample of an outage.
LEMMA CountOfflineFields ==
    ASSUME NEW t \in TotalInts, NEW start \in Int
    PROVE  LET r == Mwan!CountOffline(t, start)
           IN  /\ r \in TotalInts /\ r.lastUp = t.lastUp /\ r.epoch = t.epoch
               /\ r.first = t.first /\ r.total = t.total /\ r.start = t.start
               /\ r.since = IF t.first = -1 THEN t.since
                            ELSE IF t.since = -1 \/ start < t.since THEN start ELSE t.since
<1> DEFINE r == Mwan!CountOffline(t, start)
           since == IF t.since = -1 \/ start < t.since THEN start ELSE t.since
<1>1. t.since \in Int /\ since \in Int
  BY DEF TotalInts
<1>2. r = IF t.first = -1 THEN t ELSE [t EXCEPT !.since = since]
  BY DEF Mwan!CountOffline, Mwan!Never
<1> HIDE DEF r, since
<1> QED
  BY <1>1, <1>2 DEF TotalInts, r, since

\* Nothing lies in the future.
InPast(x) == x \in Int /\ -1 <= x /\ x <= now

PastTotals(t) ==
    /\ t \in TotalInts
    /\ InPast(t.first) /\ InPast(t.since) /\ InPast(t.lastUp) /\ InPast(t.start)
    /\ InPast(t.epoch) /\ 0 <= t.total
    /\ t.first = -1 => t.total = 0

PastSample(s) ==
    s \in SampleInts /\ InPast(s.uptime) /\ InPast(s.online) /\ InPast(s.offline)

\* The outage on record fits into the time before this boot, or into that time and
\* the part of this boot that was counted.
OutageFits(t) ==
    \/ t.total <= bootedAt
    \/ /\ t.total <= bootedAt + t.start /\ t.start <= stamp
       /\ t.since # -1 => t.start <= t.since

MwanRanges ==
    /\ now \in 0..MaxTime /\ bootedAt \in 0..now
    /\ line \in {"starting", "online", "offline"}
    /\ stamp \in 0..(now - bootedAt)
    /\ InPast(boot) /\ InPast(lastUptime)
    /\ PastSample(sample) /\ status \in {Mwan!NoSample, sample}
    /\ PastTotals(totals) /\ OutageFits(totals) /\ PastTotals(disk) /\ OutageFits(disk)
    /\ loaded \in BOOLEAN /\ watched \in BOOLEAN /\ fresh \in BOOLEAN
    /\ changes \in 0..MaxChanges /\ reboots \in 0..MaxReboots /\ restarts \in 0..MaxRestarts
    /\ down \in 0..now
    /\ ~loaded => totals = Mwan!NoTotals /\ sample = Mwan!NoSample

\* What the constants are.
LEMMA MwanNumbers ==
    /\ Tolerance \in Nat /\ RebootMargin \in Nat /\ DriftMargin \in Nat
    /\ EpochMargin \in Nat /\ SessionMargin \in Nat /\ MinDwell \in Nat /\ MinUp \in Nat
    /\ MaxChanges \in Nat /\ MaxReboots \in Nat /\ MaxRestarts \in Nat /\ MaxTime \in Nat
    /\ MaxTime > 0
    /\ Tolerance < 2 * MinDwell
    /\ SampleAtChange \in BOOLEAN /\ SaveMayFail \in BOOLEAN
BY MwanValues DEF Mwan!MwanConstants

\* Neither totals nor a sample.
LEMMA MwanNothing ==
    /\ Mwan!NoTotals \in TotalInts
    /\ Mwan!NoTotals.first = -1 /\ Mwan!NoTotals.total = 0 /\ Mwan!NoTotals.since = -1
    /\ Mwan!NoTotals.lastUp = -1 /\ Mwan!NoTotals.start = -1 /\ Mwan!NoTotals.epoch = -1
    /\ Mwan!NoSample \in SampleInts
    /\ Mwan!NoSample.uptime = -1 /\ Mwan!NoSample.online = -1 /\ Mwan!NoSample.offline = -1
BY DEF Mwan!NoTotals, Mwan!NoSample, Mwan!Never, TotalInts, SampleInts

\* What mwan3 answers.
LEMMA MwanReply ==
    ASSUME MwanRanges
    PROVE  /\ PastSample(Mwan!Reply)
           /\ Mwan!Uptime = now - bootedAt /\ Mwan!Uptime \in 0..now
           /\ Mwan!Reply.uptime = Mwan!Uptime
           /\ Mwan!Reply.online = IF line = "online" THEN Mwan!Uptime - stamp ELSE 0
           /\ Mwan!Reply.offline = IF line = "offline" THEN Mwan!Uptime - stamp ELSE 0
           /\ Mwan!Reply # Mwan!NoSample
<1> DEFINE u == Mwan!Uptime
           x == IF line = "online" THEN u - stamp ELSE 0
           y == IF line = "offline" THEN u - stamp ELSE 0
<1>1. /\ u = now - bootedAt /\ u \in Int /\ 0 <= u /\ u <= now
      /\ x \in Int /\ 0 <= x /\ x <= now /\ y \in Int /\ 0 <= y /\ y <= now
  BY DEF MwanRanges, Mwan!Uptime
<1>2. Mwan!Reply = [uptime |-> u, online |-> x, offline |-> y]
  BY DEF Mwan!Reply
<1> HIDE DEF u, x, y
<1>3. /\ Mwan!Reply \in SampleInts /\ Mwan!Reply.uptime = u /\ Mwan!Reply.online = x
      /\ Mwan!Reply.offline = y
  BY <1>1, <1>2 DEF SampleInts
<1>4. PastSample(Mwan!Reply) /\ Mwan!Reply # Mwan!NoSample /\ u \in 0..now
  BY <1>1, <1>3, MwanNothing DEF PastSample, InPast, MwanRanges
<1> QED
  BY <1>1, <1>3, <1>4 DEF u, x, y

\* The totals of an update before the sample is counted.
LEMMA MwanReanchor ==
    ASSUME NEW t \in TotalInts, NEW u \in Int
    PROVE  LET r == Mwan!Reanchor(t, u)
           IN  /\ r \in TotalInts
               /\ t.first <= u => r = t
               /\ t.first > u => /\ r.first = -1 /\ r.total = 0 /\ r.since = -1
                                 /\ r.start = -1 /\ r.lastUp = t.lastUp
                                 /\ r.epoch = t.epoch
<1> DEFINE x == [Mwan!NoTotals EXCEPT !.lastUp = t.lastUp]
           r == [x EXCEPT !.epoch = t.epoch]
<1>1. t.first \in Int /\ t.lastUp \in Int /\ t.epoch \in Int
  BY DEF TotalInts
<1>2. /\ x \in TotalInts /\ x.first = -1 /\ x.total = 0 /\ x.since = -1 /\ x.start = -1
      /\ x.lastUp = t.lastUp
  BY <1>1, MwanNothing DEF TotalInts
<1>3. Mwan!Reanchor(t, u) = IF t.first > u THEN r ELSE t
  BY DEF Mwan!Reanchor
<1> HIDE DEF x
<1>4. /\ r \in TotalInts /\ r.first = x.first /\ r.total = x.total /\ r.since = x.since
      /\ r.start = x.start /\ r.lastUp = x.lastUp /\ r.epoch = t.epoch
  BY <1>1, <1>2 DEF TotalInts
<1> HIDE DEF r
<1> QED
  BY <1>1, <1>2, <1>3, <1>4

\* What a reply counts as: the present state began at the stamp, unless it did so
\* this very second.
LEMMA MwanCount ==
    ASSUME MwanRanges, NEW t \in TotalInts
    PROVE  LET u == Mwan!Uptime
               r == Mwan!Count(t, Mwan!Reply, u)
           IN  \E c \in TotalInts :
                 /\ line = "online" /\ u > stamp => c = Mwan!CountOnline(t, stamp)
                 /\ line = "offline" /\ u > stamp => c = Mwan!CountOffline(t, stamp)
                 /\ line = "starting" \/ u = stamp => c = t
                 /\ r \in TotalInts /\ r.lastUp = u /\ r.first = c.first /\ r.total = c.total
                 /\ r.since = c.since /\ r.start = c.start /\ r.epoch = c.epoch
<1> DEFINE u == Mwan!Uptime
           s == Mwan!Reply
           c == IF s.online > 0 THEN Mwan!CountOnline(t, u - s.online)
                ELSE IF s.offline > 0 THEN Mwan!CountOffline(t, u - s.offline)
                ELSE t
           r == [c EXCEPT !.lastUp = u]
<1>1. /\ u \in Int /\ stamp \in Int /\ stamp <= u
      /\ s.online = IF line = "online" THEN u - stamp ELSE 0
      /\ s.offline = IF line = "offline" THEN u - stamp ELSE 0
  <2>1. u = now - bootedAt
    BY MwanReply
  <2>2. u \in Int /\ stamp \in Int /\ stamp <= u
    BY <2>1 DEF MwanRanges
  <2> QED
    BY <2>2, MwanReply
<1>2. /\ line = "online" /\ u > stamp => c = Mwan!CountOnline(t, stamp)
      /\ line = "offline" /\ u > stamp => c = Mwan!CountOffline(t, stamp)
      /\ line = "starting" \/ u = stamp => c = t
  <2> HIDE DEF u, s
  <2>1. ASSUME line = "online", u > stamp
        PROVE  c = Mwan!CountOnline(t, stamp)
    <3>1. s.online > 0 /\ u - s.online = stamp
      BY <1>1, <2>1
    <3> QED
      BY <3>1
  <2>2. ASSUME line = "offline", u > stamp
        PROVE  c = Mwan!CountOffline(t, stamp)
    <3>1. s.offline > 0 /\ u - s.offline = stamp /\ ~(s.online > 0)
      BY <1>1, <2>2
    <3> QED
      BY <3>1
  <2>3. ASSUME line = "starting" \/ u = stamp
        PROVE  c = t
    <3>1. ~(s.offline > 0) /\ ~(s.online > 0)
      BY <1>1, <2>3
    <3> QED
      BY <3>1
  <2> HIDE DEF c
  <2> QED
    BY <2>1, <2>2, <2>3
<1>3. c \in TotalInts
  <2>1. s.online \in Int /\ s.offline \in Int
    <3> HIDE DEF s, u
    <3> QED
      BY <1>1
  <2>2. u - s.online \in Int /\ u - s.offline \in Int
    <3> HIDE DEF s, u
    <3> QED
      BY <1>1, <2>1
  <2>3. \A x \in Int : Mwan!CountOnline(t, x) \in TotalInts
    BY CountOnlineFields
  <2>4. \A x \in Int : Mwan!CountOffline(t, x) \in TotalInts
    BY CountOfflineFields
  <2> HIDE DEF s, u
  <2> QED
    BY <2>2, <2>3, <2>4
<1>4. Mwan!Count(t, s, u) = r
  BY DEF Mwan!Count
<1> HIDE DEF c, u, s
<1>5. /\ r \in TotalInts /\ r.lastUp = u /\ r.first = c.first /\ r.total = c.total
      /\ r.since = c.since /\ r.start = c.start /\ r.epoch = c.epoch
  BY <1>1, <1>3 DEF TotalInts
<1> HIDE DEF r
<1>6. Mwan!Count(t, s, u) \in TotalInts
  BY <1>4, <1>5
<1> QED
  BY <1>2, <1>3, <1>4, <1>5 DEF u, s

\* One update, step by step: `old' are the totals it starts from, `base' those after
\* a reset, `anchored' those of this boot, `new' those after the sample.  A failed
\* query tells nothing new: what it hands back is the sample that is known, or of
\* the boot before.
UpdateSteps(ok, keeps, reset, base, anchored, new) ==
    LET u == Mwan!Uptime
        b == Mwan!BootTime(u)
        old == Mwan!Load(b)
        opens == anchored.first = -1 /\ new.first # -1
    IN  /\ u > 0 /\ b \in Int /\ -1 <= b /\ b <= now
        /\ keeps \/ SaveMayFail
        /\ old \in {totals, disk}
        /\ reset <=> Mwan!MustReset(old, u, b)
        /\ base = [(IF reset THEN Mwan!NoTotals ELSE old) EXCEPT !.epoch = b]
        /\ anchored \in {base, Mwan!Reanchor(base, u)}
        /\ \/ new = anchored /\ ~fresh'
           \/ /\ ok /\ new = Mwan!Count(anchored, Mwan!Reply, u)
              /\ fresh' <=> u > stamp
        /\ ok => SampleAtChange \/ line = "starting" \/ u > stamp
        /\ boot' = b /\ lastUptime' = u /\ loaded' = TRUE /\ totals' = new
        /\ disk' = IF keeps /\ (reset \/ Mwan!Changed(new)) THEN new ELSE disk
        /\ sample' \in {Mwan!NoSample, sample, Mwan!Reply}
        /\ status' \in {Mwan!NoSample, sample'}
        /\ changes' = IF fresh' THEN 0 ELSE changes
        /\ down' = IF opens THEN 0 ELSE down
        /\ watched' <=> watched \/ opens
        /\ fresh' \in BOOLEAN /\ watched' \in BOOLEAN
        /\ UNCHANGED <<now, bootedAt, line, stamp, reboots, restarts>>

\* Every update is such steps.
LEMMA MwanUpdate ==
    ASSUME MwanRanges, NEW ok \in BOOLEAN, NEW keeps \in BOOLEAN, Mwan!Update(ok, keeps)
    PROVE  \E reset \in BOOLEAN, base, anchored, new \in TotalInts :
             UpdateSteps(ok, keeps, reset, base, anchored, new)
<1> DEFINE u == Mwan!Uptime
           b == Mwan!BootTime(u)
           s == IF ok THEN Mwan!Reply ELSE status
           old == Mwan!Load(b)
           reset == Mwan!MustReset(old, u, b)
           base == [(IF reset THEN Mwan!NoTotals ELSE old) EXCEPT !.epoch = b]
           drop == Mwan!Dropped(s, u, reset)
           known == IF reset THEN Mwan!NoSample ELSE sample
           isNew == ~drop /\ s # known
           anchored == IF drop THEN base ELSE Mwan!Reanchor(base, u)
           new == IF isNew THEN Mwan!Count(anchored, s, u) ELSE anchored
           opens == anchored.first = -1 /\ new.first # -1
<1>1. /\ u > 0
      /\ keeps \/ SaveMayFail
      /\ ok => SampleAtChange \/ line = "starting" \/ u > stamp
      /\ s # Mwan!NoSample
      /\ boot' = b /\ lastUptime' = u /\ loaded' = TRUE /\ totals' = new
      /\ status' = IF drop THEN Mwan!NoSample ELSE s
      /\ sample' = IF drop THEN known ELSE s
      /\ disk' = IF keeps /\ (reset \/ Mwan!Changed(new)) THEN new ELSE disk
      /\ fresh' = (isNew /\ ok /\ u > stamp)
      /\ changes' = IF fresh' THEN 0 ELSE changes
      /\ down' = IF opens THEN 0 ELSE down
      /\ watched' = (watched \/ opens)
      /\ UNCHANGED <<now, bootedAt, line, stamp, reboots, restarts>>
  BY DEF Mwan!Update, Mwan!router, Mwan!Never
<1>2. /\ u \in Int /\ b \in Int /\ -1 <= b /\ b <= now
  <2>1. /\ u \in Int /\ boot \in Int /\ -1 <= boot /\ boot <= now /\ bootedAt \in Int
        /\ -1 <= bootedAt /\ bootedAt <= now
    BY MwanReply DEF MwanRanges, InPast
  <2>2. b = bootedAt \/ b = boot
    BY DEF Mwan!BootTime
  <2> QED
    BY <2>1, <2>2
<1>3. old \in {totals, disk} /\ old \in TotalInts
  BY DEF Mwan!Load, MwanRanges, PastTotals
<1>4. base \in TotalInts
  <2>1. (IF reset THEN Mwan!NoTotals ELSE old) \in TotalInts
    BY <1>3, MwanNothing
  <2> HIDE DEF b, old, reset
  <2> QED
    BY <1>2, <2>1, TotalsWith
<1>5. anchored \in TotalInts /\ anchored \in {base, Mwan!Reanchor(base, u)}
  <2> HIDE DEF base, u, drop
  <2> QED
    BY <1>2, <1>4, MwanReanchor
<1>6. isNew => ok
  <2> SUFFICES ASSUME isNew, ~ok PROVE FALSE
    OBVIOUS
  <2>1. s = status /\ status = sample /\ s # Mwan!NoSample
    BY <1>1 DEF MwanRanges
  <2>2. ~reset
    BY <2>1 DEF Mwan!Dropped
  <2> QED
    BY <2>1, <2>2
<1>7. \/ new = anchored /\ ~isNew
      \/ isNew /\ ok /\ new = Mwan!Count(anchored, Mwan!Reply, u)
  BY <1>6
<1>8. new \in TotalInts
  <2>1. Mwan!Count(anchored, Mwan!Reply, u) \in TotalInts
    <3> HIDE DEF anchored
    <3> QED
      BY <1>5, MwanCount
  <2> HIDE DEF anchored, new, isNew, u
  <2> QED
    BY <1>5, <1>7, <2>1
<1>9. /\ sample' \in {Mwan!NoSample, sample, Mwan!Reply}
      /\ status' \in {Mwan!NoSample, sample'}
  <2>1. s = Mwan!Reply \/ s = sample
    BY <1>1 DEF MwanRanges
  <2>2. known = Mwan!NoSample \/ known = sample
    OBVIOUS
  <2> HIDE DEF s, known, drop
  <2> QED
    BY <1>1, <2>1, <2>2
<1> HIDE DEF u, b, s, old, base, drop, known, isNew, anchored, new
<1>10. fresh' <=> isNew /\ ok /\ u > stamp
  BY <1>1
<1>11. (new = anchored /\ ~fresh')
       \/ (ok /\ new = Mwan!Count(anchored, Mwan!Reply, u) /\ (fresh' <=> u > stamp))
  BY <1>7, <1>10
<1>12. fresh' \in BOOLEAN /\ watched' \in BOOLEAN /\ (watched' <=> watched \/ opens)
  BY <1>1, <1>10 DEF MwanRanges
<1>13. PICK r \in BOOLEAN : r <=> reset
  OBVIOUS
<1>14. disk' = IF keeps /\ (r \/ Mwan!Changed(new)) THEN new ELSE disk
  BY <1>1, <1>13
<1>15. base = [(IF r THEN Mwan!NoTotals ELSE old) EXCEPT !.epoch = b]
  BY <1>13 DEF base
<1>16. down' = IF opens THEN 0 ELSE down
  BY <1>1
<1>17. r <=> Mwan!MustReset(old, u, b)
  BY <1>13
<1> HIDE DEF reset, opens
<1>18. /\ base \in TotalInts /\ anchored \in TotalInts /\ new \in TotalInts
       /\ anchored \in {base, Mwan!Reanchor(base, u)}
  BY <1>4, <1>5, <1>8
<1>19. UNCHANGED <<now, bootedAt, line, stamp, reboots, restarts>>
  BY <1>1
<1>20. /\ u > 0 /\ b \in Int /\ -1 <= b /\ b <= now
       /\ old \in {totals, disk}
       /\ keeps \/ SaveMayFail
  BY <1>1, <1>2, <1>3
<1>21. /\ ok => SampleAtChange \/ line = "starting" \/ u > stamp
       /\ boot' = b /\ lastUptime' = u /\ loaded' = TRUE /\ totals' = new
  BY <1>1
<1>22. changes' = IF fresh' THEN 0 ELSE changes
  BY <1>1
<1>23. UpdateSteps(ok, keeps, r, base, anchored, new)
  <2> USE DEF u, b, old, opens
  <2> QED
    BY <1>9, <1>11, <1>12, <1>14, <1>15, <1>16, <1>17, <1>18, <1>19, <1>20, <1>21, <1>22
       DEF UpdateSteps
<1> QED
  BY <1>13, <1>18, <1>23

\* Where an update starts from: the totals of before, or none.
LEMMA MwanBase ==
    ASSUME NEW ok \in BOOLEAN, NEW keeps \in BOOLEAN, NEW reset \in BOOLEAN,
           NEW base \in TotalInts, NEW anchored \in TotalInts, NEW new \in TotalInts,
           MwanRanges, UpdateSteps(ok, keeps, reset, base, anchored, new)
    PROVE  LET b == Mwan!BootTime(Mwan!Uptime)
               old == Mwan!Load(b)
           IN  /\ old \in TotalInts /\ base.epoch = b
               /\ reset => /\ base.first = -1 /\ base.total = 0 /\ base.since = -1
                           /\ base.lastUp = -1 /\ base.start = -1
               /\ ~reset => /\ base.first = old.first /\ base.total = old.total
                            /\ base.since = old.since /\ base.lastUp = old.lastUp
                            /\ base.start = old.start
<1> DEFINE b == Mwan!BootTime(Mwan!Uptime)
           old == Mwan!Load(b)
           from == IF reset THEN Mwan!NoTotals ELSE old
<1>1. b \in Int /\ old \in {totals, disk} /\ base = [from EXCEPT !.epoch = b]
  BY DEF UpdateSteps
<1>2. old \in TotalInts
  BY <1>1 DEF MwanRanges, PastTotals
<1>3. from \in TotalInts
  BY <1>2, MwanNothing
<1> HIDE DEF b, old, from
<1>4. /\ base.epoch = b /\ base.first = from.first /\ base.total = from.total
      /\ base.since = from.since /\ base.lastUp = from.lastUp /\ base.start = from.start
  BY <1>1, <1>3, TotalsWith
<1> QED
  BY <1>2, <1>4, MwanNothing DEF from, b, old

\* The totals are totals as time passes.
LEMMA PastStep ==
    ASSUME NEW t, PastTotals(t), now \in Int, now' \in Int, now <= now'
    PROVE  PastTotals(t)'
BY DEF PastTotals, InPast, TotalInts

\* The sample counted in: what is on record stays in the past, and fits.
LEMMA MwanCounted ==
    ASSUME MwanRanges, NEW t, PastTotals(t), OutageFits(t)
    PROVE  LET r == Mwan!Count(t, Mwan!Reply, Mwan!Uptime)
           IN  PastTotals(r) /\ OutageFits(r)
<1> DEFINE u == Mwan!Uptime
           r == Mwan!Count(t, Mwan!Reply, u)
<1>1. PICK c \in TotalInts :
        /\ line = "online" /\ u > stamp => c = Mwan!CountOnline(t, stamp)
        /\ line = "offline" /\ u > stamp => c = Mwan!CountOffline(t, stamp)
        /\ line = "starting" \/ u = stamp => c = t
        /\ r \in TotalInts /\ r.lastUp = u /\ r.first = c.first /\ r.total = c.total
        /\ r.since = c.since /\ r.start = c.start /\ r.epoch = c.epoch
  BY MwanCount DEF PastTotals
<1>2. /\ u = now - bootedAt /\ u \in Int /\ 0 <= u /\ u <= now
      /\ stamp \in Int /\ 0 <= stamp /\ stamp <= u /\ now \in Int /\ bootedAt \in Int
      /\ 0 <= bootedAt
  BY MwanReply DEF MwanRanges
<1>3. /\ t \in TotalInts /\ t.first \in Int /\ t.total \in Int /\ t.since \in Int
      /\ t.lastUp \in Int /\ t.start \in Int /\ t.epoch \in Int
      /\ -1 <= t.first /\ -1 <= t.since /\ -1 <= t.lastUp /\ -1 <= t.start
      /\ t.first <= now /\ t.since <= now /\ t.lastUp <= now /\ t.start <= now
      /\ 0 <= t.total /\ (t.first = -1 => t.total = 0)
      /\ InPast(t.epoch)
  <2>1. t \in TotalInts
    BY DEF PastTotals
  <2> QED
    BY <2>1 DEF PastTotals, InPast, TotalInts
<1>4. /\ r.first \in Int /\ r.total \in Int /\ r.since \in Int /\ r.lastUp \in Int
      /\ r.start \in Int /\ r.epoch \in Int
  BY <1>1 DEF TotalInts
<1>5. c.epoch = t.epoch
  <2>1. Mwan!CountOnline(t, stamp).epoch = t.epoch
    BY <1>2, <1>3, CountOnlineFields
  <2>2. Mwan!CountOffline(t, stamp).epoch = t.epoch
    BY <1>2, <1>3, CountOfflineFields
  <2>3. line = "online" \/ line = "offline" \/ line = "starting"
    BY DEF MwanRanges
  <2>4. u > stamp \/ u = stamp
    BY <1>2
  <2> HIDE DEF u, r
  <2> QED
    BY <1>1, <2>1, <2>2, <2>3, <2>4
<1>6. /\ -1 <= c.first /\ -1 <= c.since /\ -1 <= c.start
      /\ c.first <= now /\ c.since <= now /\ c.start <= now
      /\ 0 <= c.total /\ (c.first = -1 => c.total = 0)
      /\ OutageFits(c)
  <2>1. CASE c = t
    BY <1>3, <2>1
  <2>2. CASE c = Mwan!CountOnline(t, stamp)
    <3> DEFINE k == Mwan!CountOnline(t, stamp)
               base == IF t.lastUp < t.start THEN t.start ELSE t.lastUp
               seen == IF stamp < t.since THEN 0 ELSE stamp - t.since
               missed == IF stamp < base THEN 0 ELSE stamp - base
    <3>1. seen \in Int /\ missed \in Int /\ base \in Int /\ t.start <= base /\ t.lastUp <= base
      BY <1>2, <1>3
    <3>2. /\ t.first = -1 => /\ k.first = stamp /\ k.start = stamp
                             /\ k.total = t.total /\ k.since = t.since
          /\ t.first # -1 => k.first = t.first /\ k.since = -1
      BY <1>2, <1>3, CountOnlineFields
    <3>3. t.first # -1 =>
            \/ k.start = stamp /\ k.total = t.total + seen /\ t.since # -1
            \/ k.start = stamp /\ k.total = t.total /\ t.since = -1
               /\ (t.start = -1 \/ stamp < t.start)
            \/ k.start = stamp /\ k.total = t.total + missed /\ t.since = -1 /\ t.start # -1
            \/ k.start = t.start /\ k.total = t.total /\ t.since = -1
      <4>0. Tolerance \in Nat
        BY MwanNumbers
      <4>1. /\ t.first # -1 /\ t.since # -1 => k.start = stamp /\ k.total = t.total + seen
            /\ t.first # -1 /\ t.since = -1 /\ (t.start = -1 \/ stamp < t.start) =>
                 k.start = stamp /\ k.total = t.total
            /\ t.first # -1 /\ t.since = -1 /\ t.start # -1 /\ t.start <= stamp
                 /\ stamp > t.start + Tolerance =>
                 k.start = stamp /\ k.total = t.total + missed
            /\ t.first # -1 /\ t.since = -1 /\ t.start # -1 /\ t.start <= stamp
                 /\ ~(stamp > t.start + Tolerance) =>
                 k.start = t.start /\ k.total = t.total
        BY <1>2, <1>3, CountOnlineFields
      <4> HIDE DEF k, seen, missed, base
      <4>2. stamp < t.start \/ t.start <= stamp
        BY <1>2, <1>3
      <4> QED
        BY <4>1, <4>2
    <3> HIDE DEF k, seen, missed, base
    <3>4. CASE t.first = -1
      BY <1>2, <1>3, <2>2, <3>2, <3>4 DEF OutageFits, k
    <3>5. CASE t.first # -1 /\ t.since # -1 /\ k.start = stamp /\ k.total = t.total + seen
      BY <1>2, <1>3, <2>2, <3>1, <3>2, <3>5 DEF OutageFits, k, seen
    <3>6. CASE t.first # -1 /\ t.since = -1 /\ k.start = stamp /\ k.total = t.total
               /\ (t.start = -1 \/ stamp < t.start)
      BY <1>2, <1>3, <2>2, <3>2, <3>6 DEF OutageFits, k
    <3>7. CASE t.first # -1 /\ t.since = -1 /\ k.start = stamp /\ k.total = t.total + missed
               /\ t.start # -1
      BY <1>2, <1>3, <2>2, <3>1, <3>2, <3>7 DEF OutageFits, k, missed
    <3>8. CASE t.first # -1 /\ t.since = -1 /\ k.start = t.start /\ k.total = t.total
      BY <1>2, <1>3, <2>2, <3>2, <3>8 DEF OutageFits, k
    <3> QED
      BY <3>3, <3>4, <3>5, <3>6, <3>7, <3>8
  <2>3. CASE c = Mwan!CountOffline(t, stamp)
    <3> DEFINE k == Mwan!CountOffline(t, stamp)
    <3>1. /\ k.first = t.first /\ k.total = t.total /\ k.start = t.start
          /\ k.since = IF t.first = -1 THEN t.since
                       ELSE IF t.since = -1 \/ stamp < t.since THEN stamp ELSE t.since
      BY <1>2, <1>3, CountOfflineFields
    <3> HIDE DEF k
    <3>2. c = k
      BY <2>3 DEF k
    <3> QED
      BY <1>2, <1>3, <3>1, <3>2 DEF OutageFits
  <2>4. line = "online" \/ line = "offline" \/ line = "starting"
    BY DEF MwanRanges
  <2>5. u > stamp \/ u = stamp
    BY <1>2
  <2> QED
    BY <1>1, <2>1, <2>2, <2>3, <2>4, <2>5
<1> HIDE DEF r, u
<1>7. PastTotals(r)
  BY <1>1, <1>2, <1>3, <1>4, <1>5, <1>6 DEF PastTotals, InPast
<1>8. OutageFits(r)
  BY <1>1, <1>6 DEF OutageFits
<1> QED
  BY <1>7, <1>8 DEF r, u

\* What an update starts from and what it ends with are of the past, and fit.
LEMMA MwanPast ==
    ASSUME NEW ok \in BOOLEAN, NEW keeps \in BOOLEAN, NEW reset \in BOOLEAN,
           NEW base \in TotalInts, NEW anchored \in TotalInts, NEW new \in TotalInts,
           MwanRanges, UpdateSteps(ok, keeps, reset, base, anchored, new)
    PROVE  /\ PastTotals(base) /\ OutageFits(base)
           /\ PastTotals(anchored) /\ OutageFits(anchored)
           /\ PastTotals(new) /\ OutageFits(new)
<1> DEFINE u == Mwan!Uptime
           b == Mwan!BootTime(u)
           old == Mwan!Load(b)
<1>1. /\ u = now - bootedAt /\ u \in Int /\ 0 <= u /\ u <= now
      /\ bootedAt \in Int /\ 0 <= bootedAt /\ now \in Int
  BY MwanReply DEF MwanRanges
<1>2. PastTotals(old) /\ OutageFits(old)
  <2>1. old \in {totals, disk}
    BY DEF UpdateSteps
  <2> HIDE DEF old
  <2> QED
    BY <2>1 DEF MwanRanges
<1>3. PastTotals(base) /\ OutageFits(base)
  <2>1. /\ b \in Int /\ -1 <= b /\ b <= now
    BY DEF UpdateSteps
  <2>2. /\ base.epoch = b
        /\ reset => /\ base.first = -1 /\ base.total = 0 /\ base.since = -1
                    /\ base.lastUp = -1 /\ base.start = -1
        /\ ~reset => /\ base.first = old.first /\ base.total = old.total
                     /\ base.since = old.since /\ base.lastUp = old.lastUp
                     /\ base.start = old.start
    BY MwanBase
  <2> HIDE DEF u, b, old
  <2> QED
    BY <1>1, <1>2, <2>1, <2>2 DEF PastTotals, OutageFits, InPast
<1>4. PastTotals(anchored) /\ OutageFits(anchored)
  <2>1. anchored \in {base, Mwan!Reanchor(base, u)}
    BY DEF UpdateSteps
  <2>2. CASE anchored = base
    BY <1>3, <2>2
  <2>3. CASE anchored = Mwan!Reanchor(base, u)
    <3>1. /\ base.first <= u => anchored = base
          /\ base.first > u => /\ anchored.first = -1 /\ anchored.total = 0
                               /\ anchored.since = -1 /\ anchored.start = -1
                               /\ anchored.lastUp = base.lastUp
                               /\ anchored.epoch = base.epoch
      BY <1>1, <2>3, MwanReanchor
    <3>2. base.first \in Int /\ base.lastUp \in Int /\ base.epoch \in Int
      BY DEF TotalInts
    <3> HIDE DEF u
    <3>3. CASE base.first <= u
      BY <1>3, <3>1, <3>3
    <3>4. CASE base.first > u
      BY <1>1, <1>3, <3>1, <3>4 DEF PastTotals, OutageFits, InPast
    <3> QED
      BY <1>1, <3>2, <3>3, <3>4
  <2> QED
    BY <2>1, <2>2, <2>3
<1>5. PastTotals(new) /\ OutageFits(new)
  <2>1. new = anchored \/ new = Mwan!Count(anchored, Mwan!Reply, u)
    BY DEF UpdateSteps
  <2> HIDE DEF u
  <2> QED
    BY <1>4, <2>1, MwanCounted DEF u
<1> QED
  BY <1>3, <1>4, <1>5

\* At the start.
LEMMA MwanInitRanges ==
    Mwan!Init => MwanRanges
<1> SUFFICES ASSUME Mwan!Init PROVE MwanRanges
  OBVIOUS
<1>1. PastTotals(Mwan!NoTotals) /\ OutageFits(Mwan!NoTotals) /\ PastSample(Mwan!NoSample)
  BY MwanNothing DEF Mwan!Init, PastTotals, OutageFits, PastSample, InPast
<1>2. /\ now = 0 /\ bootedAt = 0 /\ line = "starting" /\ stamp = 0 /\ boot = -1
      /\ lastUptime = -1 /\ changes = 0 /\ reboots = 0 /\ restarts = 0 /\ down = 0
      /\ status = Mwan!NoSample /\ sample = Mwan!NoSample
      /\ totals = Mwan!NoTotals /\ disk = Mwan!NoTotals
  BY DEF Mwan!Init, Mwan!Never
<1>3. loaded \in BOOLEAN /\ watched \in BOOLEAN /\ fresh \in BOOLEAN
  BY DEF Mwan!Init
<1> QED
  BY <1>1, <1>2, <1>3, MwanNumbers DEF MwanRanges, InPast

\* Every step leaves the numbers in their ranges.
LEMMA MwanNextRanges ==
    MwanRanges /\ [Mwan!Next]_mwanVars => MwanRanges'
<1> SUFFICES ASSUME MwanRanges, [Mwan!Next]_mwanVars PROVE MwanRanges'
  OBVIOUS
<1> USE MwanNumbers
<1>1. CASE UNCHANGED mwanVars
  BY <1>1 DEF mwanVars, MwanRanges, PastTotals, OutageFits, PastSample, InPast
<1>2. CASE Mwan!Tick
  <2>1. /\ now' = now + 1 /\ now' \in 0..MaxTime /\ now \in Int
        /\ UNCHANGED <<bootedAt, line, stamp, status, boot, lastUptime, totals, sample,
                       loaded, disk, changes, reboots, restarts, watched>>
        /\ fresh' = FALSE /\ down' \in {down, down + 1}
    BY <1>2 DEF Mwan!Tick, Mwan!memory, MwanRanges
  <2>4. down' \in 0..now'
    BY <2>1 DEF MwanRanges
  <2>2. PastTotals(totals)' /\ PastTotals(disk)'
    <3>1. PastTotals(totals) /\ PastTotals(disk)
      BY DEF MwanRanges
    <3> QED
      BY <2>1, <3>1 DEF PastTotals, InPast
  <2>3. OutageFits(totals)' /\ OutageFits(disk)' /\ PastSample(sample)'
    BY <2>1 DEF MwanRanges, OutageFits, PastSample, InPast
  <2>8. /\ loaded' \in BOOLEAN /\ watched' \in BOOLEAN /\ fresh' \in BOOLEAN
        /\ ~loaded' => totals' = Mwan!NoTotals /\ sample' = Mwan!NoSample
    BY <2>1 DEF MwanRanges
  <2>9. InPast(boot)' /\ InPast(lastUptime)' /\ status' \in {Mwan!NoSample, sample'}
    BY <2>1 DEF MwanRanges, InPast
  <2> QED
    BY <2>1, <2>2, <2>3, <2>4, <2>8, <2>9 DEF MwanRanges
<1>3. CASE Mwan!LineChanges
  <2>1. /\ UNCHANGED <<now, bootedAt, status, boot, lastUptime, totals, sample,
                       loaded, disk, reboots, restarts, down>>
        /\ stamp' = now - bootedAt /\ fresh' = FALSE
        /\ changes' = changes + 1 /\ changes < MaxChanges
        /\ line' \in {"online", "offline"}
    BY <1>3 DEF Mwan!LineChanges, Mwan!memory, Mwan!Uptime
  <2>5. watched' \in BOOLEAN
    BY <1>3 DEF Mwan!LineChanges
  <2>6. changes' \in 0..MaxChanges
    BY <2>1 DEF MwanRanges
  <2>2. /\ stamp' \in 0..(now - bootedAt) /\ stamp <= stamp'
        /\ stamp \in Int /\ stamp' \in Int /\ bootedAt \in Int
    BY <2>1 DEF MwanRanges
  <2>3. PastTotals(totals)' /\ PastTotals(disk)' /\ PastSample(sample)'
    BY <2>1 DEF MwanRanges, PastTotals, PastSample, InPast
  <2>4. OutageFits(totals)' /\ OutageFits(disk)'
    BY <2>1, <2>2 DEF MwanRanges, OutageFits, PastTotals, TotalInts
  <2> QED
    BY <2>1, <2>2, <2>3, <2>4, <2>5, <2>6 DEF MwanRanges, InPast
<1>4. CASE Mwan!Reboot
  <2>0. /\ now' = now + 1 /\ now < MaxTime /\ bootedAt' = now'
        /\ line' = "starting" /\ stamp' = 0 /\ down' = 0 /\ changes' = 0
        /\ reboots < MaxReboots /\ reboots' = reboots + 1 /\ fresh' = FALSE
        /\ UNCHANGED <<status, boot, lastUptime, totals, sample, loaded, disk, restarts>>
    BY <1>4 DEF Mwan!Reboot, Mwan!memory
  <2>1. /\ now' \in 0..MaxTime /\ now \in Int /\ reboots' \in 0..MaxReboots
    BY <2>0 DEF MwanRanges
  <2>5. watched' \in BOOLEAN
    BY <1>4 DEF Mwan!Reboot
  <2>2. /\ PastTotals(totals) /\ PastTotals(disk) /\ PastSample(sample)
        /\ OutageFits(totals) /\ OutageFits(disk)
        /\ bootedAt \in Int /\ stamp \in Int /\ bootedAt + stamp <= now /\ 0 <= stamp
    BY DEF MwanRanges
  <2>3. PastTotals(totals)' /\ PastTotals(disk)' /\ PastSample(sample)'
    BY <2>0, <2>1, <2>2 DEF PastTotals, PastSample, InPast
  <2>4. OutageFits(totals)' /\ OutageFits(disk)'
    BY <2>0, <2>1, <2>2 DEF OutageFits, PastTotals, TotalInts, InPast
  <2>8. /\ loaded' \in BOOLEAN /\ watched' \in BOOLEAN /\ fresh' \in BOOLEAN
        /\ ~loaded' => totals' = Mwan!NoTotals /\ sample' = Mwan!NoSample
    BY <2>0, <2>5 DEF MwanRanges
  <2>9. InPast(boot)' /\ InPast(lastUptime)' /\ status' \in {Mwan!NoSample, sample'}
    BY <2>0, <2>1 DEF MwanRanges, InPast
  <2> QED
    BY <2>0, <2>1, <2>3, <2>4, <2>8, <2>9 DEF MwanRanges
<1>5. ASSUME NEW ok \in BOOLEAN, NEW keeps \in BOOLEAN, Mwan!Update(ok, keeps)
      PROVE  MwanRanges'
  <2>1. PICK reset \in BOOLEAN, base \in TotalInts, anchored \in TotalInts,
             new \in TotalInts : UpdateSteps(ok, keeps, reset, base, anchored, new)
    BY <1>5, MwanUpdate
  <2>2. PastTotals(new) /\ OutageFits(new)
    BY <2>1, MwanPast
  <2>3. /\ UNCHANGED <<now, bootedAt, line, stamp, reboots, restarts>>
        /\ totals' = new /\ disk' \in {new, disk}
        /\ loaded' = TRUE /\ InPast(boot') /\ lastUptime' = Mwan!Uptime
        /\ sample' \in {Mwan!NoSample, sample, Mwan!Reply}
        /\ status' \in {Mwan!NoSample, sample'}
        /\ changes' \in {0, changes} /\ down' \in {0, down}
        /\ fresh' \in BOOLEAN /\ watched' \in BOOLEAN
    BY <2>1 DEF UpdateSteps, InPast
  <2>4. PastTotals(totals)' /\ PastTotals(disk)' /\ OutageFits(totals)' /\ OutageFits(disk)'
    <3>1. PastTotals(disk) /\ OutageFits(disk)
      BY DEF MwanRanges
    <3>2. disk' = new \/ disk' = disk
      BY <2>3
    <3> QED
      BY <2>2, <2>3, <3>1, <3>2 DEF PastTotals, OutageFits, InPast
  <2>5. PastSample(sample)'
    <3>1. PastSample(sample) /\ PastSample(Mwan!Reply)
      BY MwanReply DEF MwanRanges
    <3>2. PastSample(Mwan!NoSample)
      BY MwanNothing DEF PastSample, InPast, MwanRanges
    <3> QED
      BY <2>3, <3>1, <3>2 DEF PastSample, InPast
  <2>6. InPast(lastUptime)'
    BY <2>3, MwanReply DEF InPast
  <2> QED
    BY <2>3, <2>4, <2>5, <2>6 DEF MwanRanges, InPast
<1>6. CASE Mwan!UpdateWithoutStatus
  <2>1. /\ UNCHANGED <<now, bootedAt, line, stamp, status, totals, sample,
                       loaded, disk, changes, reboots, restarts, down, watched>>
        /\ boot' \in {boot, bootedAt} /\ lastUptime' = Mwan!Uptime /\ fresh' = FALSE
    BY <1>6 DEF Mwan!UpdateWithoutStatus, Mwan!router, Mwan!BootTime
  <2>2. InPast(lastUptime)' /\ InPast(boot)'
    BY <2>1, MwanReply DEF InPast, MwanRanges
  <2>3. PastTotals(totals)' /\ PastTotals(disk)' /\ PastSample(sample)'
    BY <2>1 DEF MwanRanges, PastTotals, PastSample, InPast
  <2>4. OutageFits(totals)' /\ OutageFits(disk)'
    BY <2>1 DEF MwanRanges, OutageFits
  <2>8. /\ loaded' \in BOOLEAN /\ watched' \in BOOLEAN /\ fresh' \in BOOLEAN
        /\ ~loaded' => totals' = Mwan!NoTotals /\ sample' = Mwan!NoSample
    BY <2>1 DEF MwanRanges
  <2>9. InPast(boot)' /\ InPast(lastUptime)' /\ status' \in {Mwan!NoSample, sample'}
    BY <2>1, <2>2 DEF MwanRanges, InPast
  <2> QED
    BY <2>1, <2>3, <2>4, <2>8, <2>9 DEF MwanRanges
<1>7. CASE Mwan!Restart
  <2>1. /\ UNCHANGED <<now, bootedAt, line, stamp, disk, changes, reboots, down, watched>>
        /\ status' = Mwan!NoSample /\ boot' = -1 /\ lastUptime' = -1
        /\ totals' = Mwan!NoTotals /\ sample' = Mwan!NoSample /\ loaded' = FALSE
        /\ fresh' = FALSE /\ restarts' = restarts + 1 /\ restarts < MaxRestarts
    BY <1>7 DEF Mwan!Restart, Mwan!router, Mwan!Never
  <2>3. restarts' \in 0..MaxRestarts
    BY <2>1 DEF MwanRanges
  <2>2. PastTotals(totals)' /\ OutageFits(totals)' /\ PastSample(sample)'
    BY <2>1, MwanNothing DEF PastTotals, OutageFits, PastSample, InPast, MwanRanges
  <2>5. PastTotals(disk)' /\ OutageFits(disk)'
    BY <2>1 DEF MwanRanges, PastTotals, OutageFits, InPast
  <2>8. /\ loaded' \in BOOLEAN /\ watched' \in BOOLEAN /\ fresh' \in BOOLEAN
        /\ ~loaded' => totals' = Mwan!NoTotals /\ sample' = Mwan!NoSample
    BY <2>1 DEF MwanRanges
  <2>9. InPast(boot)' /\ InPast(lastUptime)' /\ status' \in {Mwan!NoSample, sample'}
    BY <2>1 DEF MwanRanges, InPast
  <2> QED
    BY <2>1, <2>2, <2>3, <2>5, <2>8, <2>9 DEF MwanRanges
<1> QED
  BY <1>1, <1>2, <1>3, <1>4, <1>5, <1>6, <1>7 DEF Mwan!Next

\* The ranges are those of the type invariant.
LEMMA MwanTypes ==
    MwanRanges => Mwan!TypeOK
<1> SUFFICES ASSUME MwanRanges PROVE Mwan!TypeOK
  OBVIOUS
<1> USE MwanNumbers
<1>1. \A x : InPast(x) => x \in Mwan!Times
  BY DEF InPast, Mwan!Times, MwanRanges
<1>2. \A t : PastTotals(t) /\ OutageFits(t) => t \in Mwan!Totals
  <2> SUFFICES ASSUME NEW t, PastTotals(t), OutageFits(t) PROVE t \in Mwan!Totals
    OBVIOUS
  <2>1. t.total \in 0..MaxTime
    BY DEF PastTotals, OutageFits, TotalInts, MwanRanges, InPast
  <2> QED
    BY <1>1, <2>1 DEF PastTotals, TotalInts, Mwan!Totals
<1>3. \A s : PastSample(s) => s \in Mwan!Samples
  BY <1>1 DEF PastSample, SampleInts, Mwan!Samples
<1>4. PastSample(Mwan!NoSample)
  BY MwanNothing DEF PastSample, InPast, MwanRanges
<1> QED
  BY <1>1, <1>2, <1>3, <1>4 DEF MwanRanges, Mwan!TypeOK, Mwan!Uptime

\* A router stays up for at least the margins within which two boot times count as
\* the same.
LongBoots ==
    bootedAt' # bootedAt => Mwan!Uptime >= DriftMargin /\ Mwan!Uptime >= EpochMargin

\* A boot time of a boot that is over, and told from this one.
Earlier(b) == 0 <= b /\ b + DriftMargin < bootedAt /\ b + EpochMargin < bootedAt

\* Which boot the records are of.
MwanBoots ==
    /\ boot \in {-1, bootedAt} \/ Earlier(boot)
    /\ totals.epoch \in {-1, bootedAt} \/ Earlier(totals.epoch)
    /\ disk.epoch \in {-1, bootedAt} \/ Earlier(disk.epoch)
    /\ boot = -1 => lastUptime = -1
    /\ boot = bootedAt => 0 <= lastUptime /\ lastUptime <= now - bootedAt
    /\ totals.epoch = -1 => totals = Mwan!NoTotals
    /\ totals.epoch = bootedAt => boot = bootedAt
    /\ disk.epoch = bootedAt => boot \in {-1, bootedAt}
    /\ loaded /\ disk.epoch = bootedAt => totals.epoch = bootedAt
    /\ fresh => totals.epoch = bootedAt /\ changes = 0
    /\ line = "starting" => changes = 0

\* Totals with an open window, and what happened since the last fresh sample: the
\* outage on record, with the part of it that the next sample will add, covers the
\* time the line was down, and is that time where every change was seen.
OnRecord(t) ==
    /\ line = "online" /\ changes = 0 =>
        /\ t.since = -1 /\ t.start = stamp /\ t.total >= down
        /\ watched => t.total = down
    /\ line = "offline" /\ changes = 0 =>
        /\ t.since # -1 /\ t.since <= stamp
        /\ t.total + (now - bootedAt - t.since) >= down
        /\ watched => t.total + (now - bootedAt - t.since) = down
    /\ line = "offline" /\ changes = 1 =>
        /\ t.since = -1 /\ t.start # -1 /\ t.start + MinDwell <= stamp /\ t.lastUp <= stamp
        /\ t.total + (now - bootedAt - stamp) >= down
        /\ watched => t.total + (now - bootedAt - stamp) = down
    /\ line = "online" /\ changes = 1 =>
        /\ t.since # -1 /\ t.since <= stamp
        /\ t.total + (stamp - t.since) >= down
        /\ watched => t.total + (stamp - t.since) = down
    /\ line = "online" /\ changes = 2 =>
        /\ ~watched
        /\ t.since = -1 /\ t.start # -1 /\ t.start + 2 * MinDwell <= stamp
        /\ t.total + (stamp - t.start) >= down /\ t.total + (stamp - t.lastUp) >= down
    /\ line = "offline" /\ changes = 2 =>
        /\ ~watched
        /\ t.since # -1 /\ t.since <= stamp
        /\ t.total + (now - bootedAt - t.since) >= down

Covers(t) ==
    /\ t.first <= now - bootedAt /\ t.lastUp <= now - bootedAt
    /\ t.first = -1 => t.total = 0 /\ t.since = -1 /\ t.start = -1
    /\ t.first # -1 => line # "starting" /\ OnRecord(t)

\* Of the same record, one was made later.
SameButSeen(t, s) ==
    /\ t.first = s.first /\ t.total = s.total /\ t.since = s.since /\ t.start = s.start
    /\ t.epoch = s.epoch /\ t.lastUp <= s.lastUp

MwanSound ==
    /\ MwanBoots
    /\ totals.epoch = bootedAt => Covers(totals) /\ SameButSeen(disk, totals)
    /\ disk.epoch = bootedAt => Covers(disk)

\* The numbers of a state, in one place for the arithmetic.
LEMMA MwanState ==
    ASSUME MwanRanges
    PROVE  /\ now \in Int /\ bootedAt \in Int /\ stamp \in Int /\ down \in Int
           /\ changes \in Int /\ boot \in Int /\ lastUptime \in Int
           /\ 0 <= bootedAt /\ bootedAt <= now /\ 0 <= stamp /\ stamp <= now - bootedAt
           /\ 0 <= down /\ 0 <= changes /\ changes <= MaxChanges
           /\ line \in {"starting", "online", "offline"}
           /\ totals \in TotalInts /\ disk \in TotalInts
           /\ Mwan!Uptime = now - bootedAt
BY MwanReply, MwanNumbers DEF MwanRanges, PastTotals, InPast

\* Every update ends with the boot time of the router.
LEMMA MwanBootTime ==
    ASSUME MwanRanges, MwanSound
    PROVE  /\ Mwan!BootTime(Mwan!Uptime) = bootedAt
           /\ boot \in {-1, bootedAt} => ~Mwan!Rebooted(Mwan!Uptime)
<1>1. /\ boot \in {-1, bootedAt} \/ (0 <= boot /\ boot + DriftMargin < bootedAt)
      /\ boot = -1 => lastUptime = -1
      /\ boot = bootedAt => 0 <= lastUptime /\ lastUptime <= now - bootedAt
  BY DEF MwanSound, MwanBoots, Earlier
<1>2. RebootMargin \in Nat /\ DriftMargin \in Nat
  BY MwanNumbers
<1>3. boot \notin {-1, bootedAt} => Mwan!Abs(bootedAt - boot) > DriftMargin
  BY <1>1, <1>2, MwanState DEF Mwan!Abs
<1>4. boot \in {-1, bootedAt} => ~Mwan!Rebooted(Mwan!Uptime)
  BY <1>1, <1>2, MwanState DEF Mwan!Rebooted, Mwan!Never
<1> QED
  BY <1>3, <1>4 DEF Mwan!BootTime, Mwan!Never

\* The totals an update starts from are those of this boot that are on record, or
\* none.
LEMMA MwanAnchored ==
    ASSUME NEW ok \in BOOLEAN, NEW keeps \in BOOLEAN, NEW reset \in BOOLEAN,
           NEW base \in TotalInts, NEW anchored \in TotalInts, NEW new \in TotalInts,
           MwanRanges, MwanSound, UpdateSteps(ok, keeps, reset, base, anchored, new)
    PROVE  /\ anchored.epoch = bootedAt /\ Covers(anchored)
           /\ loaded /\ ~reset => anchored.lastUp = totals.lastUp
<1> DEFINE u == Mwan!Uptime
           old == Mwan!Load(bootedAt)
<1>1. /\ u = now - bootedAt /\ u \in Int /\ 0 <= u /\ bootedAt \in Int /\ 0 <= bootedAt
      /\ totals \in TotalInts /\ disk \in TotalInts
  BY MwanState, MwanReply
<1>2. /\ Mwan!BootTime(u) = bootedAt
      /\ boot \in {-1, bootedAt} => ~Mwan!Rebooted(u)
  BY MwanBootTime
<1>3. /\ old \in TotalInts /\ base.epoch = bootedAt
      /\ reset => /\ base.first = -1 /\ base.total = 0 /\ base.since = -1
                  /\ base.lastUp = -1 /\ base.start = -1
      /\ ~reset => /\ base.first = old.first /\ base.total = old.total
                   /\ base.since = old.since /\ base.lastUp = old.lastUp
                   /\ base.start = old.start
  BY <1>2, MwanBase
<1>4. /\ reset <=> Mwan!MustReset(old, u, bootedAt)
      /\ anchored \in {base, Mwan!Reanchor(base, u)}
  BY <1>2 DEF UpdateSteps
<1>5. EpochMargin \in Nat
  BY MwanNumbers
<1>6. old.epoch = bootedAt => Covers(old)
  <2>1. old \in {totals, disk}
    BY DEF Mwan!Load
  <2> HIDE DEF old
  <2> QED
    BY <2>1 DEF MwanSound
<1>7. CASE old.epoch = bootedAt /\ ~reset
  <2>1. Covers(base)
    <3> HIDE DEF old, u
    <3> QED
      BY <1>3, <1>6, <1>7 DEF Covers, OnRecord
  <2>2. base.first <= u
    BY <1>1, <2>1 DEF Covers
  <2>3. anchored = base
    <3> HIDE DEF u
    <3> QED
      BY <1>1, <1>4, <2>2, MwanReanchor
  <2>4. loaded => old = totals
    BY DEF Mwan!Load
  <2> HIDE DEF old, u
  <2> QED
    BY <1>3, <1>7, <2>1, <2>3, <2>4
<1>8. CASE ~(old.epoch = bootedAt /\ ~reset)
  <2>1. reset \/ old.epoch = -1
    <3>1. old.epoch \in {-1, bootedAt} \/ Earlier(old.epoch)
      <4>1. old \in {totals, disk}
        BY DEF Mwan!Load
      <4> HIDE DEF old
      <4> QED
        BY <4>1 DEF MwanSound, MwanBoots
    <3>2. CASE Earlier(old.epoch)
      <4>1. old.epoch # -1 /\ Mwan!Abs(bootedAt - old.epoch) > EpochMargin
        <5>1. old.epoch \in Int
          <6> HIDE DEF old
          <6> QED
            BY <1>3 DEF TotalInts
        <5> HIDE DEF old
        <5> QED
          BY <1>1, <1>5, <3>2, <5>1 DEF Earlier, Mwan!Abs
      <4> HIDE DEF old
      <4> QED
        BY <1>4, <4>1 DEF Mwan!MustReset, Mwan!Never
    <3> HIDE DEF old
    <3> QED
      BY <1>8, <3>1, <3>2
  <2>2. old.epoch = -1 => old = totals /\ totals = Mwan!NoTotals
    <3>1. old.epoch = -1 => old = totals
      BY DEF Mwan!Load, Mwan!Never
    <3> HIDE DEF old
    <3> QED
      BY <3>1 DEF MwanSound, MwanBoots
  <2>3. /\ base.first = -1 /\ base.total = 0 /\ base.since = -1 /\ base.lastUp = -1
        /\ base.start = -1 /\ (~reset => base.lastUp = totals.lastUp)
    <3> HIDE DEF old, u
    <3> QED
      BY <1>3, <2>1, <2>2, MwanNothing
  <2>4. anchored = base
    <3> HIDE DEF u
    <3>1. base.first <= u
      BY <1>1, <2>3
    <3> QED
      BY <1>1, <1>4, <3>1, MwanReanchor
  <2> HIDE DEF old, u
  <2> QED
    BY <1>1, <1>3, <2>3, <2>4 DEF Covers
<1> QED
  BY <1>7, <1>8

\* After an update the totals cover the time the line was down: a sample of the
\* state makes up for what happened since the one before.
LEMMA MwanCovered ==
    ASSUME NEW ok \in BOOLEAN, NEW keeps \in BOOLEAN, NEW reset \in BOOLEAN,
           NEW base \in TotalInts, NEW anchored \in TotalInts, NEW new \in TotalInts,
           MwanRanges, MwanSound, UpdateSteps(ok, keeps, reset, base, anchored, new),
           MaxChanges <= 2, ~SampleAtChange
    PROVE  /\ Covers(new)' /\ new.epoch = bootedAt
           /\ anchored.lastUp <= new.lastUp
           /\ fresh' => changes' = 0
<1> DEFINE u == Mwan!Uptime
<1>1. /\ u = now - bootedAt /\ u \in Int /\ 0 <= u /\ u > 0
      /\ now \in Int /\ bootedAt \in Int /\ stamp \in Int /\ down \in Int
      /\ changes \in Int /\ 0 <= stamp /\ stamp <= u
      /\ 0 <= down /\ 0 <= changes /\ changes <= 2
      /\ line \in {"starting", "online", "offline"}
  <2>1. u > 0
    BY DEF UpdateSteps
  <2> HIDE DEF u
  <2> QED
    BY <2>1, MwanState, MwanNumbers DEF u
<1>2. anchored.epoch = bootedAt /\ Covers(anchored)
  BY MwanAnchored
<1>3. /\ UNCHANGED <<now, bootedAt, line, stamp>>
      /\ changes' = IF fresh' THEN 0 ELSE changes
      /\ down' = IF anchored.first = -1 /\ new.first # -1 THEN 0 ELSE down
      /\ watched' <=> watched \/ (anchored.first = -1 /\ new.first # -1)
      /\ \/ new = anchored /\ ~fresh'
         \/ /\ ok /\ new = Mwan!Count(anchored, Mwan!Reply, u)
            /\ fresh' <=> u > stamp
      /\ ok => line = "starting" \/ u > stamp
  BY DEF UpdateSteps
<1>4. fresh' => changes' = 0
  BY <1>3
<1>5. /\ anchored.first \in Int /\ anchored.total \in Int /\ anchored.since \in Int
      /\ anchored.lastUp \in Int /\ anchored.start \in Int
  BY DEF TotalInts
<1>6. CASE new = anchored /\ ~fresh'
  <2>1. changes' = changes /\ down' = down /\ (watched' <=> watched)
    BY <1>3, <1>6
  <2>2. Covers(new)'
    <3> HIDE DEF u
    <3> QED
      BY <1>2, <1>3, <1>6, <2>1 DEF Covers, OnRecord
  <2> QED
    BY <1>2, <1>4, <1>5, <1>6, <2>2
<1>7. CASE new = Mwan!Count(anchored, Mwan!Reply, u) /\ (fresh' <=> u > stamp)
           /\ (line = "starting" \/ u > stamp)
  <2>1. PICK c \in TotalInts :
          /\ line = "online" /\ u > stamp => c = Mwan!CountOnline(anchored, stamp)
          /\ line = "offline" /\ u > stamp => c = Mwan!CountOffline(anchored, stamp)
          /\ line = "starting" \/ u = stamp => c = anchored
          /\ new \in TotalInts /\ new.lastUp = u /\ new.first = c.first
          /\ new.total = c.total
          /\ new.since = c.since /\ new.start = c.start /\ new.epoch = c.epoch
    BY <1>7, MwanCount
  <2>2. anchored.lastUp <= u
    BY <1>1, <1>2 DEF Covers
  <2> HIDE DEF u
  <2>3. CASE line = "starting"
    <3>1. c = anchored /\ anchored.first = -1
      BY <1>2, <2>1, <2>3 DEF Covers
    <3>2. Covers(new)'
      BY <1>1, <1>2, <1>3, <2>1, <2>3, <3>1 DEF Covers
    <3> QED
      BY <1>2, <1>4, <2>1, <2>2, <3>1, <3>2
  <2>4. CASE line = "online" /\ u > stamp
    <3> DEFINE k == Mwan!CountOnline(anchored, stamp)
               seenUp == IF anchored.lastUp < anchored.start THEN anchored.start
                         ELSE anchored.lastUp
    <3>1. c = k /\ changes' = 0 /\ k.epoch = anchored.epoch
      BY <1>1, <1>3, <1>7, <2>1, <2>4, CountOnlineFields
    <3>4. stamp \in Int
      BY <1>1
    <3>2. CASE anchored.first = -1
      <4>1. k.first = stamp /\ k.start = stamp /\ k.total = 0 /\ k.since = -1
        <5>1. anchored.total = 0 /\ anchored.since = -1
          BY <1>2, <3>2 DEF Covers
        <5>2. /\ k.first = stamp /\ k.start = stamp
              /\ k.total = anchored.total /\ k.since = anchored.since
          BY <3>2, <3>4, CountOnlineFields
        <5> QED
          BY <5>1, <5>2
      <4> HIDE DEF k
      <4>2. new.first # -1 /\ down' = 0
        BY <1>1, <1>3, <2>1, <3>1, <3>2, <4>1
      <4>3. Covers(new)'
        BY <1>1, <1>3, <2>1, <2>4, <3>1, <4>1, <4>2 DEF Covers, OnRecord
      <4> QED
        BY <1>2, <1>4, <2>1, <2>2, <3>1, <4>3
    <3>3. CASE anchored.first # -1
      <4>1. /\ k.first = anchored.first /\ k.since = -1
            /\ anchored.since # -1 =>
                 /\ k.start = stamp
                 /\ k.total = anchored.total
                              + IF stamp < anchored.since THEN 0 ELSE stamp - anchored.since
            /\ anchored.since = -1 /\ anchored.start # -1 /\ anchored.start <= stamp
                 /\ stamp > anchored.start + Tolerance =>
                 /\ k.start = stamp
                 /\ k.total = anchored.total + IF stamp < seenUp THEN 0 ELSE stamp - seenUp
            /\ anchored.since = -1 /\ anchored.start # -1 /\ anchored.start <= stamp
                 /\ ~(stamp > anchored.start + Tolerance) =>
                 k.start = anchored.start /\ k.total = anchored.total
            /\ anchored.since = -1 /\ (anchored.start = -1 \/ stamp < anchored.start) =>
                 k.start = stamp /\ k.total = anchored.total
        <5>1. /\ k.first = anchored.first /\ k.since = -1
              /\ anchored.since # -1 =>
                   /\ k.start = stamp
                   /\ k.total = anchored.total
                              + IF stamp < anchored.since THEN 0 ELSE stamp - anchored.since
          BY <3>3, <3>4, CountOnlineFields
        <5>2. anchored.since = -1 /\ anchored.start # -1 /\ anchored.start <= stamp
                 /\ stamp > anchored.start + Tolerance =>
                 /\ k.start = stamp
                 /\ k.total = anchored.total + IF stamp < seenUp THEN 0 ELSE stamp - seenUp
          BY <3>3, <3>4, CountOnlineFields
        <5>3. anchored.since = -1 /\ anchored.start # -1 /\ anchored.start <= stamp
                 /\ ~(stamp > anchored.start + Tolerance) =>
                 k.start = anchored.start /\ k.total = anchored.total
          BY <3>3, <3>4, CountOnlineFields
        <5>4. anchored.since = -1 /\ (anchored.start = -1 \/ stamp < anchored.start) =>
                 k.start = stamp /\ k.total = anchored.total
          BY <3>3, <3>4, CountOnlineFields
        <5> QED
          BY <5>1, <5>2, <5>3, <5>4
      <4> HIDE DEF k
      <4>2. down' = down /\ (watched' <=> watched)
        BY <1>3, <3>3
      <4>3. k.total >= down /\ k.start = stamp /\ (watched => k.total = down)
        <5>1. changes = 0 \/ changes = 1 \/ changes = 2
          BY <1>1
        <5>2. OnRecord(anchored)
          BY <1>2, <3>3 DEF Covers
        <5>3. CASE changes = 0
          <6>1. /\ anchored.since = -1 /\ anchored.start = stamp /\ anchored.total >= down
                /\ watched => anchored.total = down
            BY <2>4, <5>2, <5>3 DEF OnRecord
          <6> QED
            BY <1>1, <1>5, <4>1, <6>1, MwanNumbers
        <5>4. CASE changes = 1
          <6>1. /\ anchored.since # -1 /\ anchored.since <= stamp
                /\ anchored.total + (stamp - anchored.since) >= down
                /\ watched => anchored.total + (stamp - anchored.since) = down
            BY <2>4, <5>2, <5>4 DEF OnRecord
          <6> QED
            BY <1>1, <1>5, <4>1, <6>1
        <5>5. CASE changes = 2
          <6>1. /\ ~watched /\ anchored.since = -1 /\ anchored.start # -1
                /\ anchored.start + 2 * MinDwell <= stamp
                /\ anchored.total + (stamp - anchored.start) >= down
                /\ anchored.total + (stamp - anchored.lastUp) >= down
            BY <2>4, <5>2, <5>5 DEF OnRecord
          <6>2. anchored.start <= stamp /\ stamp > anchored.start + Tolerance
            BY <1>1, <1>5, <6>1, MwanNumbers
          <6>3. k.start = stamp /\ k.total >= down
            BY <1>1, <1>5, <4>1, <6>1, <6>2
          <6> QED
            BY <6>1, <6>3
        <5> QED
          BY <5>1, <5>3, <5>4, <5>5
      <4>4. Covers(new)'
        <5>1. k.first <= u
          BY <1>1, <1>2, <4>1 DEF Covers
        <5>2. OnRecord(new)'
          BY <1>1, <1>3, <2>1, <2>4, <3>1, <4>1, <4>2, <4>3 DEF OnRecord
        <5> QED
          BY <1>1, <1>3, <2>1, <2>4, <3>1, <3>3, <4>1, <5>1, <5>2 DEF Covers
      <4> QED
        BY <1>2, <1>4, <2>1, <2>2, <3>1, <4>4
    <3> QED
      BY <3>2, <3>3
  <2>5. CASE line = "offline" /\ u > stamp
    <3> DEFINE k == Mwan!CountOffline(anchored, stamp)
    <3>1. /\ c = k /\ changes' = 0 /\ k.epoch = anchored.epoch
          /\ k.first = anchored.first /\ k.total = anchored.total
          /\ k.start = anchored.start
          /\ k.since = IF anchored.first = -1 THEN anchored.since
                       ELSE IF anchored.since = -1 \/ stamp < anchored.since THEN stamp
                       ELSE anchored.since
      BY <1>1, <1>3, <1>7, <2>1, <2>5, CountOfflineFields
    <3> HIDE DEF k
    <3>2. down' = down /\ (watched' <=> watched)
      BY <1>3, <2>1, <3>1
    <3>3. CASE anchored.first = -1
      <4>1. Covers(new)'
        BY <1>1, <1>2, <1>3, <2>1, <3>1, <3>3 DEF Covers
      <4> QED
        BY <1>2, <1>4, <2>1, <2>2, <3>1, <4>1
    <3>4. CASE anchored.first # -1
      <4>1. /\ k.since # -1 /\ k.since <= stamp
            /\ k.total + (u - k.since) >= down
            /\ watched => k.total + (u - k.since) = down
        <5>1. changes = 0 \/ changes = 1 \/ changes = 2
          BY <1>1
        <5>2. OnRecord(anchored)
          BY <1>2, <3>4 DEF Covers
        <5>3. CASE changes = 0
          BY <1>1, <1>5, <2>5, <3>1, <3>4, <5>2, <5>3 DEF OnRecord
        <5>4. CASE changes = 1
          BY <1>1, <1>5, <2>5, <3>1, <3>4, <5>2, <5>4 DEF OnRecord
        <5>5. CASE changes = 2
          BY <1>1, <1>5, <2>5, <3>1, <3>4, <5>2, <5>5 DEF OnRecord
        <5> QED
          BY <5>1, <5>3, <5>4, <5>5
      <4>2. OnRecord(new)'
        BY <1>1, <1>3, <2>1, <2>5, <3>1, <3>2, <4>1 DEF OnRecord
      <4>3. Covers(new)'
        BY <1>1, <1>2, <1>3, <2>1, <2>5, <3>1, <3>4, <4>2 DEF Covers
      <4> QED
        BY <1>2, <1>4, <2>1, <2>2, <3>1, <4>3
    <3> QED
      BY <3>3, <3>4
  <2> QED
    BY <1>1, <1>7, <2>3, <2>4, <2>5
<1> QED
  BY <1>3, <1>6, <1>7

\* At the start.
LEMMA MwanInitSound ==
    Mwan!Init => MwanSound
<1> SUFFICES ASSUME Mwan!Init PROVE MwanSound
  OBVIOUS
<1>1. /\ now = 0 /\ bootedAt = 0 /\ boot = -1 /\ lastUptime = -1 /\ changes = 0
      /\ totals = Mwan!NoTotals /\ disk = Mwan!NoTotals
  BY DEF Mwan!Init, Mwan!Never
<1>2. ~loaded /\ ~fresh
  BY DEF Mwan!Init
<1> QED
  BY <1>1, <1>2, MwanNothing DEF MwanSound, MwanBoots

\* Covering as time passes.
LEMMA CoversTick ==
    ASSUME NEW t \in TotalInts, MwanRanges, Mwan!Tick, Covers(t)
    PROVE  Covers(t)'
<1>1. /\ now' = now + 1 /\ UNCHANGED <<bootedAt, line, stamp, changes, watched>>
      /\ down' = IF line = "offline" THEN down + 1 ELSE down
  BY DEF Mwan!Tick
<1>2. /\ t.first \in Int /\ t.total \in Int /\ t.since \in Int /\ t.lastUp \in Int
      /\ t.start \in Int
  BY DEF TotalInts
<1>3. CASE line = "online"
  <2>1. line # "offline" /\ line # "starting" /\ down' = down
    BY <1>1, <1>3
  <2>2. t.first # -1 => OnRecord(t)'
    BY <1>1, <1>2, <1>3, <2>1, MwanState DEF Covers, OnRecord
  <2> QED
    BY <1>1, <1>2, <2>2, MwanState DEF Covers
<1>4. CASE line = "offline"
  <2>1. line # "online" /\ line # "starting" /\ down' = down + 1
    BY <1>1, <1>4
  <2>2. t.first # -1 => OnRecord(t)'
    BY <1>1, <1>2, <1>4, <2>1, MwanState DEF Covers, OnRecord
  <2> QED
    BY <1>1, <1>2, <2>2, MwanState DEF Covers
<1>5. CASE line = "starting"
  BY <1>1, <1>2, <1>5, MwanState DEF Covers
<1> QED
  BY <1>3, <1>4, <1>5, MwanState

\* Covering when the line changes.
LEMMA CoversChange ==
    ASSUME NEW t \in TotalInts, MwanRanges, Mwan!LineChanges, Covers(t), MaxChanges <= 2
    PROVE  Covers(t)'
<1>1. /\ UNCHANGED <<now, bootedAt, down>>
      /\ line = "starting" \/ now - bootedAt - stamp >= MinDwell
      /\ line' = IF line = "online" THEN "offline" ELSE "online"
      /\ stamp' = now - bootedAt /\ changes' = changes + 1 /\ changes < MaxChanges
      /\ watched' <=> watched /\ changes = 0
  BY MwanState DEF Mwan!LineChanges
<1>2. /\ t.first \in Int /\ t.total \in Int /\ t.since \in Int /\ t.lastUp \in Int
      /\ t.start \in Int
  BY DEF TotalInts
<1>3. CASE t.first = -1
  BY <1>1, <1>3 DEF Covers
<1>4. CASE t.first # -1
  <2>1. line \in {"online", "offline"} /\ OnRecord(t)
    BY <1>4, MwanState DEF Covers
  <2>2. (changes = 0 \/ changes = 1) /\ MinDwell \in Nat
    BY <1>1, MwanState, MwanNumbers
  <2>3. now - bootedAt - stamp >= MinDwell /\ t.lastUp <= now - bootedAt
    BY <1>1, <2>1 DEF Covers
  <2>4. OnRecord(t)'
    <3>1. CASE line = "online" /\ changes = 0
      <4>1. /\ line' = "offline" /\ changes' = 1 /\ (watched' <=> watched)
            /\ t.since = -1 /\ t.start = stamp /\ t.total >= down
            /\ watched => t.total = down
        BY <1>1, <2>1, <3>1 DEF OnRecord
      <4> QED
        BY <1>1, <1>2, <2>2, <2>3, <4>1, MwanState DEF OnRecord
    <3>2. CASE line = "offline" /\ changes = 0
      <4>1. /\ line' = "online" /\ changes' = 1 /\ (watched' <=> watched)
            /\ t.since # -1 /\ t.since <= stamp
            /\ t.total + (now - bootedAt - t.since) >= down
            /\ watched => t.total + (now - bootedAt - t.since) = down
        BY <1>1, <2>1, <3>2 DEF OnRecord
      <4> QED
        BY <1>1, <1>2, <2>2, <2>3, <4>1, MwanState DEF OnRecord
    <3>3. CASE line = "offline" /\ changes = 1
      <4>1. /\ line' = "online" /\ changes' = 2 /\ ~watched'
            /\ t.since = -1 /\ t.start # -1 /\ t.start + MinDwell <= stamp
            /\ t.lastUp <= stamp
            /\ t.total + (now - bootedAt - stamp) >= down
        BY <1>1, <2>1, <3>3 DEF OnRecord
      <4> QED
        BY <1>1, <1>2, <2>2, <2>3, <4>1, MwanState DEF OnRecord
    <3>4. CASE line = "online" /\ changes = 1
      <4>1. /\ line' = "offline" /\ changes' = 2 /\ ~watched'
            /\ t.since # -1 /\ t.since <= stamp
            /\ t.total + (stamp - t.since) >= down
        BY <1>1, <2>1, <3>4 DEF OnRecord
      <4> QED
        BY <1>1, <1>2, <2>2, <2>3, <4>1, MwanState DEF OnRecord
    <3> QED
      BY <2>1, <2>2, <3>1, <3>2, <3>3, <3>4
  <2>5. line' # "starting"
    BY <1>1
  <2> QED
    BY <1>1, <1>4, <2>3, <2>4, <2>5 DEF Covers
<1> QED
  BY <1>3, <1>4

\* A reboot makes a boot time that of an earlier boot.
LEMMA EarlierReboot ==
    ASSUME MwanRanges, Mwan!Reboot, LongBoots, NEW b \in Int,
           b \in {-1, bootedAt} \/ Earlier(b)
    PROVE  (b = -1 \/ Earlier(b)') /\ b # bootedAt'
<1>1. bootedAt' = now + 1 /\ DriftMargin \in Nat /\ EpochMargin \in Nat
  BY MwanNumbers DEF Mwan!Reboot
<1>2. bootedAt + DriftMargin <= now /\ bootedAt + EpochMargin <= now
  BY <1>1, MwanState DEF LongBoots
<1>3. CASE b = -1
  BY <1>1, <1>3, MwanState
<1>4. CASE b = bootedAt \/ Earlier(b)
  BY <1>1, <1>2, <1>4, MwanState DEF Earlier
<1> QED
  BY <1>3, <1>4

\* An update keeps the records sound: what it does not save is what is saved.
LEMMA MwanUpdateSound ==
    ASSUME NEW ok \in BOOLEAN, NEW keeps \in BOOLEAN, Mwan!Update(ok, keeps),
           MwanRanges, MwanSound, MaxChanges <= 2, ~SampleAtChange, ~SaveMayFail
    PROVE  MwanSound'
<1>1. PICK reset \in BOOLEAN, base \in TotalInts, anchored \in TotalInts,
           new \in TotalInts : UpdateSteps(ok, keeps, reset, base, anchored, new)
  BY MwanUpdate
<1>2. /\ Covers(new)' /\ new.epoch = bootedAt /\ anchored.lastUp <= new.lastUp
      /\ fresh' => changes' = 0
  BY <1>1, MwanCovered
<1>3. loaded /\ ~reset => anchored.lastUp = totals.lastUp
  BY <1>1, MwanAnchored
<1>4. /\ UNCHANGED <<now, bootedAt, line, stamp>>
      /\ totals' = new /\ boot' = bootedAt /\ lastUptime' = now - bootedAt
      /\ changes' = IF fresh' THEN 0 ELSE changes
      /\ disk' = IF reset \/ Mwan!Changed(new) THEN new ELSE disk
  BY <1>1, MwanBootTime, MwanState DEF UpdateSteps
<1>5. disk' = new \/ (disk' = disk /\ ~reset /\ ~Mwan!Changed(new))
  BY <1>4
<1>6. ASSUME disk' = disk, ~reset, ~Mwan!Changed(new)
      PROVE  SameButSeen(disk, new)
  <2>1. [new EXCEPT !.lastUp = -1] = [totals EXCEPT !.lastUp = -1]
    BY <1>6 DEF Mwan!Changed, Mwan!Never
  <2>2. /\ new.first = totals.first /\ new.total = totals.total /\ new.since = totals.since
        /\ new.start = totals.start /\ new.epoch = totals.epoch
    <3> DEFINE x == [new EXCEPT !.lastUp = -1]
               y == [totals EXCEPT !.lastUp = -1]
    <3>1. /\ x.first = new.first /\ x.total = new.total /\ x.since = new.since
          /\ x.start = new.start /\ x.epoch = new.epoch
      BY DEF TotalInts
    <3>2. /\ y.first = totals.first /\ y.total = totals.total /\ y.since = totals.since
          /\ y.start = totals.start /\ y.epoch = totals.epoch
      <4>1. totals \in TotalInts
        BY MwanState
      <4> QED
        BY <4>1 DEF TotalInts
    <3>3. x = y
      BY <2>1
    <3> HIDE DEF x, y
    <3> QED
      BY <3>1, <3>2, <3>3
  <2>3. totals.epoch = bootedAt
    BY <1>2, <2>2
  <2>4. loaded
    <3>1. loaded \/ totals = Mwan!NoTotals
      BY DEF MwanRanges
    <3> QED
      BY <2>3, <3>1, MwanNothing, MwanState
  <2>5. SameButSeen(disk, totals)
    BY <2>3 DEF MwanSound
  <2>6. totals.lastUp <= new.lastUp
    BY <1>2, <1>3, <1>6, <2>4
  <2>7. disk.lastUp \in Int /\ totals.lastUp \in Int /\ new.lastUp \in Int
    <3>1. totals \in TotalInts /\ disk \in TotalInts
      BY MwanState
    <3> QED
      BY <3>1 DEF TotalInts
  <2> QED
    BY <2>2, <2>5, <2>6, <2>7 DEF SameButSeen
<1>7. SameButSeen(disk', new)
  <2>1. CASE disk' = new
    <3>1. new.lastUp \in Int
      BY DEF TotalInts
    <3> QED
      BY <2>1, <3>1 DEF SameButSeen
  <2>2. CASE disk' = disk /\ ~reset /\ ~Mwan!Changed(new)
    BY <1>6, <2>2
  <2> QED
    BY <1>5, <2>1, <2>2
<1>8. SameButSeen(disk, totals)'
  BY <1>4, <1>7 DEF SameButSeen
<1>9. Covers(disk)'
  <2>1. disk' \in TotalInts
    <3>1. disk \in TotalInts
      BY MwanState
    <3> QED
      BY <1>5, <3>1
  <2>2. /\ disk'.total \in Int /\ disk'.lastUp \in Int /\ new.total \in Int
        /\ new.lastUp \in Int
    BY <2>1 DEF TotalInts
  <2>3. new.first # -1 => OnRecord(disk)'
    <3>1. new.first # -1 => OnRecord(new)'
      BY <1>2 DEF Covers
    <3>2. stamp' \in Int /\ down' \in Int
      BY <1>1, <1>4, MwanState DEF UpdateSteps
    <3>3. /\ disk'.total = new.total /\ disk'.since = new.since /\ disk'.start = new.start
          /\ disk'.lastUp <= new.lastUp
      BY <1>7 DEF SameButSeen
    <3>4. /\ new.lastUp <= stamp' => disk'.lastUp <= stamp'
          /\ new.total + (stamp' - new.lastUp) >= down' =>
               new.total + (stamp' - disk'.lastUp) >= down'
      BY <2>2, <3>2, <3>3
    <3>5. OnRecord(new)' => OnRecord(disk)'
      BY <3>3, <3>4 DEF OnRecord
    <3> QED
      BY <3>1, <3>5
  <2>4. now' \in Int /\ bootedAt' \in Int
    BY <1>4, MwanState
  <2> QED
    BY <1>2, <1>7, <2>2, <2>3, <2>4 DEF Covers, SameButSeen
<1>10. MwanBoots'
  <2>1. disk'.epoch = bootedAt /\ totals'.epoch = bootedAt
    BY <1>2, <1>4, <1>7 DEF SameButSeen
  <2>2. /\ 0 <= lastUptime' /\ lastUptime' <= now' - bootedAt' /\ boot' # -1
        /\ totals'.epoch # -1
    BY <1>4, <2>1, MwanState
  <2>3. line' = "starting" => changes' = 0
    <3>1. line = "starting" => changes = 0
      BY DEF MwanSound, MwanBoots
    <3> QED
      BY <1>4, <3>1
  <2> QED
    BY <1>2, <1>4, <2>1, <2>2, <2>3 DEF MwanBoots
<1>11. Covers(totals)'
  BY <1>2, <1>4 DEF Covers, OnRecord
<1> QED
  BY <1>8, <1>9, <1>10, <1>11 DEF MwanSound

\* Every step keeps the records sound, with a router that reboots late enough.
LEMMA MwanNextSound ==
    ASSUME MwanRanges, MwanSound, [Mwan!Next]_mwanVars, [LongBoots]_mwanVars,
           MaxChanges <= 2, ~SampleAtChange, ~SaveMayFail
    PROVE  MwanSound'
<1>0. /\ totals \in TotalInts /\ disk \in TotalInts /\ totals.epoch \in Int
      /\ disk.epoch \in Int /\ boot \in Int
  BY MwanState DEF TotalInts
<1>1. CASE UNCHANGED mwanVars
  BY <1>1 DEF mwanVars, MwanSound, MwanBoots, Covers, OnRecord, SameButSeen, Earlier
<1>2. CASE Mwan!Tick
  <2>1. /\ now' = now + 1 /\ ~fresh'
        /\ UNCHANGED <<bootedAt, line, boot, lastUptime, totals, loaded, disk, changes>>
    BY <1>2 DEF Mwan!Tick, Mwan!memory
  <2>2. MwanBoots'
    <3>1. MwanBoots
      BY DEF MwanSound
    <3> QED
      BY <2>1, <3>1, MwanState DEF MwanBoots, Earlier
  <2>3. /\ Covers(totals) => Covers(totals)'
        /\ Covers(disk) => Covers(disk)'
        /\ SameButSeen(disk, totals) => SameButSeen(disk, totals)'
    <3>1. \A t \in TotalInts : Covers(t) => Covers(t)'
      BY <1>2, CoversTick
    <3> QED
      BY <1>0, <2>1, <3>1 DEF Covers, OnRecord, SameButSeen
  <2> QED
    BY <2>1, <2>2, <2>3 DEF MwanSound
<1>3. CASE Mwan!LineChanges
  <2>1. /\ ~fresh' /\ line' # "starting"
        /\ UNCHANGED <<now, bootedAt, boot, lastUptime, totals, loaded, disk>>
    BY <1>3 DEF Mwan!LineChanges, Mwan!memory
  <2>2. MwanBoots'
    <3>1. MwanBoots
      BY DEF MwanSound
    <3> QED
      BY <2>1, <3>1, MwanState DEF MwanBoots, Earlier
  <2>3. /\ Covers(totals) => Covers(totals)'
        /\ Covers(disk) => Covers(disk)'
        /\ SameButSeen(disk, totals) => SameButSeen(disk, totals)'
    <3>1. \A t \in TotalInts : Covers(t) => Covers(t)'
      BY <1>3, CoversChange
    <3> QED
      BY <1>0, <2>1, <3>1 DEF Covers, OnRecord, SameButSeen
  <2> QED
    BY <2>1, <2>2, <2>3 DEF MwanSound
<1>4. CASE Mwan!Reboot
  <2>1. /\ ~fresh' /\ changes' = 0 /\ bootedAt' = now + 1
        /\ UNCHANGED <<boot, lastUptime, totals, loaded, disk>>
    BY <1>4 DEF Mwan!Reboot, Mwan!memory
  <2>2. LongBoots
    <3>1. bootedAt' # bootedAt
      BY <2>1, MwanState
    <3> QED
      BY <3>1 DEF mwanVars
  <2>3. MwanBoots
    BY DEF MwanSound
  <2>4. /\ (boot = -1 \/ Earlier(boot)') /\ boot # bootedAt'
        /\ (totals.epoch = -1 \/ Earlier(totals.epoch)') /\ totals.epoch # bootedAt'
        /\ (disk.epoch = -1 \/ Earlier(disk.epoch)') /\ disk.epoch # bootedAt'
    <3>1. \A b \in Int : b \in {-1, bootedAt} \/ Earlier(b) =>
             (b = -1 \/ (0 <= b /\ b + DriftMargin < bootedAt' /\ b + EpochMargin < bootedAt'))
             /\ b # bootedAt'
      BY <1>4, <2>2, EarlierReboot DEF Earlier
    <3> QED
      BY <1>0, <2>1, <2>3, <3>1 DEF MwanBoots, Earlier
  <2> QED
    BY <2>1, <2>3, <2>4 DEF MwanSound, MwanBoots
<1>5. ASSUME NEW ok \in BOOLEAN, NEW keeps \in BOOLEAN, Mwan!Update(ok, keeps)
      PROVE  MwanSound'
  BY <1>5, MwanUpdateSound
<1>6. CASE Mwan!UpdateWithoutStatus
  <2>1. /\ UNCHANGED <<now, bootedAt, line, stamp, totals, loaded, disk, changes, down,
                       watched>>
        /\ ~fresh' /\ lastUptime' = now - bootedAt /\ boot' = bootedAt
    BY <1>6, MwanBootTime, MwanState DEF Mwan!UpdateWithoutStatus, Mwan!router
  <2>2. MwanBoots'
    <3>1. MwanBoots
      BY DEF MwanSound
    <3> QED
      BY <2>1, <3>1, MwanState DEF MwanBoots, Earlier
  <2> QED
    BY <2>1, <2>2 DEF MwanSound, Covers, OnRecord, SameButSeen
<1>7. CASE Mwan!Restart
  <2>1. /\ UNCHANGED <<now, bootedAt, line, stamp, disk, changes, down, watched>>
        /\ ~fresh' /\ lastUptime' = -1 /\ boot' = -1 /\ totals' = Mwan!NoTotals /\ ~loaded'
    BY <1>7 DEF Mwan!Restart, Mwan!router, Mwan!Never
  <2>2. MwanBoots'
    <3>1. MwanBoots
      BY DEF MwanSound
    <3> QED
      BY <2>1, <3>1, MwanState, MwanNothing DEF MwanBoots, Earlier
  <2>3. totals'.epoch # bootedAt'
    BY <2>1, MwanState, MwanNothing
  <2> QED
    BY <2>1, <2>2, <2>3 DEF MwanSound, Covers, OnRecord
<1> QED
  BY <1>1, <1>2, <1>3, <1>4, <1>5, <1>6, <1>7 DEF Mwan!Next

\* Sound records do not overstate, and are exact where every change was seen.
LEMMA MwanSafe ==
    ASSUME MwanRanges, MwanSound, MaxChanges <= 2
    PROVE  NeverOverstates /\ ExactWhenWatched
<1> SUFFICES ASSUME fresh, Mwan!WindowOpen
             PROVE  /\ Mwan!Outage(totals, Mwan!Uptime) >= down
                    /\ watched => Mwan!Outage(totals, Mwan!Uptime) = down
  BY DEF NeverOverstates, ExactWhenWatched, Mwan!NeverOverstates, Mwan!ExactWhenWatched
<1>1. totals.epoch = bootedAt /\ changes = 0
  BY DEF MwanSound, MwanBoots
<1>2. line \in {"online", "offline"} /\ OnRecord(totals)
  BY <1>1, MwanState DEF MwanSound, Covers, Mwan!WindowOpen, Mwan!Never
<1>3. totals.total \in Int /\ totals.since \in Int
  BY MwanState DEF TotalInts
<1>4. CASE line = "online"
  <2>1. totals.since = -1 /\ totals.total >= down /\ (watched => totals.total = down)
    BY <1>1, <1>2, <1>4 DEF OnRecord
  <2>2. Mwan!Outage(totals, Mwan!Uptime) = totals.total
    BY <1>3, <2>1 DEF Mwan!Outage, Mwan!Never
  <2> QED
    BY <2>1, <2>2
<1>5. CASE line = "offline"
  <2>1. /\ totals.since # -1 /\ totals.since <= stamp
        /\ totals.total + (now - bootedAt - totals.since) >= down
        /\ watched => totals.total + (now - bootedAt - totals.since) = down
    BY <1>1, <1>2, <1>5 DEF OnRecord
  <2>2. /\ Mwan!Uptime - totals.since = now - bootedAt - totals.since
        /\ ~(now - bootedAt - totals.since < 0)
    BY <1>3, <2>1, MwanState
  <2>3. Mwan!Outage(totals, Mwan!Uptime) = totals.total + (now - bootedAt - totals.since)
    BY <1>3, <2>1, <2>2 DEF Mwan!Outage, Mwan!AtLeast0, Mwan!Never
  <2> QED
    BY <2>1, <2>3
<1> QED
  BY <1>2, <1>4, <1>5

-----------------------------------------------------------------------------
(* The types of the five.                                                  *)

\* What the type invariant of the wireless settings says beyond the invariant: what
\* is left of an operation's settings are the last of them.
LeftOf(s, t) == Len(s) <= Len(t) /\ \A i \in 1..Len(s) : s[i] = t[Len(t) - Len(s) + i]

WirelessRest ==
    /\ via \in Transports /\ kept \in BOOLEAN
    /\ read = {} \/ \E c \in SUBSET Nets : read = {c}
    /\ started \in 0..MaxOps /\ faults \in 0..MaxFaults /\ outside \in 0..MaxOutside
    /\ \A o \in Ops : LeftOf(op[o].todo, op[o].wants)

\* All of a sequence is left of it, and of what is left the tail.
LEMMA LeftParts ==
    ASSUME NEW S
    PROVE  /\ \A t \in Seq(S) : LeftOf(t, t)
           /\ \A s, t \in Seq(S) : LeftOf(s, t) /\ s # <<>> => LeftOf(Tail(s), t)
<1>1. ASSUME NEW t \in Seq(S) PROVE LeftOf(t, t)
  BY DEF LeftOf
<1>2. ASSUME NEW s \in Seq(S), NEW t \in Seq(S), LeftOf(s, t), s # <<>>
      PROVE  LeftOf(Tail(s), t)
  <2>1. /\ Len(s) \in Nat /\ Len(t) \in Nat /\ Len(s) > 0 /\ Len(s) <= Len(t)
        /\ Len(Tail(s)) = Len(s) - 1
        /\ \A i \in 1..Len(s) : s[i] = t[Len(t) - Len(s) + i]
        /\ \A i \in 1..(Len(s) - 1) : Tail(s)[i] = s[i + 1]
    BY <1>2 DEF LeftOf
  <2>2. \A i \in 1..(Len(s) - 1) : Tail(s)[i] = t[Len(t) - (Len(s) - 1) + i]
    <3> SUFFICES ASSUME NEW i \in 1..(Len(s) - 1)
                 PROVE  Tail(s)[i] = t[Len(t) - (Len(s) - 1) + i]
      OBVIOUS
    <3> DEFINE m == Len(s)
               n == Len(t)
    <3>1. m \in Nat /\ n \in Nat /\ i \in 1..(m - 1)
      BY <2>1
    <3>2. Tail(s)[i] = s[i + 1]
      BY <2>1
    <3>3. \A j \in 1..m : s[j] = t[n - m + j]
      BY <2>1
    <3> HIDE DEF m, n
    <3>4. i + 1 \in 1..m /\ n - (m - 1) + i = n - m + (i + 1)
      BY <3>1
    <3>5. s[i + 1] = t[n - m + (i + 1)]
      BY <3>3, <3>4
    <3> QED
      BY <3>2, <3>4, <3>5 DEF m, n
  <2> DEFINE left == Len(Tail(s))
  <2>3. left = Len(s) - 1 /\ left <= Len(t)
    BY <2>1
  <2> HIDE DEF left
  <2>4. \A i \in 1..left : Tail(s)[i] = t[Len(t) - left + i]
    BY <2>2, <2>3
  <2> QED
    BY <2>3, <2>4 DEF LeftOf, left
<1> QED
  BY <1>1, <1>2

\* What is left of a sequence is a suffix of it.
LEMMA LeftSuffix ==
    ASSUME NEW S, NEW s \in Seq(S), NEW t \in Seq(S), LeftOf(s, t)
    PROVE  IsSuffix(s, t)
<1> DEFINE m == Len(s)
           n == Len(t)
           rs == [i \in 1..m |-> s[(m - i) + 1]]
           rt == [i \in 1..n |-> t[(n - i) + 1]]
<1>1. m \in Nat /\ n \in Nat /\ m <= n /\ \A i \in 1..m : s[i] = t[n - m + i]
  BY DEF LeftOf
<1>2. Reverse(s) = rs /\ Reverse(t) = rt
  BY DEF Reverse
<1> HIDE DEF m, n
<1>3. Len(rs) = m /\ Len(rt) = n
  BY <1>1
<1>4. SubSeq(rs, 1, m) = [i \in 1..m |-> rs[i]] /\ SubSeq(rt, 1, m) = [i \in 1..m |-> rt[i]]
  BY <1>1, <1>3
<1>5. \A i \in 1..m : rs[i] = rt[i]
  <2> SUFFICES ASSUME NEW i \in 1..m PROVE rs[i] = rt[i]
    OBVIOUS
  <2>1. (m - i) + 1 \in 1..m /\ i \in 1..n /\ n - m + ((m - i) + 1) = (n - i) + 1
    BY <1>1
  <2> QED
    BY <1>1, <2>1
<1>6. SubSeq(rs, 1, m) = SubSeq(rt, 1, m)
  <2> HIDE DEF rs, rt
  <2>1. [i \in 1..m |-> rs[i]] = [i \in 1..m |-> rt[i]]
    BY <1>5
  <2> QED
    BY <1>4, <2>1
<1> QED
  BY <1>1, <1>2, <1>3, <1>6 DEF IsSuffix, IsPrefix

\* A step leaves what is left of an operation, takes the first of it or starts with
\* all of it.
LEMMA WirelessLeft ==
    ASSUME WirelessIInv, [Next]_vars, NEW o \in Ops
    PROVE  \/ op'[o].todo = op'[o].wants
           \/ op'[o].wants = op[o].wants /\ op'[o].todo = op[o].todo
           \/ op'[o].wants = op[o].wants /\ op[o].todo # <<>> /\ op'[o].todo = Tail(op[o].todo)
<1> DEFINE Kept(p) == op'[p].wants = op[p].wants /\ op'[p].todo = op[p].todo
<1>1. WirelessTypes
  BY DEF WirelessIInv
<1>2. \A p \in Ops : op[p] \in OpRecords
  BY <1>1, WirelessShapes
<1>3. Idle.todo = Idle.wants
  BY DEF Idle
<1>4. CASE PollRead \/ PollPublished \/ UNCHANGED vars
  BY <1>4 DEF PollRead, PollPublished, vars
<1>5. CASE OutsideChange
  BY <1>1, <1>5, WirelessDisturbed DEF OutsideChange
<1>6. ASSUME NEW p \in Ops, NEW k, NEW s, Begin(p, k, s)
      PROVE  Kept(o) \/ op'[o].todo = op'[o].wants
  <2>1. \A q \in Ops : Disturbed[q].wants = op[q].wants /\ Disturbed[q].todo = op[q].todo
    BY <1>1, WirelessDisturbed
  <2>2. o # p => op'[o] = Disturbed[o]
    BY <1>6 DEF Begin, Disturbed
  <2>3. o = p => op'[o].todo = s /\ op'[o].wants = s
    BY <1>6 DEF Begin, Disturbed
  <2> QED
    BY <2>1, <2>2, <2>3
<1>7. ASSUME NEW p \in Ops, NEW r, op' = [op EXCEPT ![p] = r],
             \/ r.todo = r.wants
             \/ r.wants = op[p].wants /\ r.todo = op[p].todo
      PROVE  Kept(o) \/ op'[o].todo = op'[o].wants
  <2>1. o # p => op'[o] = op[o]
    BY <1>1, <1>7 DEF WirelessTypes
  <2>2. o = p => op'[o] = r
    BY <1>1, <1>7 DEF WirelessTypes
  <2> QED
    BY <1>7, <2>1, <2>2
<1>8. ASSUME NEW p \in Ops, Stage(p)
      PROVE  \/ Kept(o)
             \/ /\ op'[o].wants = op[o].wants /\ op[o].todo # <<>>
                /\ op'[o].todo = Tail(op[o].todo)
  <2>1. op[p].todo # <<>> /\ op' = [op EXCEPT ![p].todo = Tail(op[p].todo)]
    BY <1>8 DEF Stage
  <2>2. o # p => op'[o] = op[o]
    BY <1>1, <2>1 DEF WirelessTypes
  <2>3. o = p => op'[o].wants = op[o].wants /\ op'[o].todo = Tail(op[o].todo)
    BY <1>1, <1>2, <2>1 DEF WirelessTypes, OpRecords
  <2> QED
    BY <2>1, <2>2, <2>3
<1>9. ASSUME NEW p \in Ops, NEW b \in Phases
      PROVE  LET r == [op[p] EXCEPT !.phase = b]
             IN  r.wants = op[p].wants /\ r.todo = op[p].todo
  BY <1>2 DEF OpRecords
<1>10. ASSUME NEW p \in Ops, Commit(p) \/ CommandFails(p)
       PROVE  Kept(o) \/ op'[o].todo = op'[o].wants
  <2> DEFINE r == [op[p] EXCEPT !.phase = "committed"]
  <2>1. op' = [op EXCEPT ![p] = Idle] \/ op' = [op EXCEPT ![p] = r]
    BY <1>10 DEF Commit, CommandFails, AfterCommit
  <2>2. r.wants = op[p].wants /\ r.todo = op[p].todo
    BY <1>9 DEF Phases
  <2> HIDE DEF r
  <2> QED
    BY <1>3, <1>7, <2>1, <2>2
<1>11. ASSUME NEW p \in Ops, CallFails(p)
       PROVE  Kept(o) \/ op'[o].todo = op'[o].wants
  <2> DEFINE r == [op[p] EXCEPT !.phase = "failed"]
  <2>1. op' = [op EXCEPT ![p] = r]
    BY <1>11 DEF CallFails
  <2>2. r.wants = op[p].wants /\ r.todo = op[p].todo
    BY <1>9 DEF Phases
  <2> HIDE DEF r
  <2> QED
    BY <1>7, <2>1, <2>2
<1>12. ASSUME NEW p \in Ops, AnswerLost(p)
       PROVE  Kept(o) \/ op'[o].todo = op'[o].wants
  <2> DEFINE r == [op[p] EXCEPT !.lost = TRUE]
  <2>1. op' = [op EXCEPT ![p] = r]
    BY <1>12 DEF AnswerLost
  <2>2. r.wants = op[p].wants /\ r.todo = op[p].todo
    BY <1>2 DEF OpRecords
  <2> HIDE DEF r
  <2> QED
    BY <1>7, <2>1, <2>2
<1>13. ASSUME NEW p \in Ops, Revert(p) \/ Acknowledge(p)
       PROVE  Kept(o) \/ op'[o].todo = op'[o].wants
  <2>1. op' = [op EXCEPT ![p] = Idle]
    BY <1>13 DEF Revert, Acknowledge
  <2> QED
    BY <1>3, <1>7, <2>1
<1>14. ASSUME NEW p \in Ops, SwitchNet(p) \/ SwitchRadio(p) \/ SetPower(p)
       PROVE  Kept(o) \/ op'[o].todo = op'[o].wants
  BY <1>6, <1>14 DEF SwitchNet, SwitchRadio, SetPower
<1> QED
  BY <1>4, <1>5, <1>8, <1>10, <1>11, <1>12, <1>13, <1>14 DEF Next

\* At the start.
LEMMA WirelessInitRest == Init => WirelessRest
<1> SUFFICES ASSUME Init PROVE WirelessRest
  OBVIOUS
<1>1. \A o \in Ops : op[o].todo = <<>> /\ op[o].wants = <<>>
  BY DEF Init, Idle
<1>2. LeftOf(<<>>, <<>>)
  BY DEF LeftOf
<1>3. kept \in BOOLEAN
  BY DEF Init
<1>4. \A o \in Ops : LeftOf(op[o].todo, op[o].wants)
  BY <1>1, <1>2
<1> QED
  BY <1>3, <1>4, WirelessConstants DEF Init, WirelessRest

\* Every step keeps it.
LEMMA WirelessNextRest ==
    WirelessIInv /\ WirelessData /\ WirelessRest /\ [Next]_vars => WirelessRest'
<1> SUFFICES ASSUME WirelessIInv, WirelessData, WirelessRest, [Next]_vars
             PROVE  WirelessRest'
  OBVIOUS
<1>1. WirelessTypes /\ WirelessTypes'
  BY WirelessNextIInv DEF WirelessIInv
<1>2. \A o \in Ops : LeftOf(op'[o].todo, op'[o].wants)
  <2> SUFFICES ASSUME NEW o \in Ops PROVE LeftOf(op'[o].todo, op'[o].wants)
    OBVIOUS
  <2>1. /\ op[o].todo \in Seq(Settings) /\ op[o].wants \in Seq(Settings)
        /\ LeftOf(op[o].todo, op[o].wants)
    BY <1>1, WirelessShapes DEF WirelessRest
  <2>2. op'[o].todo \in Seq(Settings) /\ op'[o].wants \in Seq(Settings)
    BY <1>1 DEF WirelessTypes, OpRecords
  <2>3. CASE op'[o].todo = op'[o].wants
    BY <2>2, <2>3, LeftParts
  <2>4. CASE op'[o].wants = op[o].wants /\ op'[o].todo = op[o].todo
    BY <2>1, <2>4
  <2>5. CASE /\ op'[o].wants = op[o].wants /\ op[o].todo # <<>>
             /\ op'[o].todo = Tail(op[o].todo)
    BY <2>1, <2>5, LeftParts
  <2> QED
    BY <2>3, <2>4, <2>5, WirelessLeft
<1>3. via' \in Transports /\ kept' \in BOOLEAN
  BY DEF WirelessRest, Next, vars, PollRead, PollPublished, OutsideChange, SwitchNet,
         SwitchRadio, SetPower, Begin, Stage, Commit, CallFails, Revert, CommandFails,
         AnswerLost, Acknowledge
<1>4. read' = {} \/ \E c \in SUBSET Nets : read' = {c}
  <2>1. UNCHANGED read \/ PollRead \/ PollPublished
    BY DEF Next, vars, OutsideChange, SwitchNet, SwitchRadio, SetPower, Begin, Stage,
           Commit, CallFails, Revert, CommandFails, AnswerLost, Acknowledge
  <2>2. CASE UNCHANGED read
    BY <2>2 DEF WirelessRest
  <2>3. CASE PollRead \/ PollPublished
    BY <2>3 DEF PollRead, PollPublished
  <2> QED
    BY <2>1, <2>2, <2>3
<1>5. /\ started' \in 0..MaxOps /\ faults' \in 0..MaxFaults
      /\ outside' \in 0..MaxOutside
  <2>1. /\ started' = started \/ (started < MaxOps /\ started' = started + 1)
        /\ faults' = faults \/ (faults < MaxFaults /\ faults' = faults + 1)
        /\ outside' = outside \/ (outside < MaxOutside /\ outside' = outside + 1)
    BY DEF Next, vars, PollRead, PollPublished, OutsideChange, SwitchNet,
           SwitchRadio, SetPower, Begin, Stage, Commit, CallFails, Revert, CommandFails,
           AnswerLost, Acknowledge
  <2> QED
    BY <2>1, WirelessConstants DEF WirelessRest
<1> QED
  BY <1>2, <1>3, <1>4, <1>5 DEF WirelessRest

\* Together they are the type invariant.
LEMMA WirelessTypeOK == WirelessIInv /\ WirelessData /\ WirelessRest => TypeOK
<1> SUFFICES ASSUME WirelessIInv, WirelessData, WirelessRest PROVE TypeOK
  OBVIOUS
<1>1. ASSUME NEW o \in Ops
      PROVE  /\ op[o].phase \in Phases /\ op[o].kind \in {"net", "radio", "power"}
             /\ IsSuffix(op[o].todo, op[o].wants)
             /\ \A i \in DOMAIN op[o].wants : op[o].wants[i] \in Settings
             /\ op[o].before \subseteq Sections
  <2>1. /\ op[o].phase \in Phases /\ op[o].kind \in Kind
        /\ op[o].wants \in Seq(Settings) /\ op[o].todo \in Seq(Settings)
        /\ op[o].before \subseteq Sections
    BY WirelessShapes DEF WirelessIInv
  <2>2. LeftOf(op[o].todo, op[o].wants)
    BY DEF WirelessRest
  <2>3. IsSuffix(op[o].todo, op[o].wants)
    BY <2>1, <2>2, LeftSuffix
  <2> QED
    BY <2>1, <2>3 DEF Kind
<1> QED
  BY <1>1 DEF WirelessIInv, WirelessTypes, WirelessData, WirelessRest, TypeOK

\* What the type invariant of the internet access says beyond the invariant: what
\* is named and what an operation sets are rules of the list.
AccessRest ==
    /\ accVia \in Transports /\ named <= Len(rules)
    /\ rejects \in BOOLEAN /\ overlapped \in BOOLEAN
    /\ accData \in Seq(BOOLEAN)
    /\ \A o \in Ops : /\ acc[o].rule <= Len(rules)
                      /\ acc[o].phase = "setting" => acc[o].rule # 0
    /\ accStarted \in 0..(MaxOps + 1) /\ accFaults \in 0..MaxFaults

\* The instance counts as the library does.
LEMMA AccessCounts ==
    ASSUME NEW n \in Nat, NEW S \in SUBSET (1..n)
    PROVE  Access!SetToSeq(S) \in Seq(S)
<1>1. IsFiniteSet(S)
  <2>1. IsFiniteSet(1..n)
    BY FS_Interval
  <2> QED
    BY <2>1, FS_Subset
<1>2. Cardinality(S) \in Nat /\ ExistsBijection(1..Cardinality(S), S)
  BY <1>1, FS_CardinalityType
<1>3. PICK f : f \in [1..Cardinality(S) -> S] /\ \A a, b \in DOMAIN f : f[a] = f[b] => a = b
  BY <1>2 DEF ExistsBijection, Bijection, Injection, IsInjective
<1>4. Access!IsInjective(f)
  BY <1>3 DEF Access!IsInjective
<1>5. Access!Cardinality(S) = Cardinality(S)
  BY DEF Access!Cardinality, Cardinality
<1>6. Access!SetToSeq(S) \in [1..Cardinality(S) -> S]
  BY <1>3, <1>4, <1>5 DEF Access!SetToSeq
<1> QED
  BY <1>2, <1>6

\* A rule that is set is a rule of the list.
LEMMA AccessSetsRule ==
    ASSUME NEW s \in Seq(Access!Rule), NEW i, NEW r
    PROVE  Len([s EXCEPT ![i] = r]) = Len(s)
OBVIOUS

\* At the start.
LEMMA AccessInitRest == Access!Init => AccessRest
<1> SUFFICES ASSUME Access!Init PROVE AccessRest
  OBVIOUS
<1>1. \A o \in Ops : acc[o].rule = 0 /\ acc[o].phase = "idle"
  BY DEF Access!Init, Access!Idle, Access!None
<1>2. Len(rules) \in Nat
  BY DEF Access!Init
<1>3. /\ named <= Len(rules)
      /\ accData \in Seq(BOOLEAN) /\ accVia \in Transports
  BY <1>2 DEF Access!Init, Access!None
<1>4. rejects \in BOOLEAN /\ overlapped \in BOOLEAN
  BY DEF Access!Init
<1>5. accStarted \in 0..(MaxOps + 1) /\ accFaults \in 0..MaxFaults
  BY AccessValues DEF Access!Init, Access!AccessConstants
<1> QED
  BY <1>1, <1>2, <1>3, <1>4, <1>5 DEF AccessRest

\* Every step keeps it.
LEMMA AccessNextRest ==
    AccessIInv /\ AccessRest /\ [Access!Next]_accVars => AccessRest'
<1> SUFFICES ASSUME AccessIInv, AccessRest, [Access!Next]_accVars PROVE AccessRest'
  OBVIOUS
<1>1. AccessTypes /\ AccessTypes'
  BY AccessNextIInv DEF AccessIInv
<1>2. /\ rules \in Seq(Access!Rule) /\ Len(rules) \in Nat /\ named \in Nat
      /\ acc \in [Ops -> AccRecords]
      /\ \A o \in Ops : acc[o].rule \in Nat /\ acc[o].blocks \in BOOLEAN
  BY <1>1 DEF AccessTypes, AccRecords
<1>3. accVia' \in Transports
  BY DEF AccessRest, Access!Next, accVars, Access!Polls, Access!Begin, Access!Finds,
         Access!UbusAdds, Access!SshAdds, Access!Sets, Access!Commits, Access!Reloads,
         Access!Flushes, Access!Fails, Access!NotOverLuci, Access!Acknowledge
<1>4. rejects' \in BOOLEAN /\ overlapped' \in BOOLEAN
  <2>1. rejects' = rejects \/ rejects' = Access!Blocking(saved)
    BY DEF Access!Next, accVars, Access!Polls, Access!Begin, Access!Finds,
         Access!UbusAdds, Access!SshAdds, Access!Sets, Access!Commits, Access!Reloads,
         Access!Flushes, Access!Fails, Access!NotOverLuci, Access!Acknowledge
  <2>2. overlapped' = overlapped \/ overlapped' \in BOOLEAN
    BY DEF Access!Next, accVars, Access!Polls, Access!Begin, Access!Finds,
         Access!UbusAdds, Access!SshAdds, Access!Sets, Access!Commits, Access!Reloads,
         Access!Flushes, Access!Fails, Access!NotOverLuci, Access!Acknowledge
  <2>3. Access!Blocking(saved) \in BOOLEAN
    BY DEF Access!Blocking
  <2> QED
    BY <2>1, <2>2, <2>3 DEF AccessRest
<1>5. /\ accStarted' \in 0..(MaxOps + 1)
      /\ accFaults' \in 0..MaxFaults
  <2>1. /\ accStarted' = accStarted \/ (accStarted < MaxOps + 1 /\ accStarted' = accStarted + 1)
        /\ accFaults' = accFaults \/ (accFaults < MaxFaults /\ accFaults' = accFaults + 1)
    BY DEF Access!Next, accVars, Access!Polls, Access!Begin, Access!Finds,
         Access!UbusAdds, Access!SshAdds, Access!Sets, Access!Commits, Access!Reloads,
         Access!Flushes, Access!Fails, Access!NotOverLuci, Access!Acknowledge
  <2> QED
    BY <2>1, AccessValues DEF AccessRest, Access!AccessConstants
<1>6. accData' \in Seq(BOOLEAN)
  <2>1. UNCHANGED accData \/ Access!Polls \/ \E o \in Ops : Access!Acknowledge(o)
    BY DEF Access!Next, accVars, Access!Begin, Access!Finds,
         Access!UbusAdds, Access!SshAdds, Access!Sets, Access!Commits, Access!Reloads,
         Access!Flushes, Access!Fails, Access!NotOverLuci
  <2>2. CASE UNCHANGED accData
    BY <2>2 DEF AccessRest
  <2>3. CASE Access!Polls
    <3> DEFINE listed == Access!Listed(rules)
               n == Len(Access!SetToSeq(listed))
               shown(i) == LET r == rules[Access!SetToSortSeq(listed, <)[i]]
                           IN  accVia = "luci" \/ r = "on"
    <3>1. accData' = [i \in 1..n |-> shown(i)]
      BY <2>3 DEF Access!Polls
    <3>2. listed \in SUBSET (1..Len(rules))
      <4>1. DOMAIN rules = 1..Len(rules)
        BY <1>2
      <4>2. accVia \in {"ubus", "luci", "ssh"}
        BY <1>1 DEF AccessTypes
      <4> QED
        BY <4>1, <4>2 DEF Access!Listed, Access!UbusLists, Access!LuciLists, Access!SshLists
    <3>3. n \in Nat
      <4> HIDE DEF listed
      <4>1. Access!SetToSeq(listed) \in Seq(listed)
        BY <1>2, <3>2, AccessCounts
      <4> QED
        BY <4>1
    <3>4. \A i \in 1..n : shown(i) \in BOOLEAN
      OBVIOUS
    <3> HIDE DEF shown, n
    <3> QED
      BY <3>1, <3>3, <3>4
  <2>4. ASSUME NEW o \in Ops, Access!Acknowledge(o) PROVE accData' \in Seq(BOOLEAN)
    <3>1. accData' = [i \in DOMAIN accData |-> acc[o].blocks]
      BY <2>4 DEF Access!Acknowledge
    <3>2. DOMAIN accData = 1..Len(accData) /\ Len(accData) \in Nat
      BY DEF AccessRest
    <3> QED
      BY <1>2, <3>1, <3>2
  <2> QED
    BY <2>1, <2>2, <2>3, <2>4
<1>7. /\ named' <= Len(rules')
      /\ \A o \in Ops : /\ acc'[o].rule <= Len(rules')
                        /\ acc'[o].phase = "setting" => acc'[o].rule # 0
  <2> DEFINE Goal == /\ named' <= Len(rules')
                     /\ \A o \in Ops : /\ acc'[o].rule <= Len(rules')
                                       /\ acc'[o].phase = "setting" => acc'[o].rule # 0
  <2>1. /\ named <= Len(rules)
        /\ \A o \in Ops : /\ acc[o].rule <= Len(rules)
                          /\ acc[o].phase = "setting" => acc[o].rule # 0
    BY DEF AccessRest
  <2>2. CASE Access!Polls \/ UNCHANGED accVars
    BY <2>1, <2>2 DEF Access!Polls, accVars
  <2>3. ASSUME NEW o \in Ops, NEW r, acc' = [acc EXCEPT ![o] = r], r.rule = 0,
               r.phase # "setting", UNCHANGED <<rules, named>>
        PROVE  Goal
    BY <1>2, <2>1, <2>3
  <2>4. ASSUME NEW o \in Ops, NEW p \in AccPhases, NEW x \in Nat, Access!Goes(o, p, x),
               UNCHANGED <<rules, named>>, x <= Len(rules), p = "setting" => x # 0
        PROVE  Goal
    <3>1. /\ acc'[o].phase = p /\ acc'[o].rule = x
          /\ \A q \in Ops \ {o} : acc'[q] = acc[q]
      BY <1>1, <2>4, AccessGoesOn
    <3> QED
      BY <2>1, <2>4, <3>1
  <2>5. ASSUME NEW o \in Ops, Access!Begin(o) PROVE Goal
    <3>1. PICK b \in BOOLEAN : acc' = [acc EXCEPT ![o] =
                    [Access!Idle EXCEPT !.phase = "looking", !.blocks = b]]
      BY <2>5 DEF Access!Begin
    <3> DEFINE r == [Access!Idle EXCEPT !.phase = "looking", !.blocks = b]
    <3>2. r.rule = 0 /\ r.phase # "setting" /\ UNCHANGED <<rules, named>>
      BY <2>5 DEF Access!Begin, Access!Idle, Access!None
    <3> HIDE DEF r
    <3> QED
      BY <2>3, <3>1, <3>2 DEF r
  <2>6. ASSUME NEW o \in Ops,
               Access!Fails(o) \/ Access!NotOverLuci(o) \/ Access!Acknowledge(o)
        PROVE  Goal
    <3>1. acc' = [acc EXCEPT ![o] = Access!Idle] /\ UNCHANGED <<rules, named>>
      BY <2>6 DEF Access!Fails, Access!NotOverLuci, Access!Acknowledge
    <3>2. Access!Idle.rule = 0 /\ Access!Idle.phase # "setting"
      BY DEF Access!Idle, Access!None
    <3> QED
      BY <2>3, <3>1, <3>2
  <2>7. ASSUME NEW o \in Ops, Access!Commits(o) \/ Access!Reloads(o) \/ Access!Flushes(o)
        PROVE  Goal
    <3>1. PICK p \in {"reloading", "flushing", "done"} : Access!Goes(o, p, acc[o].rule)
      BY <2>7 DEF Access!Commits, Access!Reloads, Access!Flushes
    <3>2. UNCHANGED <<rules, named>>
      BY <2>7 DEF Access!Commits, Access!Reloads, Access!Flushes
    <3>3. acc[o].rule \in Nat /\ acc[o].rule <= Len(rules)
      BY <1>2, <2>1
    <3>4. p \in AccPhases /\ p # "setting"
      BY DEF AccPhases
    <3> QED
      BY <2>4, <3>1, <3>2, <3>3, <3>4
  <2>8. ASSUME NEW o \in Ops, Access!Finds(o) PROVE Goal
    <3> DEFINE listed == Access!Listed(rules)
    <3>1. listed \in SUBSET (1..Len(rules))
      <4>1. DOMAIN rules = 1..Len(rules)
        BY <1>2
      <4>2. accVia \in {"ubus", "luci", "ssh"}
        BY <1>1 DEF AccessTypes
      <4> QED
        BY <4>1, <4>2 DEF Access!Listed, Access!UbusLists, Access!LuciLists, Access!SshLists
    <3>2. UNCHANGED <<rules, named>>
      BY <2>8 DEF Access!Finds
    <3>3. CASE listed # {}
      <4>1. Access!Goes(o, "setting", Access!Min(listed))
        BY <2>8, <3>3 DEF Access!Finds
      <4> HIDE DEF listed
      <4>2. listed \in SUBSET Nat
        BY <3>1
      <4>3. Access!Min(listed) \in 1..Len(rules)
        BY <3>1, <3>3, <4>2, AccessMin
      <4>4. /\ Access!Min(listed) \in Nat /\ Access!Min(listed) <= Len(rules)
            /\ Access!Min(listed) # 0
        BY <1>2, <4>3
      <4> QED
        BY <2>4, <3>2, <4>1, <4>4 DEF AccPhases
    <3>4. CASE listed = {}
      <4>1. PICK p \in {"adding", "committing"} : Access!Goes(o, p, 0)
        BY <2>8, <3>4 DEF Access!Finds, Access!None
      <4>2. p \in AccPhases /\ p # "setting"
        BY DEF AccPhases
      <4> QED
        BY <1>2, <2>4, <3>2, <4>1, <4>2
    <3> QED
      BY <3>3, <3>4
  <2>9. ASSUME NEW o \in Ops, NEW x \in Nat, Access!Goes(o, "setting", x),
               Len(rules') \in Nat, x # 0, x <= Len(rules'), Len(rules) <= Len(rules'),
               named' <= Len(rules')
        PROVE  Goal
    <3>1. /\ acc'[o].phase = "setting" /\ acc'[o].rule = x
          /\ \A q \in Ops \ {o} : acc'[q] = acc[q]
      BY <1>1, <2>9, AccessGoesOn DEF AccPhases
    <3> QED
      BY <1>2, <2>1, <2>9, <3>1
  <2>10. ASSUME NEW o \in Ops, Access!UbusAdds(o) PROVE Goal
    <3>1. /\ rules' = Append(rules, "blank") /\ Access!Goes(o, "setting", Len(rules'))
          /\ named' = named
      BY <2>10 DEF Access!UbusAdds
    <3>2. Len(rules') = Len(rules) + 1
      BY <1>2, <3>1
    <3>3. /\ Len(rules') \in Nat /\ Len(rules') # 0 /\ Len(rules) <= Len(rules')
          /\ named <= Len(rules')
      BY <1>2, <2>1, <3>2
    <3> QED
      BY <2>9, <3>1, <3>3
  <2>11. ASSUME NEW o \in Ops, Access!SshAdds(o) PROVE Goal
    <3>1. /\ Access!Goes(o, "setting", named')
          /\ \/ /\ named # 0 /\ rules' = Append(rules, "blank") /\ named' = named
             \/ /\ rules' = rules \o <<"blank", "blank">> /\ named' = Len(rules')
      BY <2>11 DEF Access!SshAdds, Access!None
    <3>2. CASE named # 0 /\ rules' = Append(rules, "blank") /\ named' = named
      <4>1. Len(rules') = Len(rules) + 1
        BY <1>2, <3>2
      <4>2. /\ Len(rules') \in Nat /\ named' # 0 /\ named' \in Nat
            /\ Len(rules) <= Len(rules') /\ named' <= Len(rules')
        BY <1>2, <2>1, <3>2, <4>1
      <4> QED
        BY <2>9, <3>1, <4>2
    <3>3. CASE rules' = rules \o <<"blank", "blank">> /\ named' = Len(rules')
      <4>1. Len(rules') = Len(rules) + 2
        BY <1>2, <3>3
      <4>2. /\ Len(rules') \in Nat /\ named' # 0 /\ named' \in Nat
            /\ Len(rules) <= Len(rules') /\ named' <= Len(rules')
        BY <1>2, <3>3, <4>1
      <4> QED
        BY <2>9, <3>1, <4>2
    <3> QED
      BY <3>1, <3>2, <3>3
  <2>12. ASSUME NEW o \in Ops, Access!Sets(o) PROVE Goal
    <3>1. /\ Len(rules') = Len(rules) /\ Access!Goes(o, "committing", acc[o].rule)
          /\ named' = named
      BY <1>2, <2>12, AccessSetsRule DEF Access!Sets
    <3>2. /\ acc'[o].phase = "committing" /\ acc'[o].rule = acc[o].rule
          /\ \A q \in Ops \ {o} : acc'[q] = acc[q]
      BY <1>1, <1>2, <3>1, AccessGoesOn DEF AccPhases
    <3> QED
      BY <2>1, <3>1, <3>2
  <2> HIDE DEF Goal
  <2>13. Goal
    BY <2>2, <2>5, <2>6, <2>7, <2>8, <2>10, <2>11, <2>12 DEF Access!Next, Goal
  <2> QED
    BY <2>13 DEF Goal
<1> QED
  BY <1>3, <1>4, <1>5, <1>6, <1>7 DEF AccessRest

\* Together they are the type invariant.
LEMMA AccessTypeOK == AccessIInv /\ AccessRest => Access!TypeOK
<1> SUFFICES ASSUME AccessIInv, AccessRest PROVE Access!TypeOK
  OBVIOUS
<1>1. /\ rules \in Seq(Access!Rule) /\ saved \in Seq(Access!Rule) /\ named \in Nat
      /\ acc \in [Ops -> AccRecords] /\ Len(rules) \in Nat
  BY DEF AccessIInv, AccessTypes
<1>2. ASSUME NEW o \in Ops
      PROVE  /\ acc[o].phase \in Access!Phases /\ acc[o].blocks \in BOOLEAN
             /\ acc[o].rule \in 0..Len(rules)
             /\ acc[o].phase = "setting" => acc[o].rule # Access!None
  <2>1. /\ acc[o].phase \in AccPhases /\ acc[o].blocks \in BOOLEAN /\ acc[o].rule \in Nat
    BY <1>1 DEF AccRecords
  <2> QED
    BY <1>1, <2>1 DEF AccessRest, AccPhases, Access!Phases, Access!None
<1>3. named \in 0..Len(rules)
  BY <1>1 DEF AccessRest
<1> QED
  BY <1>1, <1>2, <1>3 DEF AccessRest, Access!TypeOK

\* The switches of the other kinds.
LEMMA ActTypeOK == ActIInv => Act!TypeOK
<1> SUFFICES ASSUME ActTypes PROVE Act!TypeOK
  BY DEF ActIInv
<1>1. ASSUME NEW o \in Ops
      PROVE  /\ act[o].phase \in {"idle", "running", "acked"}
             /\ act[o].phase = "running" <=> act[o].todo # <<>>
             /\ \A i \in DOMAIN act[o].todo :
                   /\ act[o].todo[i].way \in Act!Ways
                   /\ act[o].todo[i].does \in Seq(Act!Effects)
             /\ {act[o].wants, act[o].clean, act[o].alone} \subseteq BOOLEAN
  <2>1. act[o] \in ActRecords /\ (act[o].phase = "running" <=> act[o].todo # <<>>)
    BY DEF ActTypes
  <2>2. act[o].todo \in Seq(ActRequests)
    BY <2>1 DEF ActRecords
  <2>3. \A i \in DOMAIN act[o].todo : act[o].todo[i] \in ActRequests
    BY <2>2
  <2> QED
    BY <2>1, <2>3 DEF ActRecords, ActRequests, ActPhases
<1> QED
  BY <1>1 DEF ActTypes, Act!TypeOK, Staged

-----------------------------------------------------------------------------
(* The five of the module, of which one moves.                             *)

\* Whichever part moves, each of the five takes one of its own steps or rests.
LEMMA SwitchesParts ==
    [SwitchesNext]_switchVars =>
        /\ [Next]_vars /\ [Act!Next]_actVars /\ [Access!Next]_accVars
        /\ [Firmware!Next]_firmwareVars /\ [Mwan!Next]_mwanVars
<1> SUFFICES ASSUME [SwitchesNext]_switchVars
             PROVE  /\ [Next]_vars /\ [Act!Next]_actVars /\ [Access!Next]_accVars
                    /\ [Firmware!Next]_firmwareVars /\ [Mwan!Next]_mwanVars
  OBVIOUS
<1>1. CASE UNCHANGED switchVars
  BY <1>1 DEF switchVars
<1>2. CASE SwitchesNext
  BY <1>2 DEF SwitchesNext
<1> QED
  BY <1>1, <1>2

\* The invariants of the five.
SwitchesIInv ==
    /\ WirelessIInv /\ WirelessData /\ WirelessRest
    /\ ActIInv
    /\ AccessIInv /\ AccessRest
    /\ FirmwareIInv
    /\ MwanRanges

\* They hold in every state.
THEOREM SwitchesInvariant == SwitchesSpec => []SwitchesIInv
<1>1. SwitchesInit => SwitchesIInv
  BY WirelessInitIInv, WirelessInitRest, ActInitIInv, AccessInitIInv, AccessInitRest,
     FirmwareInitIInv, MwanInitRanges
     DEF SwitchesInit, SwitchesIInv
<1>2. SwitchesIInv /\ [SwitchesNext]_switchVars => SwitchesIInv'
  BY SwitchesParts, WirelessNextIInv, WirelessNextRest, ActNextIInv, AccessNextIInv,
     AccessNextRest, FirmwareNextIInv, MwanNextRanges
     DEF SwitchesIInv
<1> QED
  BY <1>1, <1>2, PTL DEF SwitchesSpec

\* The states of the five are of their types: what is left of an operation's settings
\* is the end of them, an access rule that is named or set is in the list, and no
\* counter passes its bound.
THEOREM SwitchesTypes == SwitchesSpec => []TypesOK
<1>1. SwitchesIInv => TypesOK
  BY WirelessTypeOK, ActTypeOK, AccessTypeOK, MwanTypes
     DEF SwitchesIInv, TypesOK, FirmwareIInv
<1> QED
  BY <1>1, SwitchesInvariant, PTL

\* The settings of an operation that nothing disturbs are committed in one piece or
\* not at all (Wireless), for any networks and any number of operations and failures.
THEOREM SettingsInOneTransaction == SwitchesSpec => []OneTransaction
<1>1. SwitchesIInv => OneTransaction
  BY DEF SwitchesIInv, WirelessIInv
<1> QED
  BY <1>1, SwitchesInvariant, PTL

\* A network's switch that is shown as done has set the network, its radio on with it
\* or, for the last enabled one, off with it (Wireless).
THEOREM SwitchesDoAsShown == SwitchesSpec => []DoneAsShown
<1>1. SwitchesIInv => DoneAsShown
  BY WirelessDone DEF SwitchesIInv
<1> QED
  BY <1>1, SwitchesInvariant, PTL

\* Once every operation over ubus has ended nothing of them is left in the delta,
\* unless taking it back has failed (Wireless).
THEOREM FailedSettingsAreTakenBack == SwitchesSpec => []NothingLeftStaged
<1>1. SwitchesIInv => NothingLeftStaged
  BY WirelessNothingLeft DEF SwitchesIInv
<1> QED
  BY <1>1, SwitchesInvariant, PTL

\* A switch of any other kind that is shown as done has had its effect: the router
\* does it, has it committed and the next poll shows it, if nothing ran beside the
\* operation and none of its requests failed, or the switch verifies them (Actions).
THEOREM AcknowledgedIsDone == SwitchesSpec => []AckedIsDone
<1>1. SwitchesIInv => AckedIsDone
  BY ActDone DEF SwitchesIInv
<1> QED
  BY <1>1, SwitchesInvariant, PTL

\* Once operations that ran into each other have all ended without a failure, the
\* router does what is committed and nothing stays staged, for the switches whose last
\* request reads what is committed (Actions).
THEOREM ChangesInParallelAgree == SwitchesSpec => []ParallelChangesAgree
<1>1. SwitchesIInv => ParallelChangesAgree
  BY ActSettled DEF SwitchesIInv
<1> QED
  BY <1>1, SwitchesInvariant, PTL

\* A block or unblock over ubus that is shown as done is in the running firewall and
\* in the committed rules, whatever failed before it (AccessControl).
THEOREM AccessIsAsAsked == SwitchesSpec => []AccessAsAsked
<1>1. SwitchesIInv => AccessAsAsked
  BY AccessDone DEF SwitchesIInv
<1> QED
  BY <1>1, SwitchesInvariant, PTL

\* An image older than what the router runs is never flashed, but for the four
\* exceptions the property names (FirmwareUpdates), for any number of releases,
\* checks and installations.
THEOREM NothingOlderIsFlashed == SwitchesSpec => OnlyUpgrades
<1> DEFINE Upgrades == running' < running =>
               \/ textual \/ ~image.offered \/ image.against # running
               \/ mode = "custom" /\ image.file.release # image.latest
<1>1. SwitchesIInv /\ [SwitchesNext]_switchVars => [Upgrades]_(Firmware!vars)
  BY SwitchesParts, FirmwareUpgrades DEF SwitchesIInv
<1>2. [][Upgrades]_(Firmware!vars) => OnlyUpgrades
  BY DEF OnlyUpgrades, Firmware!OnlyUpgrades
<1> QED
  BY <1>1, <1>2, SwitchesInvariant, PTL DEF SwitchesSpec

\* The records of the totals are sound in every state, for a line that changes at
\* most twice between two samples, that no sample catches in the second of a change,
\* a store that can be written, and a router that stays up for at least the margins
\* within which two boots count as one.
THEOREM TotalsAreSound ==
    ASSUME MaxChanges <= 2, ~SampleAtChange, ~SaveMayFail
    PROVE  SwitchesSpec /\ [][LongBoots]_mwanVars => [](MwanRanges /\ MwanSound)
<1>1. SwitchesInit => MwanRanges /\ MwanSound
  BY MwanInitRanges, MwanInitSound DEF SwitchesInit
<1>2. MwanRanges /\ MwanSound /\ [SwitchesNext]_switchVars /\ [LongBoots]_mwanVars
        => MwanRanges' /\ MwanSound'
  BY SwitchesParts, MwanNextRanges, MwanNextSound
<1> QED
  BY <1>1, <1>2, PTL DEF SwitchesSpec

\* Then the online share is never too high at a sample, across missed changes, failed
\* queries, restarts of Home Assistant and reboots of the router (MwanTotals), for
\* any number of them.
THEOREM OnlineShareIsNotTooHigh ==
    ASSUME MaxChanges <= 2, ~SampleAtChange, ~SaveMayFail
    PROVE  SwitchesSpec /\ [][LongBoots]_mwanVars => []NeverOverstates
<1>1. MwanRanges /\ MwanSound => NeverOverstates
  BY MwanSafe
<1>2. SwitchesSpec /\ [][LongBoots]_mwanVars => [](MwanRanges /\ MwanSound)
  BY TotalsAreSound
<1> QED
  BY <1>1, <1>2, PTL

\* And it is exact where every change of the line was seen (MwanTotals).
THEOREM OnlineShareIsExact ==
    ASSUME MaxChanges <= 2, ~SampleAtChange, ~SaveMayFail
    PROVE  SwitchesSpec /\ [][LongBoots]_mwanVars => []ExactWhenWatched
<1>1. MwanRanges /\ MwanSound => ExactWhenWatched
  BY MwanSafe
<1>2. SwitchesSpec /\ [][LongBoots]_mwanVars => [](MwanRanges /\ MwanSound)
  BY TotalsAreSound
<1> QED
  BY <1>1, <1>2, PTL

=============================================================================
