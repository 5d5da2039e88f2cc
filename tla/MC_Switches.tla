----------------------------- MODULE MC_Switches -----------------------------
(***************************************************************************)
(* Instances for TLC, in one run: two networks of a radio (Wireless), one  *)
(* switch of every other kind (Actions) and the internet access of a       *)
(* device (AccessControl), with two operations at a time; the checks for   *)
(* firmware (FirmwareUpdates); the totals of a line (MwanTotals).  Which   *)
(* of the five moves is chosen at the start; the others rest.              *)
(***************************************************************************)
EXTENDS Wireless, TLC

CONSTANTS
    guest, home, radio, o1, o2, Kinds,
    Modes, Images, MaxRelease, MaxChecks, MaxInstalls,
    Tolerance, RebootMargin, DriftMargin, EpochMargin, SessionMargin, MinDwell,
    MinUp, SampleAtChange, SaveMayFail, MaxChanges, MaxReboots, MaxRestarts,
    MaxTime

VARIABLES
    part,
    kind, actVia, actConf, delta, live, actData, actRead, act, actStarted, actFaults,
    accVia, rules, named, saved, rejects, accData, acc, accStarted, accFaults,
    overlapped,
    mode, textual, builder, newest, imaged, built, running, info, offer, check, found,
    install, image, against, checks, installs,
    now, bootedAt, line, stamp, status, boot, lastUptime, totals, sample, loaded,
    disk, changes, reboots, restarts, down, watched, fresh

Act == INSTANCE Actions
    WITH via <- actVia, conf <- actConf, data <- actData, read <- actRead,
         op <- act, started <- actStarted, faults <- actFaults, MaxOps <- MaxOps + 1

Access == INSTANCE AccessControl
    WITH via <- accVia, live <- rejects, data <- accData, op <- acc,
         started <- accStarted, faults <- accFaults, MaxOps <- MaxOps + 1

Firmware == INSTANCE FirmwareUpdates

Mwan == INSTANCE MwanTotals

ASSUME ActionsValues == Act!ActionsConstants
ASSUME AccessValues == Access!AccessConstants
ASSUME FirmwareValues == Firmware!FirmwareConstants
ASSUME MwanValues == Mwan!MwanConstants

Symmetric == Permutations({guest, home}) \cup Permutations({o1, o2})

actVars == <<kind, actVia, actConf, delta, live, actData, actRead, act, actStarted,
             actFaults>>
accVars == <<accVia, rules, named, saved, rejects, accData, acc, accStarted,
             accFaults, overlapped>>
firmwareVars == <<mode, textual, builder, newest, imaged, built, running, info, offer,
                  check, found, install, image, against, checks, installs>>
mwanVars == <<now, bootedAt, line, stamp, status, boot, lastUptime, totals, sample,
              loaded, disk, changes, reboots, restarts, down, watched, fresh>>
switchVars == <<part, vars, actVars, accVars, firmwareVars, mwanVars>>

SwitchesInit ==
    /\ Init /\ Act!Init /\ Access!Init /\ Firmware!Init /\ Mwan!Init
    /\ part \in {"wireless", "actions", "access", "firmware", "totals"}
    /\ part # "wireless" => via = "ubus" /\ conf = {}
    /\ part # "actions" => kind = "led" /\ actVia = "ubus" /\ ~actConf
    /\ part # "access" => accVia = "ubus" /\ rules = <<>>
    /\ part # "firmware" => mode = "stable" /\ builder

SwitchesNext ==
    \/ /\ part = "wireless" /\ Next
       /\ UNCHANGED <<part, actVars, accVars, firmwareVars, mwanVars>>
    \/ /\ part = "actions" /\ Act!Next
       /\ UNCHANGED <<part, vars, accVars, firmwareVars, mwanVars>>
    \/ /\ part = "access" /\ Access!Next
       /\ UNCHANGED <<part, vars, actVars, firmwareVars, mwanVars>>
    \/ /\ part = "firmware" /\ Firmware!Next
       /\ UNCHANGED <<part, vars, actVars, accVars, mwanVars>>
    \/ /\ part = "totals" /\ Mwan!Next
       /\ UNCHANGED <<part, vars, actVars, accVars, firmwareVars>>

SwitchesSpec == SwitchesInit /\ [][SwitchesNext]_switchVars

-----------------------------------------------------------------------------
(* The properties of the five. *)

\* The type invariants.
TypesOK ==
    TypeOK /\ Act!TypeOK /\ Access!TypeOK /\ Firmware!TypeOK /\ Mwan!TypeOK

\* An acknowledged operation of a switch has had its effect (Actions).
AckedIsDone == Act!AckedIsDone

\* Operations that run into each other leave what is committed (Actions).
ParallelChangesAgree == Act!ParallelChangesAgree

\* An acknowledged block or unblock over ubus is one (AccessControl).
AccessAsAsked == Access!AccessAsAsked

\* What is installed is not older than what runs (FirmwareUpdates).
OnlyUpgrades == Firmware!OnlyUpgrades

\* The online share is not too high (MwanTotals).
NeverOverstates == Mwan!NeverOverstates

\* The totals are exact where every change was seen (MwanTotals).
ExactWhenWatched == Mwan!ExactWhenWatched

=============================================================================
