---------------------------- MODULE EntityKinds ----------------------------
(***************************************************************************)
(* The kinds of entities and the rules by which each platform adds and     *)
(* removes them: a record of rules for each kind.                          *)
(***************************************************************************)

\* An entity that is always there.  The fields:
\*   perm      a permission of the session is needed
\*   pkg       a package: "any"; "notNo", not known to be missing; "yes"
\*   option    the default of the option it takes, or "none"
\*   seen      it is about something a poll lists
\*   adds      states of that thing that give it an entity
\*   marks     states in which its key is remembered
\*   key, id   one for all such things ("one") or one for each
\*   rescues   added again when the registry has lost it
\*   disabled  the default of the option when disabled features are removed
\*             from the registry, or "no"
\*   many      behaviours with two such things
\*   cleanup   why the platform removes it after a set-up
\*   device    the rule for devices that applies, if any
Static == [perm |-> FALSE, pkg |-> "any", option |-> "none", seen |-> FALSE,
           adds |-> {"full"}, marks |-> {"full"}, key |-> "each", id |-> "each",
           rescues |-> FALSE, disabled |-> "no", cleanup |-> {}, device |-> "no",
           many |-> FALSE]

PerThing == [Static EXCEPT !.seen = TRUE]
Permitted(k) == [k EXCEPT !.perm = TRUE]
Needs(k, pkg) == [k EXCEPT !.pkg = pkg]
\* The option's default in the platform; disabled: its unique id is one of those
\* _async_cleanup_disabled_features looks for.
Feature(k, default) == [k EXCEPT !.option = default, !.disabled = "off"]
Tracking(k) == [k EXCEPT !.option = "on", !.disabled = "on"]
Optional(k, default) == [k EXCEPT !.option = default]
OnDevice(k, rule) == [k EXCEPT !.device = rule]

\* switch.py
WpsSwitch == [Permitted(Static) EXCEPT !.rescues = TRUE]
RadioSwitch == [Permitted(PerThing) EXCEPT !.rescues = TRUE, !.cleanup = {"gone"}]
NetworkSwitch == RadioSwitch
ServiceSwitch == Feature(Permitted(PerThing), "on")
FirewallSwitch == Feature(Permitted(PerThing), "on")
AccessSwitch == [OnDevice(Tracking(Permitted(PerThing)), "access")
                    EXCEPT !.cleanup = {"wired", "untracked"}]
SqmSwitch == Feature(Needs(Permitted(PerThing), "notNo"), "on")
WireGuardSwitch == Feature(Permitted(PerThing), "on")
LedSwitch == Feature(Permitted(PerThing), "on")
PackageSwitch == Needs(Static, "yes")

\* number.py, light.py
TxPower == [Permitted(PerThing) EXCEPT !.cleanup = {"bare", "missing"}]
SqmLimit == [Needs(Permitted(PerThing), "notNo") EXCEPT !.disabled = "off"]
LedLight == Feature(Permitted(PerThing), "on")

\* button.py
StaticButton == Permitted(Static)
ServiceButton == Permitted(PerThing)
InterfaceButton == PerThing
WpsPushButton == Permitted(PerThing)
ExtraButton == Needs(Permitted(Static), "yes")
WolButton == [OnDevice(Tracking(Needs(PerThing, "notNo")), "wol")
                 EXCEPT !.cleanup = {"wireless"}]
KickButton == [OnDevice(Tracking(Needs(Permitted(PerThing), "notNo")), "kick")
                  EXCEPT !.adds = {"bare", "full"}, !.marks = {"bare", "full"},
                         !.cleanup = {"other"}]

\* sensor.py
SystemSensor == Static
LoadSensor == Feature(Static, "on")
StorageSensor == PerThing
PackageSensor == Needs(Static, "yes")
WireGuardCount == Optional(Needs(Permitted(PerThing), "notNo"), "on")
WireGuardPeer == Feature(Needs(Permitted(PerThing), "notNo"), "on")
\* Bug for the tests of the properties: the default of the platform is another
\* one than that of the removal, as it is for other features.
TailscaleDefaultsOn == Feature(Needs(Permitted(PerThing), "yes"), "on")

TailscaleSensor == Feature(Needs(Permitted(PerThing), "yes"), "off")
WifiSensor == [Needs(Permitted(PerThing), "notNo") EXCEPT !.rescues = TRUE]
InterfaceSensor == PerThing
AddressSensor == [PerThing EXCEPT !.marks = {"bare", "full"},
                                  !.cleanup = {"bare", "missing"}]
MwanMetric == PerThing
MwanSensor == Needs(Permitted(PerThing), "notNo")
QModemSensor == PerThing
SqmSensor == Feature(Needs(Permitted(PerThing), "notNo"), "on")
VpnSensor == Needs(Permitted(PerThing), "notNo")
LldpSensor == [PerThing EXCEPT !.id = "one", !.many = TRUE]
BatmanSensor == Needs(Permitted(PerThing), "yes")
DeviceSensor == [OnDevice(Optional(PerThing, "on"), "sensors")
                    EXCEPT !.cleanup = {"wired", "untracked"}]
\* With the option to track devices on, its default: the platform asks for it, the
\* removal asks for another one.
NlbwmonSensor == [OnDevice(Needs(PerThing, "yes"), "sensors") EXCEPT !.disabled = "off"]
TopHostsSensor == [Optional(Static, "data") EXCEPT !.cleanup = {"option"}]
SnortSensor == [Feature(Static, "data") EXCEPT !.cleanup = {"option"}]

\* binary_sensor.py
MwanOnline == Needs(PerThing, "notNo")
InterfaceUp == [PerThing EXCEPT !.cleanup = {"missing"}]
VpnUp == Optional(Needs(PerThing, "notNo"), "on")
WireGuardPeerActive == Optional(PerThing, "on")
TailscaleStatus == TailscaleSensor
TailscalePeer == [TailscaleSensor EXCEPT !.cleanup = {"gone"}]
ServiceRunning == Feature(Permitted(PerThing), "on")
BatmanActive == Needs(Static, "yes")

\* event.py, image.py, update.py
NewDevice == Optional(Permitted(Static), "on")
WifiQrImage == [PerThing EXCEPT !.key = "one", !.id = "one", !.many = TRUE]
FirmwareUpdate == Optional(Permitted(Static), "on")
PackageUpdate == PerThing

Table == [
    wpsSwitch |-> WpsSwitch, radioSwitch |-> RadioSwitch,
    networkSwitch |-> NetworkSwitch, serviceSwitch |-> ServiceSwitch,
    firewallSwitch |-> FirewallSwitch, accessSwitch |-> AccessSwitch,
    sqmSwitch |-> SqmSwitch, wireGuardSwitch |-> WireGuardSwitch,
    ledSwitch |-> LedSwitch, packageSwitch |-> PackageSwitch,
    txPower |-> TxPower, sqmLimit |-> SqmLimit, ledLight |-> LedLight,
    staticButton |-> StaticButton, serviceButton |-> ServiceButton,
    interfaceButton |-> InterfaceButton, wpsPushButton |-> WpsPushButton,
    extraButton |-> ExtraButton, wolButton |-> WolButton, kickButton |-> KickButton,
    systemSensor |-> SystemSensor, loadSensor |-> LoadSensor,
    storageSensor |-> StorageSensor, packageSensor |-> PackageSensor,
    wireGuardCount |-> WireGuardCount, wireGuardPeer |-> WireGuardPeer, tailscaleSensor |-> TailscaleSensor,
    wifiSensor |-> WifiSensor, interfaceSensor |-> InterfaceSensor,
    addressSensor |-> AddressSensor, mwanMetric |-> MwanMetric,
    mwanSensor |-> MwanSensor, qModemSensor |-> QModemSensor,
    sqmSensor |-> SqmSensor, vpnSensor |-> VpnSensor, lldpSensor |-> LldpSensor,
    batmanSensor |-> BatmanSensor, deviceSensor |-> DeviceSensor,
    nlbwmonSensor |-> NlbwmonSensor, topHostsSensor |-> TopHostsSensor,
    snortSensor |-> SnortSensor, mwanOnline |-> MwanOnline,
    interfaceUp |-> InterfaceUp, vpnUp |-> VpnUp,
    wireGuardPeerActive |-> WireGuardPeerActive,
    tailscaleStatus |-> TailscaleStatus, tailscalePeer |-> TailscalePeer,
    serviceRunning |-> ServiceRunning, batmanActive |-> BatmanActive,
    newDevice |-> NewDevice, wifiQrImage |-> WifiQrImage,
    firmwareUpdate |-> FirmwareUpdate, packageUpdate |-> PackageUpdate]

=============================================================================
