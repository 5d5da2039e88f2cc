------------------------- MODULE MC_DeviceTracking -------------------------
(***************************************************************************)
(* Instances of DeviceTracking for TLC: a gateway and an access point, in  *)
(* troubled times with the constants of the configuration, and in calm     *)
(* ones, when everything answers and nothing stays in a table that is not  *)
(* there.  Which it is is chosen at the start.                             *)
(***************************************************************************)
EXTENDS DeviceTracking

CONSTANTS gw, ap

VARIABLE calm

Calm == INSTANCE DeviceTracking
    WITH ArpWhenAway <- {"none"}, FdbSupported <- FALSE, MayFail <- FALSE,
         MaxRestarts <- 0, TrustBridgeFdb <- FALSE

timesVars == <<calm, vars>>

TimesInit == calm \in BOOLEAN /\ Init

TimesNext ==
    \/ ~calm /\ Next /\ UNCHANGED calm
    \/ calm /\ Calm!Next /\ UNCHANGED calm

TimesFairness ==
    /\ WF_timesVars(calm /\ Calm!Period /\ UNCHANGED calm)
    /\ \A e \in Entries : WF_timesVars(calm /\ Calm!Polls(e) /\ UNCHANGED calm)

TimesSpec == TimesInit /\ [][TimesNext]_timesVars /\ TimesFairness

\* In calm times a device that has left for good is shown as away in the end
\* (DeviceTracking).
CalmAwayInTheEnd == calm => AwayInTheEnd

=============================================================================
