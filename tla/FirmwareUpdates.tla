--------------------------- MODULE FirmwareUpdates ---------------------------
(***************************************************************************)
(* The checks for new firmware (coordinator/firmware.py) and the choice of *)
(* the image that async_install flashes (update.py, helpers/asu.py).       *)
(*                                                                         *)
(* A check is part of a poll and fills in fields of coordinator.data one   *)
(* query after the other: the aggregator hands every poll the same object, *)
(* so what a query does not overwrite stays.  An installation reads these  *)
(* fields after it has awaited its backup.                                 *)
(*                                                                         *)
(* Releases are numbers, 0 for none or unknown.  Those of the index, the   *)
(* image server and the repository only grow, and only Home Assistant      *)
(* upgrades the router.  Checksums and links are left out.                 *)
(***************************************************************************)
EXTENDS Integers

CONSTANTS
    Modes,          \* the kinds of check an entry may be set to
    Images,         \* for which board an image is: "own", "longer" (a board whose
                    \* name contains the name of this one), "other"
    MaxRelease,     \* bound: releases that appear
    MaxChecks,      \* bound: checks
    MaxInstalls     \* bound: installations

FirmwareConstants ==
    /\ Modes \subseteq {"stable", "snapshot", "custom"}
    /\ "own" \in Images /\ Images \subseteq {"own", "longer", "other"}
    /\ {MaxRelease, MaxChecks, MaxInstalls} \subseteq Nat \ {0}

VARIABLES
    mode,       \* release or snapshot on the router, or a custom repository
    textual,    \* the tags of the repository do not compare as numbers
    builder,    \* SSH, or luci-app-attendedsysupgrade is installed
    newest,     \* newest release of the index or the repository
    imaged,     \* newest release of the repository with a matching image
    built,      \* newest release the image server (ASU) builds
    running,    \* release the router runs
    info,       \* data.device_info
    offer,      \* the firmware fields of coordinator.data
    check,      \* what _check_firmware_update awaits
    found,      \* the release in its hands
    install,    \* what async_install awaits
    image,      \* the image it has chosen
    \* ghosts
    against,    \* the version upgradable was last computed for
    checks, installs

world == <<mode, textual, builder, newest, imaged, built>>
checking == <<info, offer, check, found, against, checks>>
installing == <<running, install, image, installs>>
vars == <<world, checking, installing>>

Releases == 0..MaxRelease
Files == [release: Releases, board: Images]
NoFile == [release |-> 0, board |-> "own"]

TypeOK ==
    /\ mode \in Modes
    /\ {textual, builder} \subseteq BOOLEAN
    /\ {newest, imaged, built, running, against} \subseteq Releases
    /\ info \in [release: Releases, board: BOOLEAN]
    /\ offer \in [current: Releases, named: BOOLEAN, latest: Releases,
                  upgradable: BOOLEAN, file: Files, supported: BOOLEAN,
                  available: BOOLEAN]
    /\ check \in {"no", "index", "profiles", "asu", "packages", "releases", "tags"}
    /\ found \in [release: Releases, boards: SUBSET Images]
    /\ install \in {"no", "backup", "build", "flashing"}
    /\ image \in [file: Files, latest: Releases, offered: BOOLEAN, against: Releases]
    /\ checks \in 0..MaxChecks /\ installs \in 0..MaxInstalls
    /\ mode # "custom" => offer.file.board = "own"

Init ==
    /\ mode \in Modes
    /\ textual \in {FALSE, mode = "custom"}
    /\ builder \in BOOLEAN
    /\ newest = 1 /\ built = 1 /\ running = 1
    /\ imaged = 0
    /\ info = [release |-> 1, board |-> TRUE]
    /\ offer = [current |-> 1, named |-> FALSE, latest |-> 0, upgradable |-> FALSE,
                file |-> NoFile, supported |-> FALSE, available |-> FALSE]
    /\ check = "no" /\ found = [release |-> 0, boards |-> {}]
    /\ install = "no"
    /\ image = [file |-> NoFile, latest |-> 0, offered |-> FALSE, against |-> 0]
    /\ against = 0 /\ checks = 0 /\ installs = 0

-----------------------------------------------------------------------------
(* A poll and the check in it. *)

\* What the slow tier knows of the router: read again, kept, or a reply without
\* the board or without anything.  (An empty one takes a snapshot for a release;
\* this is left out.)
DeviceInfos ==
    {info} \cup [release: {running}, board: BOOLEAN]
           \cup [release: {0} \ {r \in Releases : mode = "snapshot"}, board: {FALSE}]

\* The version is the router's own again, a tag found before is forgotten.
SyncFirmwareState(i) ==
    /\ info' = i
    /\ offer' = [offer EXCEPT !.current = i.release, !.named = FALSE]

Poll ==
    /\ check = "no"
    /\ \E i \in DeviceInfos : SyncFirmwareState(i)
    /\ UNCHANGED <<world, installing, check, found, against, checks>>

\* FIRMWARE_CHECK_INTERVAL is over.
CheckStart ==
    /\ check = "no"
    /\ checks < MaxChecks /\ checks' = checks + 1
    /\ \E i \in DeviceInfos : SyncFirmwareState(i)
    /\ check' = IF mode = "custom" THEN "releases" ELSE "index"
    /\ UNCHANGED <<world, installing, found, against>>

\* Bug for the tests of the properties: any other version is newer.
DiffersFrom(current, latest) == latest # current

\* version_is_newer of two numbered versions.
VersionIsNewer(current, latest) == latest > current

\* The ASU server is asked if the board is known.
AfterIndex == IF info.board THEN "asu" ELSE "no"

\* The query of the index failed.
IndexFails ==
    /\ check = "index"
    /\ check' = AfterIndex
    /\ UNCHANGED <<world, installing, info, offer, found, against, checks>>

\* The index of the stable releases.
StableIndexAnswers ==
    /\ check = "index" /\ mode = "stable"
    /\ LET newer == VersionIsNewer(info.release, newest)
       IN  /\ offer' = [offer EXCEPT !.latest = newest, !.upgradable = newer]
           /\ check' = IF newer /\ info.board THEN "profiles" ELSE AfterIndex
    /\ found' = [release |-> newest, boards |-> {}]
    /\ against' = info.release
    /\ UNCHANGED <<world, installing, info, checks>>

\* profiles.json of the release lists the board's image.
ProfilesAnswer ==
    /\ check = "profiles"
    /\ offer' = [offer EXCEPT !.file = [release |-> found.release, board |-> "own"]]
    /\ check' = "asu"
    /\ UNCHANGED <<world, installing, info, found, against, checks>>

\* It does not, or the query fails: a file name is made up, unless there is one.
ProfilesFail ==
    /\ check = "profiles"
    /\ offer' = IF offer.file = NoFile
                THEN [offer EXCEPT !.file = [release |-> found.release, board |-> "own"]]
                ELSE offer
    /\ check' = "asu"
    /\ UNCHANGED <<world, installing, info, found, against, checks>>

\* profiles.json of the snapshots, with or without the board.
SnapshotIndexAnswers ==
    /\ check = "index" /\ mode = "snapshot"
    /\ \E listed \in {FALSE, info.board} :
          offer' = [offer EXCEPT
                       !.latest = newest,
                       !.upgradable = VersionIsNewer(offer.current, newest),
                       !.file = IF listed THEN [release |-> newest, board |-> "own"]
                                ELSE offer.file]
    /\ against' = offer.current
    /\ check' = AfterIndex
    /\ UNCHANGED <<world, installing, info, found, checks>>

AsuFails ==
    /\ check = "asu"
    /\ check' = "no"
    /\ UNCHANGED <<world, installing, info, offer, found, against, checks>>

\* The ASU server knows the board; asu_update_available is never taken back.
AsuAnswers ==
    /\ check = "asu"
    /\ LET newer == VersionIsNewer(offer.current, built)
       IN  /\ offer' = [offer EXCEPT !.supported = TRUE,
                                     !.available = offer.available \/ newer]
           /\ check' = IF newer THEN "packages" ELSE "no"
    /\ found' = [release |-> built, boards |-> {}]
    /\ UNCHANGED <<world, installing, info, against, checks>>

\* The packages were read, or not; a release newer than the latest replaces it.
PackagesRead ==
    /\ check = "packages"
    /\ IF VersionIsNewer(offer.latest, found.release)
       THEN /\ offer' = [offer EXCEPT !.latest = found.release, !.upgradable = TRUE,
                                      !.file = NoFile]
            /\ against' = offer.current
       ELSE UNCHANGED <<offer, against>>
    /\ check' = "no"
    /\ UNCHANGED <<world, installing, info, found, checks>>

\* No answer, or no releases.
ReleasesFail ==
    /\ check = "releases"
    /\ check' = "no"
    /\ UNCHANGED <<world, installing, info, offer, found, against, checks>>

\* The name of the board is in the name of the file: the empty name in any.
Matching(boards) == IF info.board THEN boards \ {"other"} ELSE boards

\* The newest release with a matching image, else the newest.
ReleasesAnswer ==
    /\ check = "releases"
    /\ \E boards \in SUBSET Images :
          IF info.board /\ imaged # 0
          THEN /\ Matching(boards) # {}
               /\ found' = [release |-> imaged, boards |-> boards]
          ELSE /\ info.board => Matching(boards) = {}
               /\ found' = [release |-> newest, boards |-> boards]
    /\ check' = "tags"
    /\ UNCHANGED <<world, installing, info, offer, against, checks>>

\* The router's commit is that of a tag, or none is known; then the offer is made.
TagsAnswer ==
    /\ check = "tags"
    /\ \E named \in {offer.named, info.release # 0} :
          LET same == named /\ info.release = found.release
              newer == IF textual THEN ~same
                       ELSE VersionIsNewer(offer.current, found.release)
              made == [offer EXCEPT !.named = named, !.latest = found.release,
                                    !.upgradable = newer]
          IN  IF Matching(found.boards) = {} THEN offer' = made
              ELSE \E b \in Matching(found.boards) :
                      offer' = [made EXCEPT
                                   !.file = [release |-> found.release, board |-> b]]
    /\ against' = offer.current
    /\ check' = "no"
    /\ UNCHANGED <<world, installing, info, found, checks>>

-----------------------------------------------------------------------------
(* async_install. *)

CanInstall == offer.file # NoFile \/ (offer.supported /\ builder)

\* Home Assistant lets the user install what is offered.  Without CONF_AUTO_BACKUP
\* the next step follows at once.
InstallStart ==
    /\ install = "no"                   \* _in_progress
    /\ installs < MaxInstalls /\ installs' = installs + 1
    /\ offer.upgradable /\ offer.latest # 0 /\ CanInstall
    /\ install' = "backup"
    /\ UNCHANGED <<world, checking, running, image>>

\* The image is built on demand.
BuildOnDemand == offer.supported /\ offer.available

Chosen(file) ==
    image' = [file |-> file, latest |-> offer.latest, offered |-> offer.upgradable,
              against |-> against]

\* request_build of what is the latest version by now.
BuildRequested ==
    /\ install = "backup"
    /\ BuildOnDemand
    /\ offer.file # NoFile \/ builder
    /\ Chosen([release |-> offer.latest, board |-> "own"])
    /\ install' = "build"
    /\ UNCHANGED <<world, checking, running, installs>>

\* poll_build_status returned the image.
Built ==
    /\ install = "build"
    /\ image.file.release <= built
    /\ install' = "flashing"
    /\ UNCHANGED <<world, checking, running, image, installs>>

\* firmware_install_url as it is by now.
UrlTaken ==
    /\ install = "backup"
    /\ ~BuildOnDemand
    /\ offer.file # NoFile
    /\ Chosen(offer.file)
    /\ install' = "flashing"
    /\ UNCHANGED <<world, checking, running, installs>>

\* The router has flashed it and booted.
Flashed ==
    /\ install = "flashing"
    /\ running' = image.file.release
    /\ install' = "no"
    /\ UNCHANGED <<world, checking, image, installs>>

\* The backup, the checks after it, the build or the flash failed.
InstallFails ==
    /\ install # "no"
    /\ install' = "no"
    /\ UNCHANGED <<world, checking, running, image, installs>>

-----------------------------------------------------------------------------
(* The world. *)

\* A release of the project or the repository; the image server follows, or is
\* ahead of the index.
Released ==
    /\ newest < MaxRelease
    /\ newest' = newest + 1
    /\ UNCHANGED <<mode, textual, builder, imaged, built, checking, installing>>

ImageAdded ==
    /\ mode = "custom"
    /\ imaged < newest
    /\ imaged' \in (imaged + 1)..newest
    /\ UNCHANGED <<mode, textual, builder, newest, built, checking, installing>>

AsuUpdated ==
    /\ mode # "custom"
    /\ built < MaxRelease
    /\ built' = built + 1
    /\ UNCHANGED <<mode, textual, builder, newest, imaged, checking, installing>>

CheckStep ==
    \/ Poll \/ CheckStart \/ IndexFails \/ StableIndexAnswers \/ ProfilesAnswer
    \/ ProfilesFail \/ SnapshotIndexAnswers \/ AsuFails \/ AsuAnswers
    \/ PackagesRead \/ ReleasesFail \/ ReleasesAnswer \/ TagsAnswer

InstallStep ==
    \/ InstallStart \/ BuildRequested \/ Built \/ UrlTaken \/ Flashed
    \/ InstallFails

Next ==
    \/ CheckStep \/ InstallStep
    \/ Released \/ ImageAdded \/ AsuUpdated

Spec == Init /\ [][Next]_vars

-----------------------------------------------------------------------------
(* An image older than what the router runs is never flashed, whichever    *)
(* queries of the checks fail and leave an older file name behind, and     *)
(* wherever a check falls beside an installation.  Four ways around this   *)
(* are in the code and excepted: tags that are no numbers are compared for *)
(* being different; the offer was withdrawn during the backup, after which *)
(* async_install does not look again; the check took the router to run     *)
(* something else (device_info is up to fifteen minutes old, or empty);    *)
(* and in a custom repository the file may be that of an earlier release   *)
(* than the one shown.                                                     *)
OnlyUpgrades ==
    [][running' < running =>
          \/ textual \/ ~image.offered \/ image.against # running
          \/ mode = "custom" /\ image.file.release # image.latest]_vars

(* "It automatically scans the release assets for a sysupgrade.bin file    *)
(* matching your router's target and board name" (README.md:861).          *)
ImageForThisBoard == offer.file.board = "own"

=============================================================================
