---------------------------- MODULE Flows_proofs ----------------------------
(***************************************************************************)
(* Proofs about the dialogs: any number of wizards (setup, discovery,      *)
(* reauthentication, reconfiguration) beside one options dialog and the    *)
(* removal of entries, for any entries, addresses and passwords.           *)
(*                                                                         *)
(* Where a wizard stands decides what it must know by then: an address, a  *)
(* login that succeeded with the credentials it holds, a unique id that no *)
(* entry has.  The last of the three is what others can take away, and     *)
(* they do so only by making an entry of it, which aborts the wizard.      *)
(***************************************************************************)
EXTENDS MC_OptionsFlow, TLAPS

\* Where a wizard may stand without the address of a router.
Unlocated == {"none", "user", "scanning", "select_device", "manual_entry",
              "confirm_discovery"}

\* Where a wizard stands after a login that succeeded and after its unique id
\* was checked.
PastForms == {"provision_user", "reuse_user", "provisioning", "provision_failed",
              "display_new_user", "permissions", "ubus_restricted", "packages",
              "selective_tracking", "repair_success"} \cup Ending

\* The tests of the user homeassistant, which follow the first login.
UserTests == {"reuse_user", "display_new_user"}

\* What a login proves.
Triple(r) == [host |-> r.host, user |-> r.user, pw |-> r.pw]

\* The credentials a wizard holds are those it has last logged in with, or the
\* new user's, with which ten tests have failed.
HasLoggedIn(r) == r.proved = Triple(r) \/ (r.gaveUp # 0 /\ r.gaveUp = r.pw)

\* Whether all addresses lead to one router, and its MAC address can be read.
OneRouterOnly == (\A g, h \in Hosts : RouterAt[g] = RouterAt[h]) /\ ~MacMissing

\* With one router, a unique id that was read from it names it at every
\* address.
Names(id) == OneRouterOnly => \A h \in Hosts : id = RouterAt[h]

\* A wizard that will make an entry has a unique id that no entry has.
Owns(r) ==
    /\ r.live /\ r.source # "reconfigure" => ~AlreadyConfigured(r.unique)
    /\ Names(r.unique)

\* What a wizard must know to stand at a form, or to await anything but a test.
Allowed(r, step) ==
    /\ step \notin Unlocated => r.host \in Hosts
    /\ step \in {"provisioning", "display_new_user"} => r.generated # 0
    /\ step \in PastForms => HasLoggedIn(r) /\ Owns(r)

\* What a wizard must know to await a connection test: the test is of the
\* credentials it holds, but for that of an existing user, which tries a copy.
Tests(r) ==
    /\ r.host \in Hosts
    /\ r.caller # "none"
    /\ r.caller = "reuse_user" => HasLoggedIn(r)
    /\ r.caller = "display_new_user" => r.pw # 0
    /\ r.caller # "reuse_user" => r.tried = [user |-> r.user, pw |-> r.pw]
    /\ r.caller \in UserTests => Owns(r)

\* A wizard that has been aborted is gone as soon as what it awaits is over.
Sound(r) ==
    /\ r \in FlowRecord
    /\ r.live \/ r.step \in Awaits
    /\ IF r.step = "testing" THEN Tests(r) ELSE Allowed(r, r.step)

\* The routers, as ConfigTypeOK types them.
WorldTyped ==
    /\ password \in [Routers -> [Users -> Passwords]]
    /\ fresh \in 3..(MaxPassword + 1)
    /\ deployed \in [Routers -> Settings \cup {"broken"}]

\* An entry has an address, and no two entries have the same unique id.
EntriesSound ==
    /\ entries \in [Entries -> EntryRecord]
    /\ \A e \in Entries : Exists(e) => entries[e].host \in Hosts /\ Names(entries[e].unique)
    /\ \A d, e \in Entries :
          Exists(d) /\ Exists(e) /\ entries[d].unique = entries[e].unique => d = e

FlowsSound == flow \in [Flows -> FlowRecord] /\ \A f \in Flows : Sound(flow[f])

\* The wizards' part of the inductive invariant.
ConfigIInv == WorldTyped /\ EntriesSound /\ FlowsSound

\* What CredentialsProved says of one step.
CredentialsStep ==
    \A e \in Entries :
        LET new == entries'[e]
        IN <<new.user, new.pw>> # <<entries[e].user, entries[e].pw>> /\ new # NoEntry
           => \/ Valid(new.host, new.user, new.pw)
              \/ \E f \in Flows :
                    \/ flow[f].proved = [host |-> new.host, user |-> new.user,
                                         pw |-> new.pw]
                    \/ flow[f].gaveUp # 0 /\ flow[f].gaveUp = new.pw

\* What a step of a wizard does: it keeps the invariant, it stores only
\* credentials that were proved, no entry disappears, and the presence settings
\* of the entries change only in a step that the wizard itself ends with.
StepSound ==
    /\ ConfigIInv'
    /\ \A e \in Entries : entries[e].host \in Hosts => entries'[e].host \in Hosts
    /\ OneRouterOnly => CredentialsStep
    /\ flow' = flow => \A e \in Entries : entries'[e].mqtt = entries[e].mqtt

-----------------------------------------------------------------------------
\* The records of the wizards.

\* One field of a wizard's record set to a value of its kind.
LEMMA Written ==
    ASSUME NEW r \in FlowRecord
    PROVE  /\ \A v \in Sources : [r EXCEPT !.source = v] \in FlowRecord
           /\ \A v \in {"none"} \cup Entries : [r EXCEPT !.entry = v] \in FlowRecord
           /\ \A v \in UniqueIds : [r EXCEPT !.unique = v] \in FlowRecord
           /\ \A v \in {"none"} \cup Hosts : [r EXCEPT !.host = v] \in FlowRecord
           /\ \A v \in Users : [r EXCEPT !.user = v] \in FlowRecord
           /\ \A v \in Passwords : [r EXCEPT !.pw = v] \in FlowRecord
           /\ \A v \in Passwords : [r EXCEPT !.generated = v] \in FlowRecord
           /\ \A v \in {"none"} \cup Conns : [r EXCEPT !.conn = v] \in FlowRecord
           /\ \A v \in Settings : [r EXCEPT !.mqtt = v] \in FlowRecord
           /\ \A v \in BOOLEAN : /\ [r EXCEPT !.exists = v] \in FlowRecord
                                  /\ [r EXCEPT !.pkgs = v] \in FlowRecord
                                  /\ [r EXCEPT !.restricted = v] \in FlowRecord
<1>1. \A v \in Users : [r EXCEPT !.user = v] \in FlowRecord
  BY DEF FlowRecord
<1>2. \A v \in Passwords : [r EXCEPT !.pw = v] \in FlowRecord
  BY DEF FlowRecord
<1>3. \A v \in Passwords : [r EXCEPT !.generated = v] \in FlowRecord
  BY DEF FlowRecord
<1>4. \A v \in {"none"} \cup Conns : [r EXCEPT !.conn = v] \in FlowRecord
  BY DEF FlowRecord
<1>5. \A v \in Settings : [r EXCEPT !.mqtt = v] \in FlowRecord
  BY DEF FlowRecord
<1>6. \A v \in BOOLEAN : [r EXCEPT !.exists = v] \in FlowRecord
  BY DEF FlowRecord
<1>7. \A v \in BOOLEAN : [r EXCEPT !.pkgs = v] \in FlowRecord
  BY DEF FlowRecord
<1>8. \A v \in BOOLEAN : [r EXCEPT !.restricted = v] \in FlowRecord
  BY DEF FlowRecord
<1>9. \A v \in Sources : [r EXCEPT !.source = v] \in FlowRecord
  BY DEF FlowRecord
<1>10. \A v \in {"none"} \cup Entries : [r EXCEPT !.entry = v] \in FlowRecord
  BY DEF FlowRecord
<1>11. \A v \in UniqueIds : [r EXCEPT !.unique = v] \in FlowRecord
  BY DEF FlowRecord
<1>12. \A v \in {"none"} \cup Hosts : [r EXCEPT !.host = v] \in FlowRecord
  BY DEF FlowRecord
<1> QED BY <1>1, <1>2, <1>3, <1>4, <1>5, <1>6, <1>7, <1>8, <1>9, <1>10, <1>11, <1>12

\* What a wizard's record forgets when it moves (Tidy) touches nothing that its
\* place needs.
LEMMA TidySound ==
    ASSUME NEW r \in FlowRecord
    PROVE  /\ Tidy(r) \in FlowRecord
           /\ Tidy(r).step = r.step /\ Tidy(r).caller = r.caller
           /\ Tidy(r).live = r.live /\ Tidy(r).source = r.source
           /\ Tidy(r).unique = r.unique /\ Tidy(r).host = r.host
           /\ Tidy(r).tried = r.tried /\ Tidy(r).gaveUp = r.gaveUp
           /\ r.step \notin Asking => Tidy(r).user = r.user /\ Tidy(r).pw = r.pw
           /\ r.step \notin Asking /\ r.proved = [host |-> r.host, user |-> r.user, pw |-> r.pw]
              => Tidy(r).proved = r.proved
           /\ r.step \notin Ending => Tidy(r).generated = r.generated
<1> DEFINE new == IF r.proved = [host |-> r.host, user |-> r.user, pw |-> r.pw]
               THEN r ELSE [r EXCEPT !.proved = Blank.proved]
<1>0. Blank.proved \in [host : {"none"} \cup Hosts, user : Users, pw : Passwords]
  BY FlowConstants DEF Blank, Users, Passwords
<1>1. /\ new \in FlowRecord
      /\ new = [r EXCEPT !.proved = new.proved]
      /\ r.proved = [host |-> r.host, user |-> r.user, pw |-> r.pw] => new.proved = r.proved
  <2> HIDE DEF new
  <2> QED BY <1>0 DEF FlowRecord, new
<1> DEFINE no == FALSE
           asked == [new EXCEPT !.user = "root", !.pw = 0, !.exists = no]
           forgotten == [new EXCEPT !.exists = no]
           ended == [new EXCEPT !.exists = no, !.pkgs = no, !.restricted = no,
                                !.generated = 0, !.conn = "none"]
<1>2. Tidy(r) = IF r.step \in Asking THEN asked
                ELSE IF \/ r.step \in Repairing
                        \/ /\ r.step = "testing"
                           /\ r.caller \in {"credentials", "ssh", "run_repair"}
                THEN forgotten
                ELSE IF r.step \in Ending THEN ended ELSE new
  BY DEF Tidy, Asking, Repairing, Ending
<1>3. no \in BOOLEAN /\ "root" \in Users /\ 0 \in Passwords
  BY FlowConstants DEF Users, Passwords
<1> HIDE DEF new, no
<1>4. asked \in FlowRecord /\ forgotten \in FlowRecord /\ ended \in FlowRecord
  <2>1. forgotten \in FlowRecord
    BY <1>1, <1>3, Written
  <2>2. asked \in FlowRecord
    <3> DEFINE a == [new EXCEPT !.user = "root"]
               b == [a EXCEPT !.pw = 0]
    <3>1. asked = [b EXCEPT !.exists = no]
      BY <1>1 DEF FlowRecord
    <3>2. a \in FlowRecord
      BY <1>1, <1>3, Written
    <3> HIDE DEF a
    <3>3. b \in FlowRecord
      BY <1>3, <3>2, Written
    <3> HIDE DEF b
    <3> QED BY <1>3, <3>1, <3>3, Written
  <2>3. ended \in FlowRecord
    <3> DEFINE a == [new EXCEPT !.exists = no]
               b == [a EXCEPT !.pkgs = no]
               c == [b EXCEPT !.restricted = no]
               d == [c EXCEPT !.generated = 0]
    <3>1. ended = [d EXCEPT !.conn = "none"]
      BY <1>1 DEF FlowRecord
    <3>2. a \in FlowRecord
      BY <1>1, <1>3, Written
    <3> HIDE DEF a
    <3>3. b \in FlowRecord
      BY <1>3, <3>2, Written
    <3> HIDE DEF b
    <3>4. c \in FlowRecord
      BY <1>3, <3>3, Written
    <3> HIDE DEF c
    <3>5. d \in FlowRecord
      BY <1>3, <3>4, Written
    <3> HIDE DEF d
    <3> QED BY <3>1, <3>5, Written
  <2> QED BY <2>1, <2>2, <2>3
<1> DEFINE Same(t) == /\ t.step = r.step /\ t.caller = r.caller
                      /\ t.live = r.live /\ t.source = r.source
                      /\ t.unique = r.unique /\ t.host = r.host
                      /\ t.tried = r.tried /\ t.gaveUp = r.gaveUp /\ t.proved = new.proved
<1>5. Same(new) /\ new.user = r.user /\ new.pw = r.pw /\ new.generated = r.generated
  BY <1>1 DEF FlowRecord
<1>6. Same(asked) /\ asked.generated = r.generated
  BY <1>1, <1>5 DEF FlowRecord
<1>7. /\ Same(forgotten) /\ forgotten.user = r.user /\ forgotten.pw = r.pw
      /\ forgotten.generated = r.generated
  BY <1>1, <1>5 DEF FlowRecord
<1>8. Same(ended) /\ ended.user = r.user /\ ended.pw = r.pw
  BY <1>1, <1>5 DEF FlowRecord
<1> HIDE DEF asked, forgotten, ended
<1>9. CASE r.step \in Asking
  BY <1>9, <1>1, <1>2, <1>4, <1>6
<1>10. CASE r.step \notin Asking
  BY <1>10, <1>1, <1>2, <1>4, <1>5, <1>7, <1>8
<1> QED BY <1>9, <1>10

\* A record that no wizard uses is sound.
LEMMA BlankSound ==
    /\ Blank \in FlowRecord /\ Blank.live /\ Blank.step = "none"
    /\ Blank.proved \in [host : {"none"} \cup Hosts, user : Users, pw : Passwords]
    /\ Blank.tried \in [user : Users, pw : Passwords]
    /\ Sound(Blank)
<1> DEFINE no == FALSE
           yes == TRUE
           tried == [user |-> "root", pw |-> 0]
           proved == [host |-> "none", user |-> "root", pw |-> 0]
           blank == [source |-> "user", step |-> "none", live |-> yes, unique |-> "none",
     entry |-> "none", found |-> {}, host |-> "none", conn |-> "none",
     user |-> "root", pw |-> 0, mqtt |-> "off",
     caller |-> "none", tried |-> tried,
     exists |-> no, perms |-> "none", pkgs |-> no,
     restricted |-> no, generated |-> 0,
     proved |-> proved, gaveUp |-> 0]
<1>1. Blank = blank
  BY DEF Blank
<1>2. tried \in [user : Users, pw : Passwords]
      /\ proved \in [host : {"none"} \cup Hosts, user : Users, pw : Passwords]
      /\ no \in BOOLEAN /\ yes \in BOOLEAN /\ yes /\ 0 \in Passwords
  BY FlowConstants DEF Users, Passwords
<1> HIDE DEF no, yes, tried, proved
<1>3. blank \in FlowRecord
  BY <1>2 DEF FlowRecord, Sources, UniqueIds, Users, Settings, Forms
<1>4. blank.live = yes /\ blank.step = "none" /\ blank.proved = proved /\ blank.tried = tried
  OBVIOUS
<1> HIDE DEF blank
<1>5. Sound(blank)
  BY <1>2, <1>3, <1>4 DEF Sound, Allowed, Unlocated, PastForms, Ending
<1> QED BY <1>1, <1>2, <1>3, <1>4, <1>5

\* Forgetting keeps a record sound.
LEMMA TidyKeeps ==
    ASSUME NEW r, Sound(r)
    PROVE  Sound(Tidy(r))
<1>1. r \in FlowRecord
  BY DEF Sound
<1> DEFINE t == Tidy(r)
<1>2. /\ t \in FlowRecord
      /\ t.step = r.step /\ t.caller = r.caller
      /\ t.live = r.live /\ t.source = r.source
      /\ t.unique = r.unique /\ t.host = r.host
      /\ t.tried = r.tried /\ t.gaveUp = r.gaveUp
      /\ r.step \notin Asking => t.user = r.user /\ t.pw = r.pw
      /\ r.step \notin Asking /\ r.proved = Triple(r) => t.proved = r.proved
      /\ r.step \notin Ending => t.generated = r.generated
  BY <1>1, TidySound DEF Triple
<1> HIDE DEF t
<1>3. Owns(r) => Owns(t)
  BY <1>2 DEF Owns
<1>4. r.step \notin Asking /\ HasLoggedIn(r) => HasLoggedIn(t)
  BY <1>2 DEF HasLoggedIn, Triple
<1>5. CASE r.step = "testing"
  <2>1. Tests(t)
    BY <1>2, <1>3, <1>4, <1>5 DEF Sound, Tests, Asking
  <2> QED BY <2>1, <1>2, <1>5 DEF Sound, t
<1>6. CASE r.step # "testing"
  <2>1. Allowed(r, r.step)
    BY <1>6 DEF Sound
  <2>2. r.step \in PastForms => r.step \notin Asking
    BY DEF PastForms, Asking, Ending
  <2>3. r.step \in {"provisioning", "display_new_user"} => r.step \notin Ending
    BY DEF Ending
  <2>4. Allowed(t, t.step)
    BY <2>1, <2>2, <2>3, <1>2, <1>3, <1>4 DEF Allowed
  <2> QED BY <2>4, <1>2, <1>6 DEF Sound, t
<1> QED BY <1>5, <1>6

\* A wizard that is aborted (async_abort) is sound: what it awaits goes on.
LEMMA AbortedSound ==
    ASSUME NEW r, Sound(r)
    PROVE  Sound(Aborted(r)) /\ ~(Aborted(r).live /\ Aborted(r).step # "none")
<1> DEFINE no == FALSE
           a == [r EXCEPT !.live = no]
<1>1. r \in FlowRecord /\ no \in BOOLEAN /\ ~no
  BY DEF Sound
<1> HIDE DEF no
<1>2. a \in FlowRecord /\ a = [a EXCEPT !.live = no] /\ a.live = no
  BY <1>1 DEF FlowRecord
<1>3. /\ a.step = r.step /\ a.caller = r.caller /\ a.source = r.source /\ a.unique = r.unique
      /\ a.host = r.host /\ a.user = r.user /\ a.pw = r.pw /\ a.tried = r.tried
      /\ a.gaveUp = r.gaveUp /\ a.proved = r.proved /\ a.generated = r.generated
  BY <1>1 DEF FlowRecord
<1>4. Aborted(r) = IF r.step \in {"provisioning", "deploying"}
                      \/ (r.step = "testing" /\ r.caller = "reauth_confirm")
                   THEN a ELSE Blank
  BY DEF Aborted, no
<1> HIDE DEF a
<1>5. Owns(r) => Owns(a)
  BY <1>1, <1>2, <1>3 DEF Owns
<1>6. HasLoggedIn(r) <=> HasLoggedIn(a)
  BY <1>3 DEF HasLoggedIn, Triple
<1>7. r.step \in Awaits => Sound(a)
  BY <1>2, <1>3, <1>5, <1>6 DEF Sound, Tests, Allowed
<1> QED BY <1>1, <1>2, <1>4, <1>7, BlankSound DEF Awaits

\* A wizard that knows what a place needs may stand there.
LEMMA StepSoundRecord ==
    ASSUME NEW r \in FlowRecord, NEW step \in Forms \cup Awaits,
           step # "testing", r.live \/ step \in Awaits, Allowed(r, step)
    PROVE  Sound([r EXCEPT !.step = step])
<1> DEFINE t == [r EXCEPT !.step = step]
<1>1. t \in FlowRecord
  BY DEF FlowRecord
<1>2. /\ t.step = step /\ t.live = r.live /\ t.source = r.source /\ t.unique = r.unique
      /\ t.host = r.host /\ t.user = r.user /\ t.pw = r.pw
      /\ t.gaveUp = r.gaveUp /\ t.proved = r.proved /\ t.generated = r.generated
  BY DEF FlowRecord
<1> HIDE DEF t
<1>3. Owns(r) => Owns(t)
  BY <1>2 DEF Owns
<1>4. HasLoggedIn(r) => HasLoggedIn(t)
  BY <1>2 DEF HasLoggedIn, Triple
<1>5. Allowed(t, step)
  BY <1>2, <1>3, <1>4 DEF Allowed
<1>6. Sound(t)
  BY <1>1, <1>2, <1>5 DEF Sound
<1> QED BY <1>6 DEF t

\* The next form of a wizard, or none when it was aborted meanwhile.
LEMMA ShowSound ==
    ASSUME NEW r \in FlowRecord, NEW step \in Forms, r.live => Allowed(r, step)
    PROVE  Sound(Show(r, step))
<1>1. CASE ~r.live
  BY <1>1, BlankSound DEF Show
<1>2. CASE r.live
  <2> DEFINE t == [r EXCEPT !.caller = "none", !.tried = Blank.tried]
  <2>1. t \in FlowRecord
    BY BlankSound DEF FlowRecord
  <2>2. /\ t.live = r.live /\ t.source = r.source /\ t.unique = r.unique
        /\ t.host = r.host /\ t.user = r.user /\ t.pw = r.pw
        /\ t.gaveUp = r.gaveUp /\ t.proved = r.proved /\ t.generated = r.generated
    BY BlankSound DEF FlowRecord
  <2>3. Show(r, step) = [t EXCEPT !.step = step]
    BY <1>2 DEF Show, FlowRecord
  <2> HIDE DEF t
  <2>4. Owns(r) => Owns(t)
    BY <2>2 DEF Owns
  <2>5. HasLoggedIn(r) => HasLoggedIn(t)
    BY <2>2 DEF HasLoggedIn, Triple
  <2>6. Allowed(t, step)
    BY <1>2, <2>2, <2>4, <2>5 DEF Allowed
  <2>7. step # "testing"
    BY DEF Forms
  <2> QED BY <1>2, <2>1, <2>2, <2>3, <2>6, <2>7, StepSoundRecord
<1> QED BY <1>1, <1>2

\* A wizard that starts a connection test with what that test needs.
LEMMA TestingSound ==
    ASSUME NEW r \in FlowRecord,
           NEW caller \in {"credentials", "ssh", "reuse_user", "display_new_user",
                           "reauth_confirm", "run_repair"},
           NEW user \in Users, NEW pw \in Passwords,
           r.host \in Hosts,
           caller = "reuse_user" => HasLoggedIn(r),
           caller = "display_new_user" => pw # 0,
           caller # "reuse_user" => user = r.user /\ pw = r.pw,
           caller \in UserTests => Owns(r)
    PROVE  Sound(Testing(r, caller, user, pw))
<1> DEFINE tried == [user |-> user, pw |-> pw]
           t == [r EXCEPT !.step = "testing", !.caller = caller, !.tried = tried]
<1>1. tried \in [user : Users, pw : Passwords] /\ tried.user = user /\ tried.pw = pw
  OBVIOUS
<1>2. Testing(r, caller, user, pw) = t
  BY DEF Testing
<1> HIDE DEF tried
<1>3. t \in FlowRecord
  <2>1. "testing" \in {"none"} \cup Forms \cup Awaits
    BY DEF Awaits
  <2> DEFINE s == [r EXCEPT !.tried = tried]
             c == [s EXCEPT !.caller = caller]
  <2>2. t = [c EXCEPT !.step = "testing"]
    BY DEF FlowRecord
  <2>3. s \in FlowRecord
    BY <1>1 DEF FlowRecord
  <2> HIDE DEF s
  <2>4. c \in FlowRecord
    BY <2>3 DEF FlowRecord
  <2> HIDE DEF c
  <2> QED BY <2>1, <2>2, <2>4 DEF FlowRecord
<1>4. /\ t.step = "testing" /\ t.caller = caller /\ t.tried = tried
      /\ t.live = r.live /\ t.source = r.source /\ t.unique = r.unique
      /\ t.host = r.host /\ t.user = r.user /\ t.pw = r.pw
      /\ t.gaveUp = r.gaveUp /\ t.proved = r.proved
  BY DEF FlowRecord
<1> HIDE DEF t
<1>5. Owns(r) => Owns(t)
  BY <1>4 DEF Owns
<1>6. HasLoggedIn(r) => HasLoggedIn(t)
  BY <1>4 DEF HasLoggedIn, Triple
<1>7. Tests(t)
  BY <1>4, <1>5, <1>6 DEF Tests, tried
<1>8. Sound(t)
  BY <1>3, <1>4, <1>7 DEF Sound, Awaits
<1> QED BY <1>2, <1>8

-----------------------------------------------------------------------------
\* Steps of one wizard among the others.

\* Wizards that keep their unique ids stay sound as long as no entry takes an
\* id from one that lives.
LEMMA FlowsLater ==
    ASSUME flow' \in [Flows -> FlowRecord],
           \A g \in Flows : Sound(flow'[g]),
           \A g \in Flows : /\ flow'[g].step # "none" /\ flow'[g].live
                            /\ ~AlreadyConfigured(flow'[g].unique)
                            => ~AlreadyConfigured(flow[g].unique)'
    PROVE  FlowsSound'
<1> SUFFICES ASSUME NEW g \in Flows
             PROVE  Sound(flow[g])'
  BY DEF FlowsSound
<1> DEFINE s == flow'[g]
<1>1. Sound(s)
  OBVIOUS
<1>2. s.step # "none" => (Owns(s) => Owns(flow[g])')
  BY DEF Owns, Names, OneRouterOnly
<1>3. HasLoggedIn(s) => HasLoggedIn(flow[g])'
  BY DEF HasLoggedIn, Triple
<1>4. Tests(s) /\ s.step = "testing" => Tests(flow[g])'
  BY <1>2, <1>3 DEF Tests
<1>5. Allowed(s, s.step) => Allowed(flow[g], flow[g].step)'
  BY <1>2, <1>3 DEF Allowed, PastForms, Ending
<1> QED BY <1>1, <1>4, <1>5 DEF Sound

\* A step of one wizard, when no entry takes a new id.
LEMMA GoesKeepsFlows ==
    ASSUME ConfigIInv, NEW f \in Flows, NEW r, Sound(r), Goes(f, r),
           \A id : ~AlreadyConfigured(id) => ~AlreadyConfigured(id)'
    PROVE  FlowsSound'
<1>1. Sound(Tidy(r)) /\ Tidy(r) \in FlowRecord
  BY TidyKeeps DEF Sound
<1>2. flow' \in [Flows -> FlowRecord]
  BY <1>1 DEF ConfigIInv, FlowsSound, Goes
<1>3. ASSUME NEW g \in Flows PROVE Sound(flow'[g])
  <2>1. flow'[g] = IF g = f THEN Tidy(r) ELSE flow[g]
    BY DEF Goes, ConfigIInv, FlowsSound
  <2> QED BY <1>1, <2>1 DEF ConfigIInv, FlowsSound
<1>4. ASSUME NEW g \in Flows, ~AlreadyConfigured(flow'[g].unique)
      PROVE  ~AlreadyConfigured(flow[g].unique)'
  BY <1>4 DEF AlreadyConfigured, Exists
<1> QED BY <1>2, <1>3, <1>4, FlowsLater

\* A step of one wizard that leaves the entries alone.
LEMMA MoveKeeps ==
    ASSUME ConfigIInv, NEW f \in Flows, NEW r, Sound(r), Goes(f, r),
           UNCHANGED entries, WorldTyped'
    PROVE  StepSound
<1>1. EntriesSound'
  BY DEF ConfigIInv, EntriesSound, Exists, Names, OneRouterOnly
<1>2. \A id : ~AlreadyConfigured(id) => ~AlreadyConfigured(id)'
  BY DEF AlreadyConfigured, Exists
<1>3. FlowsSound'
  BY <1>2, GoesKeepsFlows
<1>4. CredentialsStep
  BY DEF CredentialsStep
<1> QED BY <1>1, <1>3, <1>4 DEF StepSound, ConfigIInv

\* The routers are as they were.
LEMMA StillWorld == ConfigIInv /\ UNCHANGED router => WorldTyped'
  BY DEF ConfigIInv, WorldTyped, router

\* What the invariant says of one wizard.
LEMMA OfFlow ==
    ASSUME ConfigIInv, NEW f \in Flows
    PROVE  Sound(flow[f]) /\ flow[f] \in FlowRecord
  BY DEF ConfigIInv, FlowsSound, Sound

\* To a form or an await whose needs are met.
LEMMA StepKeeps ==
    ASSUME ConfigIInv, NEW f \in Flows, NEW r \in FlowRecord,
           NEW step \in Forms \cup Awaits, step # "testing", r.live, Allowed(r, step),
           Goes(f, [r EXCEPT !.step = step]), UNCHANGED <<entries, router>>
    PROVE  StepSound
  BY StepSoundRecord, MoveKeeps, StillWorld

\* To a form, unless the wizard was aborted meanwhile.
LEMMA ShowKeeps ==
    ASSUME ConfigIInv, NEW f \in Flows, NEW r \in FlowRecord,
           NEW step \in Forms, r.live => Allowed(r, step),
           Goes(f, Show(r, step)), UNCHANGED <<entries, router>>
    PROVE  StepSound
  BY ShowSound, MoveKeeps, StillWorld

\* A wizard that ends.
LEMMA BlankKeeps ==
    ASSUME ConfigIInv, NEW f \in Flows, Goes(f, Blank), UNCHANGED <<entries, router>>
    PROVE  StepSound
  BY BlankSound, MoveKeeps, StillWorld

-----------------------------------------------------------------------------
\* The starts.

\* async_step_user
LEMMA StartUserKeeps ==
    ASSUME ConfigIInv, NEW f \in Flows, StartUser(f)
    PROVE  StepSound
<1>1. Allowed(Blank, "user")
  BY DEF Allowed, Unlocated, PastForms, Ending
<1> QED BY <1>1, BlankSound, StepKeeps DEF StartUser, Forms

\* async_step_reconfigure: it knows its entry's address, and has yet to log in.
LEMMA StartReconfigureKeeps ==
    ASSUME ConfigIInv, NEW f \in Flows, NEW e \in Entries, StartReconfigure(f, e)
    PROVE  StepSound
<1> DEFINE r == [Blank EXCEPT !.source = "reconfigure", !.entry = e,
                             !.host = entries[e].host, !.user = entries[e].user,
                             !.pw = entries[e].pw, !.mqtt = entries[e].mqtt]
<1>1. entries[e] \in EntryRecord
  BY DEF ConfigIInv, EntriesSound
<1>2. r \in FlowRecord /\ r.live
  <2>1. /\ entries[e].unique \in UniqueIds /\ entries[e].host \in {"none"} \cup Hosts
        /\ entries[e].user \in Users /\ entries[e].pw \in Passwords
        /\ entries[e].mqtt \in Settings /\ "reconfigure" \in Sources
    BY <1>1 DEF EntryRecord, Sources
  <2> DEFINE a == [Blank EXCEPT !.source = "reconfigure"]
             b == [a EXCEPT !.entry = e]
             c == [b EXCEPT !.host = entries[e].host]
             d == [c EXCEPT !.user = entries[e].user]
             x == [d EXCEPT !.pw = entries[e].pw]
  <2>2. r = [x EXCEPT !.mqtt = entries[e].mqtt] /\ r.live = Blank.live
        /\ r.host = entries[e].host
    BY BlankSound DEF FlowRecord
  <2>3. a \in FlowRecord
    BY <2>1, BlankSound, Written
  <2> HIDE DEF a
  <2>4. b \in FlowRecord
    BY <2>3, Written
  <2> HIDE DEF b
  <2>5. c \in FlowRecord
    BY <2>1, <2>4, Written
  <2> HIDE DEF c
  <2>6. d \in FlowRecord
    BY <2>1, <2>5, Written
  <2> HIDE DEF d
  <2>7. x \in FlowRecord
    BY <2>1, <2>6, Written
  <2> HIDE DEF x
  <2> QED BY <1>1, <2>1, <2>2, <2>7, BlankSound, Written
<1>3. Allowed(r, "manual_entry")
  BY DEF Allowed, Unlocated, PastForms, Ending
<1>4. [Blank EXCEPT !.source = "reconfigure", !.entry = e,
                             !.host = entries[e].host, !.user = entries[e].user,
                             !.pw = entries[e].pw, !.mqtt = entries[e].mqtt,
                             !.step = "manual_entry"] = [r EXCEPT !.step = "manual_entry"]
  BY BlankSound DEF FlowRecord
<1>5. Goes(f, [r EXCEPT !.step = "manual_entry"]) /\ UNCHANGED <<entries, router>>
  BY <1>4 DEF StartReconfigure
<1> HIDE DEF r
<1> QED BY <1>2, <1>3, <1>5, StepKeeps DEF Forms

\* async_step_reauth: it is given its entry's unique id, and asks for
\* credentials.
LEMMA StartReauthKeeps ==
    ASSUME ConfigIInv, NEW f \in Flows, NEW e \in Entries, StartReauth(f, e)
    PROVE  StepSound
<1> DEFINE r == [Blank EXCEPT !.source = "reauth", !.entry = e,
                             !.unique = entries[e].unique,
                             !.host = entries[e].host, !.user = entries[e].user,
                             !.pw = entries[e].pw]
<1>1. entries[e] \in EntryRecord /\ entries[e].host \in Hosts
  BY DEF ConfigIInv, EntriesSound, StartReauth
<1>2. r \in FlowRecord /\ r.live /\ r.host \in Hosts
  <2>1. /\ entries[e].unique \in UniqueIds /\ entries[e].host \in {"none"} \cup Hosts
        /\ entries[e].user \in Users /\ entries[e].pw \in Passwords
        /\ entries[e].mqtt \in Settings /\ "reauth" \in Sources
    BY <1>1 DEF EntryRecord, Sources
  <2> DEFINE a == [Blank EXCEPT !.source = "reauth"]
             b == [a EXCEPT !.entry = e]
             c == [b EXCEPT !.unique = entries[e].unique]
             d == [c EXCEPT !.host = entries[e].host]
             x == [d EXCEPT !.user = entries[e].user]
  <2>2. r = [x EXCEPT !.pw = entries[e].pw] /\ r.live = Blank.live
        /\ r.host = entries[e].host
    BY BlankSound DEF FlowRecord
  <2>3. a \in FlowRecord
    BY <2>1, BlankSound, Written
  <2> HIDE DEF a
  <2>4. b \in FlowRecord
    BY <2>3, Written
  <2> HIDE DEF b
  <2>5. c \in FlowRecord
    BY <2>1, <2>4, Written
  <2> HIDE DEF c
  <2>6. d \in FlowRecord
    BY <2>1, <2>5, Written
  <2> HIDE DEF d
  <2>7. x \in FlowRecord
    BY <2>1, <2>6, Written
  <2> HIDE DEF x
  <2> QED BY <1>1, <2>1, <2>2, <2>7, BlankSound, Written
<1>3. Allowed(r, "reauth_confirm")
  BY <1>2 DEF Allowed, PastForms, Ending
<1>4. [Blank EXCEPT !.source = "reauth", !.entry = e,
                             !.unique = entries[e].unique,
                             !.host = entries[e].host, !.user = entries[e].user,
                             !.pw = entries[e].pw, !.step = "reauth_confirm"]
      = [r EXCEPT !.step = "reauth_confirm"]
  BY BlankSound DEF FlowRecord
<1>5. Goes(f, [r EXCEPT !.step = "reauth_confirm"]) /\ UNCHANGED <<entries, router>>
  BY <1>4 DEF StartReauth
<1> HIDE DEF r
<1> QED BY <1>2, <1>3, <1>5, StepKeeps DEF Forms

\* async_step_dhcp and its like: a unique id that an entry has ends the wizard
\* at once, after the entry's address was brought up to date.
LEMMA DiscoveredKeeps ==
    ASSUME ConfigIInv, NEW f \in Flows, NEW host \in Hosts, NEW id \in UniqueIds,
           NEW moves, Discovered(f, host, id, moves)
    PROVE  StepSound
<1> DEFINE r == IF AlreadyConfigured(id) THEN Blank
               ELSE [Blank EXCEPT !.unique = id, !.host = host, !.step = "probing"]
<1>1. Sound(r)
  <2> DEFINE b == [Blank EXCEPT !.unique = id, !.host = host]
  <2>1. b \in FlowRecord /\ b.live /\ b.host = host
    BY BlankSound DEF FlowRecord
  <2>2. [Blank EXCEPT !.unique = id, !.host = host, !.step = "probing"]
        = [b EXCEPT !.step = "probing"]
    BY BlankSound DEF FlowRecord
  <2> HIDE DEF b
  <2>3. Allowed(b, "probing")
    BY <2>1 DEF Allowed, PastForms, Ending
  <2>4. Sound([b EXCEPT !.step = "probing"])
    BY <2>1, <2>3, StepSoundRecord DEF Awaits
  <2> QED BY <2>2, <2>4, BlankSound
<1>2. Goes(f, r) /\ UNCHANGED router
  BY DEF Discovered
<1> HIDE DEF r
<1>3. ASSUME NEW e \in Entries
      PROVE  /\ entries'[e] \in EntryRecord
             /\ entries'[e].unique = entries[e].unique
             /\ entries'[e].user = entries[e].user /\ entries'[e].pw = entries[e].pw
             /\ entries'[e].mqtt = entries[e].mqtt
             /\ entries'[e].host \in {entries[e].host, host}
             /\ Exists(e)' => Exists(e)
  <2>1. entries[e] \in EntryRecord
    BY DEF ConfigIInv, EntriesSound
  <2>2. entries'[e] = IF moves /\ Exists(e) /\ entries[e].unique = id
                     THEN [entries[e] EXCEPT !.host = host] ELSE entries[e]
    BY DEF Discovered
  <2> DEFINE m == [entries[e] EXCEPT !.host = host]
  <2>3. /\ m \in EntryRecord /\ m.unique = entries[e].unique /\ m.user = entries[e].user
        /\ m.pw = entries[e].pw /\ m.mqtt = entries[e].mqtt /\ m.host = host
    BY <2>1 DEF EntryRecord
  <2> HIDE DEF m
  <2> QED BY <2>1, <2>2, <2>3 DEF Exists, m
<1>4. entries' \in [Entries -> EntryRecord]
  BY <1>3 DEF Discovered
<1>5. EntriesSound'
  <2>1. ASSUME NEW e \in Entries, Exists(e)'
        PROVE  entries'[e].host \in Hosts /\ Names(entries'[e].unique)
    BY <2>1, <1>3 DEF ConfigIInv, EntriesSound
  <2>2. ASSUME NEW d \in Entries, NEW e \in Entries, Exists(d)', Exists(e)',
               entries'[d].unique = entries'[e].unique
        PROVE  d = e
    BY <2>2, <1>3 DEF ConfigIInv, EntriesSound
  <2> QED BY <1>4, <2>1, <2>2 DEF EntriesSound, Names, OneRouterOnly
<1>6. FlowsSound'
  <2>1. \A id_1 : ~AlreadyConfigured(id_1) => ~AlreadyConfigured(id_1)'
    BY <1>3 DEF AlreadyConfigured
  <2> QED BY <1>1, <1>2, <2>1, GoesKeepsFlows
<1>7. CredentialsStep
  BY <1>3 DEF CredentialsStep
<1> QED BY <1>2, <1>3, <1>5, <1>6, <1>7, StillWorld DEF StepSound, ConfigIInv

\* Every way a wizard starts.
LEMMA StartsKeep ==
    ASSUME ConfigIInv, NEW f \in Flows, Starts(f)
    PROVE  StepSound
<1>1. \A h \in Reach[f] : h \in Hosts /\ h \in UniqueIds /\ RouterAt[h] \in UniqueIds
  BY FlowConstants DEF UniqueIds
<1>2. ASSUME NEW e \in Entries, StartReconfigure(f, e) \/ StartReauth(f, e)
      PROVE  StepSound
  BY <1>2, StartReconfigureKeeps, StartReauthKeeps
<1>3. ASSUME NEW h \in Reach[f], StartDhcp(f, h)
      PROVE  StepSound
  BY <1>1, <1>3, DiscoveredKeeps DEF StartDhcp
<1>4. ASSUME NEW h \in Reach[f], NEW mac \in BOOLEAN, StartSsdp(f, h, mac)
      PROVE  StepSound
  <2>1. (IF mac THEN RouterAt[h] ELSE h) \in UniqueIds
    BY <1>1
  <2> QED BY <1>1, <1>4, <2>1, DiscoveredKeeps DEF StartSsdp
<1>5. ASSUME NEW h \in Reach[f], NEW mac \in BOOLEAN, StartZeroconf(f, h, mac)
      PROVE  StepSound
  <2>1. (IF mac THEN RouterAt[h] ELSE h) \in UniqueIds
    BY <1>1
  <2> QED BY <1>1, <1>5, <2>1, DiscoveredKeeps DEF StartZeroconf
<1> QED BY <1>2, <1>3, <1>4, <1>5, StartUserKeeps DEF Starts

-----------------------------------------------------------------------------
\* Finding the router.

\* A discovered address was probed.
LEMMA ProbeEndsKeeps ==
    ASSUME ConfigIInv, NEW f \in Flows, ProbeEnds(f)
    PROVE  StepSound
<1> DEFINE r == [flow[f] EXCEPT !.found = {flow[f].host}]
<1>1. CASE Goes(f, Show(r, "confirm_discovery"))
  <2>1. Sound(flow[f]) /\ flow[f] \in FlowRecord /\ flow[f].step = "probing"
    BY OfFlow DEF ProbeEnds
  <2>2. flow[f].host \in Hosts
    BY <2>1 DEF Sound, Allowed, Unlocated
  <2>3. r \in FlowRecord /\ r.host = flow[f].host
    BY <2>1, <2>2 DEF FlowRecord
  <2>4. Allowed(r, "confirm_discovery")
    BY <2>2, <2>3 DEF Allowed, PastForms, Ending, Unlocated
  <2> HIDE DEF r
  <2> QED BY <1>1, <2>3, <2>4, ShowKeeps DEF ProbeEnds, Forms
<1>2. CASE Goes(f, Blank)
  BY <1>2, BlankKeeps DEF ProbeEnds
<1> QED BY <1>1, <1>2 DEF ProbeEnds

\* The user closes the dialog.
LEMMA AbandonKeeps ==
    ASSUME ConfigIInv, NEW f \in Flows, Abandon(f)
    PROVE  StepSound
  BY OfFlow, AbortedSound, MoveKeeps, StillWorld DEF Abandon

\* From one form or await to another, with what the flow knows unchanged.
LEMMA PlainStepKeeps ==
    ASSUME ConfigIInv, NEW f \in Flows, flow[f].step \in Forms,
           NEW step \in Forms \cup Awaits,
           step \notin {"testing", "provisioning", "display_new_user"},
           step \in PastForms => flow[f].step \in PastForms,
           flow[f].step \in Unlocated => step \in Unlocated,
           Goes(f, [flow[f] EXCEPT !.step = step]), UNCHANGED <<entries, router>>
    PROVE  StepSound
<1>1. flow[f].step \notin Awaits
  BY DEF Forms, Awaits
<1>2. flow[f] \in FlowRecord /\ flow[f].live /\ Allowed(flow[f], flow[f].step)
  BY <1>1, OfFlow DEF Sound, Awaits
<1>3. Allowed(flow[f], step)
  BY <1>2 DEF Allowed
<1> QED BY <1>2, <1>3, StepKeeps

\* The first form: the network is scanned, or the address typed.
LEMMA SubmitUserKeeps ==
    ASSUME ConfigIInv, NEW f \in Flows, NEW manual \in BOOLEAN, SubmitUser(f, manual)
    PROVE  StepSound
<1>1. /\ flow[f].step = "user" /\ flow[f] \in FlowRecord /\ flow[f].live
      /\ UNCHANGED <<entries, router>>
  BY OfFlow DEF SubmitUser, Sound, Awaits
<1>2. Allowed(flow[f], "manual_entry") /\ Allowed(flow[f], "scanning")
  BY DEF Allowed, PastForms, Ending, Unlocated
<1>3. CASE Goes(f, [flow[f] EXCEPT !.step = "manual_entry"])
  BY <1>1, <1>2, <1>3, StepKeeps DEF Forms
<1>4. CASE Goes(f, [flow[f] EXCEPT !.step = "scanning"])
  BY <1>1, <1>2, <1>4, StepKeeps DEF Awaits
<1> QED BY <1>3, <1>4 DEF SubmitUser

\* The scan ends with what it found.
LEMMA ScanEndsKeeps ==
    ASSUME ConfigIInv, NEW f \in Flows, NEW answering \in Answers, ScanEnds(f, answering)
    PROVE  StepSound
<1> DEFINE new == {h \in answering : \A e \in Entries : entries[e].host # h}
           r == [flow[f] EXCEPT !.found = new]
           step == CASE new = {} -> "manual_entry"
                      [] Cardinality(new) = 1 -> "confirm_discovery"
                      [] OTHER -> "select_device"
<1>1. Goes(f, Show(r, step)) /\ UNCHANGED <<entries, router>>
  BY DEF ScanEnds
<1>2. new \in SUBSET Hosts
  BY DEF Answers
<1>3. step \in {"manual_entry", "confirm_discovery", "select_device"}
  OBVIOUS
<1> HIDE DEF new, step
<1>4. r \in FlowRecord
  BY <1>2, OfFlow DEF FlowRecord
<1>5. Allowed(r, step)
  BY <1>3 DEF Allowed, PastForms, Ending, Unlocated
<1> HIDE DEF r
<1> QED BY <1>1, <1>3, <1>4, <1>5, ShowKeeps DEF Forms

\* One of the addresses found.
LEMMA SelectDeviceKeeps ==
    ASSUME ConfigIInv, NEW f \in Flows, SelectDevice(f)
    PROVE  StepSound
<1>1. PICK found \in SUBSET Hosts, step \in {"confirm_discovery", "manual_entry"} :
         Goes(f, [flow[f] EXCEPT !.found = found, !.step = step])
  <2>1. Reach[f] \subseteq Hosts
    BY FlowConstants
  <2>2. CASE \E h \in flow[f].found \cap Reach[f] :
            Goes(f, [flow[f] EXCEPT !.found = {h}, !.step = "confirm_discovery"])
    BY <2>1, <2>2
  <2>3. CASE Goes(f, [flow[f] EXCEPT !.found = {}, !.step = "manual_entry"])
    BY <2>3
  <2> QED BY <2>2, <2>3 DEF SelectDevice
<1>2. flow[f].step = "select_device" /\ UNCHANGED <<entries, router>>
  BY DEF SelectDevice
<1>3. flow[f] \in FlowRecord /\ flow[f].live
  BY <1>2, OfFlow DEF Sound, Awaits
<1> DEFINE r == [flow[f] EXCEPT !.found = found]
<1>4. r \in FlowRecord /\ r.live
  BY <1>3 DEF FlowRecord
<1>5. [flow[f] EXCEPT !.found = found, !.step = step] = [r EXCEPT !.step = step]
  BY <1>3 DEF FlowRecord
<1>6. Goes(f, [r EXCEPT !.step = step])
  BY <1>1, <1>5
<1> HIDE DEF r
<1>7. Allowed(r, step)
  BY DEF Allowed, PastForms, Ending, Unlocated
<1> QED BY <1>2, <1>4, <1>6, <1>7, StepKeeps DEF Forms

\* The discovered router is confirmed.
LEMMA ConfirmDiscoveryKeeps ==
    ASSUME ConfigIInv, NEW f \in Flows, ConfirmDiscovery(f)
    PROVE  StepSound
<1>1. flow[f].step = "confirm_discovery" /\ UNCHANGED <<entries, router>>
  BY DEF ConfirmDiscovery
<1>2. flow[f] \in FlowRecord /\ flow[f].live
  BY <1>1, OfFlow DEF Sound, Awaits
<1>3. ASSUME NEW h \in flow[f].found \cap Reach[f], NEW c \in Conns,
             Goes(f, [flow[f] EXCEPT !.host = h, !.conn = c, !.found = {},
                                    !.step = "credentials"])
      PROVE  StepSound
  <2> DEFINE r == [flow[f] EXCEPT !.host = h, !.conn = c, !.found = {}]
  <2>1. h \in Hosts
    BY FlowConstants
  <2>2. r \in FlowRecord /\ r.live /\ r.host = h
    BY <1>2, <2>1 DEF FlowRecord
  <2>3. [flow[f] EXCEPT !.host = h, !.conn = c, !.found = {}, !.step = "credentials"]
        = [r EXCEPT !.step = "credentials"]
    BY <1>2 DEF FlowRecord
  <2>4. Goes(f, [r EXCEPT !.step = "credentials"])
    BY <1>3, <2>3
  <2> HIDE DEF r
  <2>5. Allowed(r, "credentials")
    BY <2>1, <2>2 DEF Allowed, PastForms, Ending
  <2> QED BY <1>1, <2>2, <2>4, <2>5, StepKeeps DEF Forms
<1>4. CASE Goes(f, [flow[f] EXCEPT !.found = {}, !.step = "manual_entry"])
  <2> DEFINE r == [flow[f] EXCEPT !.found = {}]
  <2>1. r \in FlowRecord /\ r.live
    BY <1>2 DEF FlowRecord
  <2>2. [flow[f] EXCEPT !.found = {}, !.step = "manual_entry"] = [r EXCEPT !.step = "manual_entry"]
    BY <1>2 DEF FlowRecord
  <2>3. Goes(f, [r EXCEPT !.step = "manual_entry"])
    BY <1>4, <2>2
  <2> HIDE DEF r
  <2>4. Allowed(r, "manual_entry")
    BY DEF Allowed, PastForms, Ending, Unlocated
  <2> QED BY <1>1, <2>1, <2>3, <2>4, StepKeeps DEF Forms
<1> QED BY <1>3, <1>4 DEF ConfirmDiscovery

\* An address is typed.
LEMMA ManualEntryKeeps ==
    ASSUME ConfigIInv, NEW f \in Flows, NEW host \in Reach[f], NEW conn \in Conns,
           ManualEntry(f, host, conn)
    PROVE  StepSound
<1> DEFINE r == [flow[f] EXCEPT !.host = host, !.conn = conn]
           step == IF conn = "ssh" THEN "ssh" ELSE "credentials"
<1>1. flow[f].step = "manual_entry" /\ UNCHANGED <<entries, router>>
  BY DEF ManualEntry
<1>2. flow[f] \in FlowRecord /\ flow[f].live
  BY <1>1, OfFlow DEF Sound, Awaits
<1>3. host \in Hosts
  BY FlowConstants
<1>4. r \in FlowRecord /\ r.live /\ r.host = host
  BY <1>2, <1>3 DEF FlowRecord
<1>5. step \in {"ssh", "credentials"}
  OBVIOUS
<1>6. [flow[f] EXCEPT !.host = host, !.conn = conn, !.step = step] = [r EXCEPT !.step = step]
  BY <1>2 DEF FlowRecord
<1>7. Goes(f, [r EXCEPT !.step = step])
  BY <1>6 DEF ManualEntry
<1> HIDE DEF r, step
<1>8. Allowed(r, step)
  BY <1>3, <1>4, <1>5 DEF Allowed, PastForms, Ending
<1> QED BY <1>1, <1>4, <1>5, <1>7, <1>8, StepKeeps DEF Forms

\* Every step that finds the router.
LEMMA LocatesKeep ==
    ASSUME ConfigIInv, NEW f \in Flows, Locates(f)
    PROVE  StepSound
  BY SubmitUserKeeps, ScanEndsKeeps, ProbeEndsKeeps, SelectDeviceKeeps,
     ConfirmDiscoveryKeeps, ManualEntryKeeps DEF Locates

-----------------------------------------------------------------------------
\* Logging in.

\* What a user types is a password, wherever the wizard stands.
LEMMA TypedPassword ==
    ASSUME ConfigIInv, NEW f \in Flows, NEW u \in Users, NEW p \in Typed(flow[f].host, u)
    PROVE  p \in Passwords
<1>1. 0 \in Passwords
  BY FlowConstants DEF Passwords
<1>2. flow[f].host \in {"none"} \cup Hosts
  BY OfFlow DEF FlowRecord
<1>3. CASE flow[f].host = "none"
  BY <1>1, <1>3 DEF Typed
<1>4. CASE flow[f].host \in Hosts
  <2>1. RouterAt[flow[f].host] \in Routers
    BY <1>4, FlowConstants
  <2>2. password[RouterAt[flow[f].host]][u] \in Passwords
    BY <2>1 DEF ConfigIInv, WorldTyped
  <2> QED BY <1>1, <2>2 DEF Typed
<1> QED BY <1>2, <1>3, <1>4

\* The forms for credentials start a test of what was typed.
LEMMA SubmitCredentialsKeeps ==
    ASSUME ConfigIInv, NEW f \in Flows, NEW user \in Users, NEW pw \in Passwords,
           SubmitCredentials(f, user, pw) \/ SubmitReauth(f, user, pw)
    PROVE  StepSound
<1> DEFINE r == [flow[f] EXCEPT !.user = user, !.pw = pw]
<1>1. /\ flow[f].step \in {"credentials", "ssh", "reauth_confirm"}
      /\ Goes(f, Testing(r, flow[f].step, user, pw)) /\ UNCHANGED <<entries, router>>
  BY DEF SubmitCredentials, SubmitReauth
<1>2. flow[f] \in FlowRecord /\ flow[f].host \in Hosts
  BY <1>1, OfFlow DEF Sound, Allowed, Unlocated
<1>3. r \in FlowRecord /\ r.host = flow[f].host /\ r.user = user /\ r.pw = pw
  BY <1>2 DEF FlowRecord
<1> HIDE DEF r
<1>4. Sound(Testing(r, flow[f].step, user, pw))
  BY <1>1, <1>2, <1>3, TestingSound DEF UserTests
<1> QED BY <1>1, <1>4, MoveKeeps, StillWorld

\* The password of an existing user is tested under the login that succeeded.
LEMMA SubmitReuseKeeps ==
    ASSUME ConfigIInv, NEW f \in Flows, NEW pw \in Passwords, SubmitReuse(f, pw)
    PROVE  StepSound
<1>1. /\ flow[f].step = "reuse_user" /\ UNCHANGED <<entries, router>>
      /\ Goes(f, Testing(flow[f], "reuse_user", "homeassistant", pw))
  BY DEF SubmitReuse
<1>2. /\ flow[f] \in FlowRecord /\ flow[f].host \in Hosts
      /\ HasLoggedIn(flow[f]) /\ Owns(flow[f])
  BY <1>1, OfFlow DEF Sound, Allowed, Unlocated, PastForms
<1>3. Sound(Testing(flow[f], "reuse_user", "homeassistant", pw))
  BY <1>2, TestingSound DEF Users
<1> QED BY <1>1, <1>3, MoveKeeps, StillWorld

\* The generated password was shown, and the new user is tested.
LEMMA SubmitNewUserKeeps ==
    ASSUME ConfigIInv, NEW f \in Flows, NEW use \in BOOLEAN, SubmitNewUser(f, use)
    PROVE  StepSound
<1> DEFINE r == [flow[f] EXCEPT !.user = "homeassistant", !.pw = flow[f].generated]
<1>1. /\ flow[f].step = "display_new_user" /\ UNCHANGED <<entries, router>>
      /\ Goes(f, Testing(r, "display_new_user", r.user, r.pw))
  BY DEF SubmitNewUser
<1>2. /\ flow[f] \in FlowRecord /\ flow[f].host \in Hosts
      /\ Owns(flow[f]) /\ flow[f].generated # 0
  BY <1>1, OfFlow DEF Sound, Allowed, Unlocated, PastForms
<1>3. /\ r \in FlowRecord /\ r.user \in Users /\ r.pw \in Passwords
      /\ r.user = "homeassistant" /\ r.pw = flow[f].generated
      /\ r.host = flow[f].host /\ r.live = flow[f].live /\ r.source = flow[f].source
      /\ r.unique = flow[f].unique
  <2> DEFINE s == [flow[f] EXCEPT !.user = "homeassistant"]
             new == flow[f].generated
  <2>1. "homeassistant" \in Users /\ new \in Passwords
    BY <1>2 DEF Users, FlowRecord
  <2>2. s \in FlowRecord
    BY <1>2, <2>1, Written
  <2>3. r = [s EXCEPT !.pw = new]
    BY <1>2 DEF FlowRecord
  <2>4. /\ r.user = "homeassistant" /\ r.pw = new
        /\ r.host = flow[f].host /\ r.live = flow[f].live /\ r.source = flow[f].source
        /\ r.unique = flow[f].unique
    BY <1>2 DEF FlowRecord
  <2> HIDE DEF r, s, new
  <2>5. r \in FlowRecord
    BY <2>1, <2>2, <2>3, Written
  <2> USE DEF new
  <2> QED BY <2>1, <2>4, <2>5
<1> HIDE DEF r
<1>4. Owns(r)
  BY <1>2, <1>3 DEF Owns
<1>5. Sound(Testing(r, "display_new_user", r.user, r.pw))
  BY <1>2, <1>3, <1>4, TestingSound
<1> QED BY <1>1, <1>5, MoveKeeps, StillWorld

\* What the invariant says of a wizard that awaits a test.
LEMMA OfTest ==
    ASSUME ConfigIInv, NEW f \in Flows, flow[f].step = "testing"
    PROVE  flow[f] \in FlowRecord /\ Tests(flow[f])
  BY OfFlow DEF Sound

\* A test that succeeds proves what it tried, and changes nothing else that
\* matters here.
LEMMA TestedSound ==
    ASSUME NEW r \in FlowRecord, NEW fails, NEW t \in Tested(r, fails)
    PROVE  /\ t \in FlowRecord
           /\ t.proved = [host |-> r.host, user |-> r.tried.user, pw |-> r.tried.pw]
           /\ t.gaveUp = 0
           /\ t.live = r.live /\ t.source = r.source /\ t.unique = r.unique
           /\ t.host = r.host /\ t.user = r.user /\ t.pw = r.pw
           /\ t.tried = r.tried
<1> DEFINE proved == [host |-> r.host, user |-> r.tried.user, pw |-> r.tried.pw]
<1>1. PICK new \in Findings(r, fails) :
         t = [r EXCEPT !.exists = new.exists, !.perms = new.perms, !.pkgs = new.pkgs,
                    !.restricted = @ \/ new.restricted, !.gaveUp = 0, !.proved = proved]
  BY DEF Tested
<1> DEFINE was == r.restricted \/ new.restricted
<1>2. was \in BOOLEAN /\ 0 \in Passwords
  BY FlowConstants DEF Passwords
<1>3. proved \in [host : {"none"} \cup Hosts, user : Users, pw : Passwords]
  BY DEF FlowRecord
<1>4. t = [r EXCEPT !.exists = new.exists, !.perms = new.perms, !.pkgs = new.pkgs,
                    !.restricted = was, !.gaveUp = 0, !.proved = proved]
  BY <1>1
<1> HIDE DEF was, proved
<1>5. t \in FlowRecord
  <2>1. new.exists \in BOOLEAN
    BY DEF Findings
  <2>2. new.perms \in {"none", "ro", "rw"}
    BY DEF Findings, FlowRecord
  <2>3. new.pkgs \in BOOLEAN
    BY DEF Findings, FlowRecord
  <2> DEFINE exists == new.exists
             perms == new.perms
             pkgs == new.pkgs
             t0 == [r EXCEPT !.exists = exists]
             t1 == [t0 EXCEPT !.perms = perms]
             t2 == [t1 EXCEPT !.pkgs = pkgs]
             t3 == [t2 EXCEPT !.restricted = was]
  <2>4. t = [t3 EXCEPT !.gaveUp = 0, !.proved = proved]
    BY <1>4 DEF FlowRecord
  <2>5. exists \in BOOLEAN /\ perms \in {"none", "ro", "rw"} /\ pkgs \in BOOLEAN
    BY <2>1, <2>2, <2>3
  <2> HIDE DEF exists, perms, pkgs
  <2>6. t0 \in FlowRecord
    BY <2>5, Written
  <2> HIDE DEF t0
  <2>7. t1 \in FlowRecord
    BY <2>5, <2>6 DEF FlowRecord
  <2> HIDE DEF t1
  <2>8. t2 \in FlowRecord
    BY <2>5, <2>7, Written
  <2> HIDE DEF t2
  <2>9. t3 \in FlowRecord
    BY <1>2, <2>8, Written
  <2> HIDE DEF t3
  <2> QED BY <1>2, <1>3, <2>4, <2>9 DEF FlowRecord
<1>6. /\ t.proved = proved /\ t.gaveUp = 0
      /\ t.live = r.live /\ t.source = r.source /\ t.unique = r.unique
      /\ t.host = r.host /\ t.user = r.user /\ t.pw = r.pw
      /\ t.tried = r.tried
  BY <1>4 DEF FlowRecord
<1> QED BY <1>5, <1>6 DEF proved

\* The forms that may follow a login.
LEMMA FormsAfterLogin ==
    ASSUME NEW r
    PROVE  /\ PermissionsForm(r) \in {"packages", "mqtt_presence", "ubus_restricted", "permissions"}
           /\ AfterLogin(r) \in {"provision_user", "packages", "mqtt_presence",
                                 "ubus_restricted", "permissions"}
  BY DEF AfterLogin, PermissionsForm

\* Aborting the other wizards of a unique id leaves them sound, and none of that
\* id that lives and can still do something.
LEMMA OthersSound ==
    ASSUME ConfigIInv, NEW f \in Flows, NEW r, Sound(r), NEW id,
           flow' = OthersAborted(id, f, r)
    PROVE  /\ flow' \in [Flows -> FlowRecord]
           /\ \A g \in Flows : Sound(flow'[g])
           /\ \A g \in Flows \ {f} :
                 flow'[g].step # "none" /\ flow'[g].live => flow'[g].unique # id
           /\ flow'[f] = Tidy(r)
<1>1. \A g \in Flows : flow'[g] =
        IF g = f THEN Tidy(r)
        ELSE IF flow[g].step # "none" /\ flow[g].live /\ flow[g].unique = id
             THEN Aborted(flow[g])
        ELSE flow[g]
  BY DEF OthersAborted
<1>2. ASSUME NEW g \in Flows
      PROVE  /\ Sound(flow'[g])
             /\ g # f /\ flow'[g].step # "none" /\ flow'[g].live => flow'[g].unique # id
  <2>1. Sound(flow[g])
    BY OfFlow
  <2> QED BY <1>1, <2>1, TidyKeeps, AbortedSound
<1>3. flow' \in [Flows -> FlowRecord]
  <2>1. \A g \in Flows : flow'[g] \in FlowRecord
    BY <1>2 DEF Sound
  <2> QED BY <2>1 DEF OthersAborted
<1> QED BY <1>1, <1>2, <1>3

\* Aborting the others changes no entry.
LEMMA OthersKeep ==
    ASSUME ConfigIInv, NEW f \in Flows, NEW r, Sound(r), NEW id,
           flow' = OthersAborted(id, f, r), UNCHANGED <<entries, router>>
    PROVE  StepSound
<1>1. EntriesSound'
  BY DEF ConfigIInv, EntriesSound, Exists, Names, OneRouterOnly
<1>2. \A g \in Flows : ~AlreadyConfigured(flow'[g].unique)
                       => ~AlreadyConfigured(flow[g].unique)'
  BY DEF AlreadyConfigured, Exists
<1>3. FlowsSound'
  BY <1>2, OthersSound, FlowsLater
<1>4. CredentialsStep
  BY DEF CredentialsStep
<1> QED BY <1>1, <1>3, <1>4, StillWorld DEF StepSound, ConfigIInv

\* The unique id is read after a login and checked: a wizard that goes on owns
\* it.
LEMMA UniqueIdCheckedKeeps ==
    ASSUME ConfigIInv, NEW f \in Flows, NEW t \in FlowRecord, NEW id \in UniqueIds,
           NEW step \in PastForms, NEW refused \in {"none", "repair_failed"},
           t.host \in Hosts, HasLoggedIn(t), Names(id),
           step \notin {"provisioning", "display_new_user", "deploying"},
           UniqueIdChecked(f, t, id, step, refused), UNCHANGED <<entries, router>>
    PROVE  StepSound
<1> DEFINE known == [t EXCEPT !.unique = id]
           refuses == t.source # "reconfigure" /\ AlreadyConfigured(id)
           Refused(x) == IF refused = "none" THEN Blank ELSE Show(x, refused)
           next == IF refuses THEN Refused(known) ELSE Show(known, step)
<1>1. IF Announced(id) THEN Goes(f, Refused(t)) ELSE flow' = OthersAborted(id, f, next)
  BY DEF UniqueIdChecked
<1>2. /\ known \in FlowRecord /\ known.host = t.host /\ known.unique = id
      /\ known.source = t.source /\ known.live = t.live
      /\ known.user = t.user /\ known.pw = t.pw /\ known.proved = t.proved
      /\ known.gaveUp = t.gaveUp /\ known.generated = t.generated
  BY DEF FlowRecord
<1> HIDE DEF known
<1>3. Sound(Refused(t)) /\ Sound(Refused(known))
  <2>1. Allowed(t, "repair_failed") /\ Allowed(known, "repair_failed")
    BY <1>2 DEF Allowed, PastForms, Ending
  <2>2. /\ Sound(Show(t, "repair_failed"))
        /\ Sound(Show(known, "repair_failed"))
    BY <1>2, <2>1, ShowSound DEF Forms
  <2> QED BY <2>2, BlankSound
<1>4. ~refuses => Sound(Show(known, step))
  <2> SUFFICES ASSUME ~refuses
               PROVE  Sound(Show(known, step))
    OBVIOUS
  <2>1. HasLoggedIn(known)
    BY <1>2 DEF HasLoggedIn, Triple
  <2>2. Owns(known)
    BY <1>2 DEF Owns
  <2>3. Allowed(known, step)
    BY <1>2, <2>1, <2>2 DEF Allowed
  <2>4. step \in Forms
    BY DEF PastForms, Ending, Forms
  <2> QED BY <1>2, <2>3, <2>4, ShowSound
<1>5. Sound(next)
  BY <1>3, <1>4
<1>6. CASE Announced(id)
  <2>1. Goes(f, Refused(t))
    BY <1>1, <1>6
  <2> HIDE DEF Refused
  <2> QED BY <1>3, <2>1, MoveKeeps, StillWorld
<1>7. CASE ~Announced(id)
  <2>1. flow' = OthersAborted(id, f, next)
    BY <1>1, <1>7
  <2> HIDE DEF next
  <2> QED BY <1>5, <2>1, OthersKeep
<1> QED BY <1>6, <1>7

\* A test of the first login passes.
LEMMA SetupTestPassesKeeps ==
    ASSUME ConfigIInv, NEW f \in Flows, SetupTestPasses(f)
    PROVE  StepSound
<1> DEFINE r == flow[f]
           fails == f \in Unsure
<1>1. /\ r.step = "testing" /\ r.caller \in {"credentials", "ssh", "run_repair"}
      /\ UNCHANGED <<entries, router>>
  BY DEF SetupTestPasses
<1>2. r \in FlowRecord /\ Tests(r)
  BY <1>1, OfTest
<1>4. PICK t \in Tested(r, fails), id \in DeviceIds(r.host) :
          IF r.caller = "run_repair"
          THEN UniqueIdChecked(f, t, id, "repair_success", "repair_failed")
          ELSE UniqueIdChecked(f, t, id, AfterLogin(t), "none")
  BY DEF SetupTestPasses
<1> HIDE DEF fails
<1>5. r.host \in Hosts /\ r.tried = [user |-> r.user, pw |-> r.pw]
  BY <1>1, <1>2 DEF Tests
<1>6. id \in UniqueIds /\ Names(id)
  <2>1. id \in {RouterAt[r.host]} \cup IF MacMissing THEN {r.host} ELSE {}
    BY DEF DeviceIds
  <2>2. RouterAt[r.host] \in Routers
    BY <1>5, FlowConstants
  <2>3. OneRouterOnly => id = RouterAt[r.host]
    BY <2>1 DEF OneRouterOnly
  <2> QED BY <1>5, <2>1, <2>2, <2>3 DEF UniqueIds, Names, OneRouterOnly
<1>7. t \in FlowRecord /\ t.host \in Hosts /\ HasLoggedIn(t)
  <2>1. /\ t \in FlowRecord
        /\ t.proved = [host |-> r.host, user |-> r.tried.user, pw |-> r.tried.pw]
        /\ t.host = r.host /\ t.user = r.user /\ t.pw = r.pw
    BY <1>2, TestedSound
  <2>2. r.tried.user = r.user /\ r.tried.pw = r.pw
    BY <1>5
  <2> QED BY <1>5, <2>1, <2>2 DEF HasLoggedIn, Triple
<1> HIDE DEF r
<1>8. AfterLogin(t) \in PastForms \ {"provisioning", "display_new_user", "deploying"}
  BY FormsAfterLogin DEF PastForms, Ending
<1>9. CASE UniqueIdChecked(f, t, id, "repair_success", "repair_failed")
  BY <1>1, <1>6, <1>7, <1>9, UniqueIdCheckedKeeps DEF PastForms
<1>10. CASE UniqueIdChecked(f, t, id, AfterLogin(t), "none")
  BY <1>1, <1>6, <1>7, <1>8, <1>10, UniqueIdCheckedKeeps
<1> QED BY <1>4, <1>9, <1>10

\* A test of the new user passes.
LEMMA UserTestPassesKeeps ==
    ASSUME ConfigIInv, NEW f \in Flows, UserTestPasses(f)
    PROVE  StepSound
<1> DEFINE r == flow[f]
           fails == f \in Unsure
<1>1. /\ r.step = "testing" /\ r.caller \in UserTests
      /\ UNCHANGED <<entries, router>>
  BY DEF UserTestPasses, UserTests
<1>2. r \in FlowRecord /\ Tests(r)
  BY <1>1, OfTest
<1>3. r.host \in Hosts /\ Owns(r)
  BY <1>1, <1>2 DEF Tests
<1>4. PICK t \in Tested(r, fails) :
          LET used == [t EXCEPT !.user = r.tried.user, !.pw = r.tried.pw]
          IN Goes(f, Show(used, PermissionsForm(used)))
  BY DEF UserTestPasses
<1> DEFINE used == [t EXCEPT !.user = r.tried.user, !.pw = r.tried.pw]
<1> HIDE DEF fails
<1>5. /\ t \in FlowRecord
      /\ t.proved = [host |-> r.host, user |-> r.tried.user, pw |-> r.tried.pw]
      /\ t.live = r.live /\ t.source = r.source /\ t.unique = r.unique /\ t.host = r.host
  BY <1>2, TestedSound
<1>6. r.tried.user \in Users /\ r.tried.pw \in Passwords
  BY <1>2 DEF FlowRecord
<1>7. /\ used \in FlowRecord /\ used.proved = t.proved
      /\ used.live = r.live /\ used.source = r.source /\ used.unique = r.unique
      /\ used.host = r.host /\ used.user = r.tried.user /\ used.pw = r.tried.pw
  BY <1>5, <1>6 DEF FlowRecord
<1>8. Goes(f, Show(used, PermissionsForm(used)))
  BY <1>4
<1> HIDE DEF used, r
<1>9. HasLoggedIn(used)
  BY <1>5, <1>7 DEF HasLoggedIn, Triple
<1>10. Owns(used)
  BY <1>3, <1>7 DEF Owns
<1>11. PermissionsForm(used) \in {"packages", "mqtt_presence", "ubus_restricted", "permissions"}
  BY FormsAfterLogin
<1>12. Allowed(used, PermissionsForm(used))
  BY <1>3, <1>7, <1>9, <1>10, <1>11 DEF Allowed
<1> QED BY <1>1, <1>7, <1>8, <1>11, <1>12, ShowKeeps DEF Forms

\* A test of the reauthentication passes: the entry gets what was proved, and
\* keeps its unique id.
LEMMA ReauthTestPassesKeeps ==
    ASSUME ConfigIInv, NEW f \in Flows, ReauthTestPasses(f)
    PROVE  StepSound
<1> DEFINE r == flow[f]
           fails == f \in Unsure
           e == r.entry
<1>1. r.step = "testing" /\ r.caller = "reauth_confirm" /\ LoggedIn(r) /\ UNCHANGED router
  BY DEF ReauthTestPasses
<1>2. r \in FlowRecord /\ Tests(r) /\ r.host \in Hosts
  BY <1>1, OfTest DEF Tests
<1>3. CASE /\ Exists(e) /\ Goes(f, Blank)
           /\ entries' = [entries EXCEPT ![e] =
                                [@ EXCEPT !.user = r.tried.user, !.pw = r.tried.pw]]
  <2>1. r.tried.user \in Users /\ r.tried.pw \in Passwords
    BY <1>2 DEF FlowRecord
  <2>2. ASSUME NEW d \in Entries
        PROVE  /\ entries'[d] \in EntryRecord
               /\ entries'[d].unique = entries[d].unique
               /\ entries'[d].host = entries[d].host /\ entries'[d].mqtt = entries[d].mqtt
               /\ \/ entries'[d].user = r.tried.user /\ entries'[d].pw = r.tried.pw /\ Exists(d)
                  \/ entries'[d] = entries[d]
    <3>1. entries[d] \in EntryRecord
      BY DEF ConfigIInv, EntriesSound
    <3> DEFINE new == [entries[d] EXCEPT !.user = r.tried.user, !.pw = r.tried.pw]
    <3>2. /\ new \in EntryRecord /\ new.unique = entries[d].unique
          /\ new.host = entries[d].host /\ new.mqtt = entries[d].mqtt
          /\ new.user = r.tried.user /\ new.pw = r.tried.pw
      BY <2>1, <3>1 DEF EntryRecord
    <3>3. entries'[d] = IF d = e THEN new ELSE entries[d]
      BY <1>3 DEF ConfigIInv, EntriesSound
    <3> HIDE DEF new
    <3> QED BY <1>3, <3>1, <3>2, <3>3
  <2>3. \A d \in Entries : Exists(d)' => Exists(d)
    BY <2>2 DEF Exists
  <2>4. EntriesSound'
    <3>1. entries' \in [Entries -> EntryRecord]
      BY <1>3, <2>2 DEF ConfigIInv, EntriesSound
    <3>2. ASSUME NEW d \in Entries, Exists(d)'
          PROVE  entries'[d].host \in Hosts /\ Names(entries'[d].unique)
      BY <2>2, <2>3, <3>2 DEF ConfigIInv, EntriesSound
    <3>3. ASSUME NEW c \in Entries, NEW d \in Entries, Exists(c)', Exists(d)',
                 entries'[c].unique = entries'[d].unique
          PROVE  c = d
      BY <2>2, <2>3, <3>3 DEF ConfigIInv, EntriesSound
    <3> QED BY <3>1, <3>2, <3>3 DEF EntriesSound, Names, OneRouterOnly
  <2>5. FlowsSound'
    <3>1. \A id : ~AlreadyConfigured(id) => ~AlreadyConfigured(id)'
      BY <2>2, <2>3 DEF AlreadyConfigured
    <3> QED BY <1>3, <3>1, BlankSound, GoesKeepsFlows
  <2>6. OneRouterOnly => CredentialsStep
    <3> SUFFICES ASSUME OneRouterOnly, NEW d \in Entries, Exists(d),
                        entries'[d].user = r.tried.user, entries'[d].pw = r.tried.pw
                 PROVE  Valid(entries'[d].host, entries'[d].user, entries'[d].pw)
      BY <2>2 DEF CredentialsStep
    <3>1. RouterAt[entries'[d].host] = RouterAt[r.host]
      BY <1>2, <2>2 DEF OneRouterOnly, ConfigIInv, EntriesSound
    <3> QED BY <1>1, <3>1 DEF LoggedIn, Valid
  <2> QED BY <1>1, <2>2, <2>4, <2>5, <2>6, StillWorld DEF StepSound, ConfigIInv
<1>4. ASSUME NEW t \in Tested(r, fails), Goes(f, Show(t, "reauth_confirm")),
             UNCHANGED entries
      PROVE  StepSound
  <2> HIDE DEF fails
  <2>1. t \in FlowRecord /\ t.host = r.host
    BY <1>2, TestedSound
  <2>2. Allowed(t, "reauth_confirm")
    BY <1>2, <2>1 DEF Allowed, PastForms, Ending
  <2> QED BY <1>1, <1>4, <2>1, <2>2, ShowKeeps DEF Forms
<1> QED BY <1>3, <1>4 DEF ReauthTestPasses

\* A test that fails may leave answers, but nothing else that matters here.
LEMMA FailedSound ==
    ASSUME NEW r \in FlowRecord, NEW fails, NEW t \in Failed(r, fails)
    PROVE  /\ t \in FlowRecord /\ t.host = r.host /\ t.user = r.user /\ t.pw = r.pw
           /\ t.live = r.live /\ t.source = r.source /\ t.unique = r.unique
           /\ t.proved = r.proved /\ t.gaveUp = r.gaveUp
<1> DEFINE no == FALSE
           s == [r EXCEPT !.exists = no]
           Fits(x) == /\ x \in FlowRecord /\ x.host = r.host /\ x.user = r.user /\ x.pw = r.pw
                      /\ x.live = r.live /\ x.source = r.source /\ x.unique = r.unique
                      /\ x.proved = r.proved /\ x.gaveUp = r.gaveUp
<1>1. t \in {r, s} \/ \E new \in Findings(r, TRUE) :
        t = [r EXCEPT !.exists = new.exists, !.perms = new.perms, !.pkgs = new.pkgs]
  BY DEF Failed
<1>2. no \in BOOLEAN
  OBVIOUS
<1> HIDE DEF no
<1>3. Fits(s)
  BY <1>2 DEF FlowRecord
<1>4. ASSUME NEW new \in Findings(r, TRUE),
             t = [r EXCEPT !.exists = new.exists, !.perms = new.perms, !.pkgs = new.pkgs]
      PROVE  Fits(t)
  <2> DEFINE exists == new.exists
             perms == new.perms
             pkgs == new.pkgs
             t0 == [r EXCEPT !.exists = exists]
             t1 == [t0 EXCEPT !.perms = perms]
  <2>1. exists \in BOOLEAN
    BY DEF Findings
  <2>2. perms \in {"none", "ro", "rw"} /\ pkgs \in BOOLEAN
    BY DEF Findings, FlowRecord
  <2>3. t = [t1 EXCEPT !.pkgs = pkgs]
    BY <1>4 DEF FlowRecord
  <2> HIDE DEF exists, perms, pkgs
  <2>4. Fits(t0)
    BY <2>1 DEF FlowRecord
  <2> HIDE DEF t0
  <2>5. Fits(t1)
    BY <2>2, <2>4 DEF FlowRecord
  <2> HIDE DEF t1
  <2> QED BY <2>2, <2>3, <2>5 DEF FlowRecord
<1> HIDE DEF s
<1> QED BY <1>1, <1>3, <1>4

\* A test fails: back to the form, on to the diagnosis, or, after ten tests of
\* the new user, on with a password that was never proved.
LEMMA TestFailsKeeps ==
    ASSUME ConfigIInv, NEW f \in Flows, TestFails(f)
    PROVE  StepSound
<1> DEFINE r == flow[f]
<1>1. r.step = "testing" /\ UNCHANGED <<entries, router>>
  BY DEF TestFails
<1>2. r \in FlowRecord /\ Tests(r) /\ r.host \in Hosts
  BY <1>1, OfTest DEF Tests
<1>3. PICK t \in Failed(r, f \in Unsure), report \in {FALSE, f \notin Straight} :
          Goes(f, CASE r.caller = "display_new_user" ->
                         Show([t EXCEPT !.gaveUp = r.pw], "provision_user")
                    [] r.caller = "run_repair" -> Show(t, "repair_failed")
                    [] report /\ r.caller \in {"credentials", "ssh", "reauth_confirm"} ->
                         Show(t, "diagnostics")
                    [] OTHER -> Show(t, r.caller))
  BY DEF TestFails
<1>4. /\ t \in FlowRecord /\ t.host = r.host /\ t.user = r.user /\ t.pw = r.pw
      /\ t.live = r.live /\ t.source = r.source /\ t.unique = r.unique
      /\ t.proved = r.proved /\ t.gaveUp = r.gaveUp
  BY <1>2, <1>3, FailedSound
<1>5. CASE r.caller = "display_new_user"
  <2> DEFINE s == [t EXCEPT !.gaveUp = r.pw]
  <2>1. /\ s \in FlowRecord /\ s.host = r.host /\ s.user = r.user /\ s.pw = r.pw
        /\ s.live = r.live /\ s.source = r.source /\ s.unique = r.unique
        /\ s.gaveUp = r.pw
    BY <1>2, <1>4 DEF FlowRecord
  <2>2. Goes(f, Show(s, "provision_user"))
    BY <1>3, <1>5
  <2> HIDE DEF s
  <2>3. HasLoggedIn(s)
    BY <1>2, <1>5, <2>1 DEF HasLoggedIn, Tests
  <2>4. Owns(s)
    BY <1>2, <1>5, <2>1 DEF Owns, Tests, UserTests
  <2>5. Allowed(s, "provision_user")
    BY <1>2, <2>1, <2>3, <2>4 DEF Allowed
  <2> QED BY <1>1, <2>1, <2>2, <2>5, ShowKeeps DEF Forms
<1>6. CASE r.caller = "reuse_user"
  <2>1. Goes(f, Show(t, "reuse_user"))
    BY <1>3, <1>6
  <2>2. HasLoggedIn(t) /\ Owns(t)
    BY <1>2, <1>4, <1>6 DEF HasLoggedIn, Triple, Owns, Tests, UserTests
  <2>3. Allowed(t, "reuse_user")
    BY <1>2, <1>4, <2>2 DEF Allowed
  <2> QED BY <1>1, <1>4, <2>1, <2>3, ShowKeeps DEF Forms
<1>7. CASE r.caller \notin UserTests
  <2>1. r.caller \in {"credentials", "ssh", "reauth_confirm", "run_repair"}
    BY <1>2, <1>7 DEF FlowRecord, Tests, UserTests
  <2>2. \A step \in {"credentials", "ssh", "reauth_confirm", "repair_failed", "diagnostics"} :
           Goes(f, Show(t, step)) => StepSound
    <3>1. \A step \in {"credentials", "ssh", "reauth_confirm", "repair_failed", "diagnostics"} :
             step \in Forms /\ Allowed(t, step)
      BY <1>2, <1>4 DEF Allowed, PastForms, Ending, Forms
    <3> QED BY <1>1, <1>4, <3>1, ShowKeeps
  <2> QED BY <1>3, <2>1, <2>2
<1> QED BY <1>5, <1>6, <1>7 DEF UserTests

\* A record that no wizard uses stays unused.
LEMMA TidyBlank == Tidy(Blank).step = "none"
  BY BlankSound, TidySound

-----------------------------------------------------------------------------
\* The entry.

\* Where the wizard ends: its entry is made or brought up to date, and the
\* others of its unique id are aborted. No entry had that id, so that ids keep
\* differing.
LEMMA CreateEntryKeeps ==
    ASSUME ConfigIInv, NEW f \in Flows, flow[f].step \in PastForms, CreateEntry(f),
           WorldTyped'
    PROVE  StepSound
<1> DEFINE r == flow[f]
           data == [unique |-> r.unique, host |-> r.host, user |-> r.user,
                 pw |-> r.pw, mqtt |-> r.mqtt]
<1>1. /\ r \in FlowRecord /\ r.host \in Hosts /\ r.step # "none"
      /\ HasLoggedIn(r) /\ Owns(r)
  BY OfFlow DEF Sound, Allowed, Unlocated, PastForms, Ending
<1>2. /\ data \in EntryRecord /\ data.unique = r.unique /\ data.host = r.host
      /\ data.user = r.user /\ data.pw = r.pw
  BY <1>1 DEF EntryRecord, FlowRecord
<1>3. HasLoggedIn(r) => \/ r.proved = [host |-> data.host, user |-> data.user, pw |-> data.pw]
                        \/ r.gaveUp # 0 /\ r.gaveUp = data.pw
  BY <1>2 DEF HasLoggedIn, Triple
<1>4. ASSUME r.source = "reconfigure", Exists(r.entry), Goes(f, Blank),
             entries' = [entries EXCEPT ![r.entry] =
                           [data EXCEPT !.unique = entries[r.entry].unique]]
      PROVE  StepSound
  <2>1. ASSUME NEW d \in Entries
        PROVE  /\ entries'[d] \in EntryRecord
               /\ entries'[d].unique = entries[d].unique
               /\ \/ /\ entries'[d].host = data.host /\ entries'[d].user = data.user
                     /\ entries'[d].pw = data.pw /\ Exists(d)
                  \/ entries'[d] = entries[d]
    <3>1. entries[d] \in EntryRecord
      BY DEF ConfigIInv, EntriesSound
    <3> DEFINE new == [data EXCEPT !.unique = entries[d].unique]
    <3>2. /\ new \in EntryRecord /\ new.unique = entries[d].unique
          /\ new.host = data.host /\ new.user = data.user /\ new.pw = data.pw
      BY <1>2, <3>1 DEF EntryRecord
    <3>3. entries'[d] = IF d = r.entry THEN new ELSE entries[d]
      BY <1>4 DEF ConfigIInv, EntriesSound
    <3> HIDE DEF new, data
    <3> QED BY <1>4, <3>1, <3>2, <3>3
  <2> HIDE DEF data
  <2>2. \A d \in Entries : Exists(d)' => Exists(d)
    BY <2>1 DEF Exists
  <2>3. EntriesSound'
    <3>1. entries' \in [Entries -> EntryRecord]
      BY <1>4, <2>1 DEF ConfigIInv, EntriesSound
    <3>2. ASSUME NEW d \in Entries, Exists(d)'
          PROVE  entries'[d].host \in Hosts /\ Names(entries'[d].unique)
      BY <1>1, <1>2, <2>1, <2>2, <3>2 DEF ConfigIInv, EntriesSound
    <3>3. ASSUME NEW c \in Entries, NEW d \in Entries, Exists(c)', Exists(d)',
                 entries'[c].unique = entries'[d].unique
          PROVE  c = d
      BY <2>1, <2>2, <3>3 DEF ConfigIInv, EntriesSound
    <3> QED BY <3>1, <3>2, <3>3 DEF EntriesSound, Names, OneRouterOnly
  <2>4. FlowsSound'
    <3>1. \A id : ~AlreadyConfigured(id) => ~AlreadyConfigured(id)'
      BY <2>1, <2>2 DEF AlreadyConfigured
    <3> QED BY <1>4, <3>1, BlankSound, GoesKeepsFlows
  <2>5. CredentialsStep
    BY <1>1, <1>3, <2>1 DEF CredentialsStep
  <2>6. flow' # flow
    <3>1. flow'[f] = Tidy(Blank)
      BY <1>4 DEF Goes, ConfigIInv, FlowsSound
    <3> QED BY <1>1, <3>1, TidyBlank
  <2> QED BY <1>1, <1>2, <2>1, <2>3, <2>4, <2>5, <2>6 DEF StepSound, ConfigIInv
<1>5. CASE Goes(f, Blank) /\ UNCHANGED entries
  BY <1>5, BlankSound, MoveKeeps
<1>6. ASSUME r.source # "reconfigure", r.live,
             NEW e \in Entries, ~Exists(e), entries' = [entries EXCEPT ![e] = data],
             flow' = OthersAborted(r.unique, f, Blank)
      PROVE  StepSound
  <2>1. ~AlreadyConfigured(r.unique)
    BY <1>1, <1>6 DEF Owns
  <2>2. \A d \in Entries : entries'[d] = IF d = e THEN data ELSE entries[d]
    BY <1>6 DEF ConfigIInv, EntriesSound
  <2> HIDE DEF data
  <2>3. EntriesSound'
    <3>1. entries' \in [Entries -> EntryRecord]
      BY <1>2, <1>6 DEF ConfigIInv, EntriesSound
    <3>2. ASSUME NEW d \in Entries, Exists(d)'
          PROVE  entries'[d].host \in Hosts /\ Names(entries'[d].unique)
      <4>1. CASE d = e
        BY <1>1, <1>2, <2>2, <4>1 DEF Owns
      <4>2. CASE d # e
        BY <2>2, <3>2, <4>2 DEF ConfigIInv, EntriesSound, Exists
      <4> QED BY <4>1, <4>2
    <3>3. ASSUME NEW c \in Entries, NEW d \in Entries, Exists(c)', Exists(d)',
                 entries'[c].unique = entries'[d].unique
          PROVE  c = d
      BY <1>2, <2>1, <2>2, <3>3 DEF ConfigIInv, EntriesSound, AlreadyConfigured, Exists
    <3> QED BY <3>1, <3>2, <3>3 DEF EntriesSound, Names, OneRouterOnly
  <2>4. FlowsSound'
    <3>1. /\ flow' \in [Flows -> FlowRecord]
          /\ \A g \in Flows : Sound(flow'[g])
          /\ \A g \in Flows \ {f} :
                flow'[g].step # "none" /\ flow'[g].live => flow'[g].unique # r.unique
          /\ flow'[f] = Tidy(Blank)
      <4> HIDE DEF r
      <4> QED BY <1>6, BlankSound, OthersSound
    <3>2. ASSUME NEW g \in Flows, flow'[g].step # "none", flow'[g].live,
                 ~AlreadyConfigured(flow'[g].unique)
          PROVE  ~AlreadyConfigured(flow[g].unique)'
      <4>1. flow'[g].unique # r.unique
        BY <3>1, <3>2, TidyBlank
      <4> QED BY <1>2, <2>2, <3>2, <4>1 DEF AlreadyConfigured, Exists
    <3> QED BY <3>1, <3>2, FlowsLater
  <2>5. CredentialsStep
    BY <1>1, <1>3, <2>2 DEF CredentialsStep
  <2>6. flow' # flow
    <3>1. flow'[f] = Tidy(Blank)
      BY <1>6 DEF OthersAborted
    <3> QED BY <1>1, <3>1, TidyBlank
  <2> QED BY <1>1, <1>2, <2>2, <2>3, <2>4, <2>5, <2>6 DEF StepSound, ConfigIInv
<1>7. CASE r.source = "reconfigure"
  BY <1>4, <1>7 DEF CreateEntry, EntryGone
<1>8. CASE r.source # "reconfigure" /\ r.live
  <2> DEFINE Free == {e \in Entries : ~Exists(e)}
             e == CHOOSE e \in Free : TRUE
  <2>1. /\ Free # {} /\ entries' = [entries EXCEPT ![e] = data]
        /\ flow' = OthersAborted(r.unique, f, Blank)
    BY <1>8 DEF CreateEntry
  <2>2. e \in Free
    BY <2>1
  <2> HIDE DEF e, data
  <2> QED BY <1>6, <1>8, <2>1, <2>2
<1>9. CASE r.source # "reconfigure" /\ ~r.live
  BY <1>5, <1>9 DEF CreateEntry
<1> QED BY <1>7, <1>8, <1>9

-----------------------------------------------------------------------------
\* Repairs before the login.

\* After a failed test: repair, or other credentials.
LEMMA DiagnosticsKeeps ==
    ASSUME ConfigIInv, NEW f \in Flows, NEW repair \in BOOLEAN, Diagnostics(f, repair)
    PROVE  StepSound
<1> DEFINE step == IF ~repair THEN "credentials"
                   ELSE IF flow[f].user = "root" THEN "repairing"
                   ELSE "repair_credentials"
<1>1. /\ flow[f].step = "diagnostics" /\ UNCHANGED <<entries, router>>
      /\ Goes(f, [flow[f] EXCEPT !.step = step])
  BY DEF Diagnostics
<1>2. step \in {"credentials", "repairing", "repair_credentials"}
  OBVIOUS
<1> HIDE DEF step
<1>3. /\ step \in Forms \cup Awaits
      /\ step \notin {"testing", "provisioning", "display_new_user"} \cup PastForms
      /\ flow[f].step \in Forms \ Unlocated
  BY <1>1, <1>2 DEF Forms, Awaits, PastForms, Ending, Unlocated
<1> QED BY <1>1, <1>3, PlainStepKeeps

\* The repair asks for root.
LEMMA RepairCredentialsKeeps ==
    ASSUME ConfigIInv, NEW f \in Flows, RepairCredentials(f)
    PROVE  StepSound
<1>1. /\ flow[f].step = "repair_credentials" /\ UNCHANGED <<entries, router>>
      /\ Goes(f, [flow[f] EXCEPT !.step = "repairing"])
  BY DEF RepairCredentials
<1>2. /\ "repairing" \in Forms \cup Awaits /\ "repairing" \notin PastForms
      /\ "repair_credentials" \in Forms \ Unlocated
  BY DEF Forms, Awaits, PastForms, Ending, Unlocated
<1> QED BY <1>1, <1>2, PlainStepKeeps

\* The repair has run, and the credentials are tested again.
LEMMA RunRepairKeeps ==
    ASSUME ConfigIInv, NEW f \in Flows, RunRepair(f)
    PROVE  StepSound
<1> DEFINE r == flow[f]
<1>1. r.step = "repairing" /\ UNCHANGED <<entries, router>>
  BY DEF RunRepair
<1>2. r \in FlowRecord /\ r.host \in Hosts
  BY <1>1, OfFlow DEF Sound, Allowed, Unlocated
<1>3. r.user \in Users /\ r.pw \in Passwords
  BY <1>2 DEF FlowRecord
<1>4. CASE Goes(f, Testing(r, "run_repair", r.user, r.pw))
  <2> HIDE DEF r
  <2>1. Sound(Testing(r, "run_repair", r.user, r.pw))
    BY <1>2, <1>3, TestingSound DEF UserTests
  <2> QED BY <1>1, <1>4, <2>1, MoveKeeps, StillWorld
<1>5. CASE Goes(f, Show(r, "repair_failed"))
  <2> HIDE DEF r
  <2>1. Allowed(r, "repair_failed")
    BY <1>2 DEF Allowed, PastForms, Ending
  <2> QED BY <1>1, <1>2, <1>5, <2>1, ShowKeeps DEF Forms
<1> QED BY <1>4, <1>5 DEF RunRepair

-----------------------------------------------------------------------------
\* After the login.

\* Between two of the forms that follow the login.
LEMMA OnwardKeeps ==
    ASSUME ConfigIInv, NEW f \in Flows, flow[f].step \in PastForms \cap Forms,
           NEW step \in {"provision_user", "reuse_user", "permissions", "ubus_restricted",
                         "packages", "selective_tracking", "mqtt_presence", "mqtt_zone",
                         "deploying"},
           Goes(f, [flow[f] EXCEPT !.step = step]), UNCHANGED <<entries, router>>
    PROVE  StepSound
<1>1. step \in Forms \cup Awaits /\ flow[f].step \notin Unlocated
  BY DEF Forms, Awaits, PastForms, Ending, Unlocated
<1> QED BY <1>1, PlainStepKeeps

\* The repaired router has been logged in to: on with the setup, or the entry
\* that reported the trouble has its credentials.
LEMMA RepairSuccessKeeps ==
    ASSUME ConfigIInv, NEW f \in Flows, RepairSuccess(f)
    PROVE  StepSound
<1> DEFINE r == flow[f]
<1>1. r.step = "repair_success" /\ UNCHANGED router
  BY DEF RepairSuccess
<1>2. r.step \in PastForms \cap Forms
  BY <1>1 DEF PastForms, Forms
<1>3. \/ Goes(f, [r EXCEPT !.step = "provision_user"]) /\ UNCHANGED entries
      \/ Goes(f, [r EXCEPT !.step = PermissionsForm(r)]) /\ UNCHANGED entries
      \/ Goes(f, [r EXCEPT !.step = "packages"]) /\ UNCHANGED entries
      \/ CreateEntry(f)
  BY DEF RepairSuccess
<1>4. PermissionsForm(r) \in {"packages", "mqtt_presence", "ubus_restricted", "permissions"}
  BY FormsAfterLogin
<1>5. CASE CreateEntry(f)
  BY <1>1, <1>2, <1>5, CreateEntryKeeps, StillWorld
<1> QED BY <1>1, <1>2, <1>3, <1>4, <1>5, OnwardKeeps

\* Every step of logging in.
LEMMA LogsInKeeps ==
    ASSUME ConfigIInv, NEW f \in Flows, LogsIn(f)
    PROVE  StepSound
<1>1. ASSUME NEW u \in Users, NEW p \in Typed(flow[f].host, u),
             SubmitCredentials(f, u, p) \/ SubmitReauth(f, u, p)
      PROVE  StepSound
  BY <1>1, TypedPassword, SubmitCredentialsKeeps
<1>2. ASSUME NEW p \in Typed(flow[f].host, "homeassistant"), SubmitReuse(f, p)
      PROVE  StepSound
  BY <1>2, TypedPassword, SubmitReuseKeeps DEF Users
<1>3. SubmitNewUser(f, TRUE) => StepSound
  BY SubmitNewUserKeeps
<1>4. ASSUME NEW repair \in BOOLEAN, Diagnostics(f, repair)
      PROVE  StepSound
  BY <1>4, DiagnosticsKeeps
<1> QED BY <1>1, <1>2, <1>3, <1>4, SetupTestPassesKeeps, UserTestPassesKeeps,
           ReauthTestPassesKeeps, TestFailsKeeps, RepairCredentialsKeeps, RunRepairKeeps,
           RepairSuccessKeeps DEF LogsIn

\* Whether to make a user of one's own on the router.
LEMMA ProvisionUserKeeps ==
    ASSUME ConfigIInv, NEW f \in Flows, NEW mode \in {"create", "reset", "reuse", "skip"},
           ProvisionUser(f, mode)
    PROVE  StepSound
<1> DEFINE r == flow[f]
           step == CASE mode \in {"create", "reset"} -> "provisioning"
                  [] mode = "reuse" -> "reuse_user"
                  [] OTHER -> PermissionsForm(r)
<1>1. r.step = "provision_user" /\ UNCHANGED <<entries, password, deployed>>
  BY DEF ProvisionUser
<1>2. /\ r.step \in PastForms \cap Forms /\ r \in FlowRecord /\ r.live
      /\ Allowed(r, r.step) /\ r.host \in Hosts
  BY <1>1, OfFlow DEF PastForms, Forms, Sound, Awaits, Allowed, Unlocated
<1>3. CASE step = "provisioning"
  <2> DEFINE s == [r EXCEPT !.generated = fresh]
  <2>1. /\ fresh <= MaxPassword /\ fresh' = fresh + 1
        /\ Goes(f, [r EXCEPT !.step = "provisioning", !.generated = fresh])
    BY <1>3 DEF ProvisionUser
  <2>2. fresh \in Passwords /\ fresh # 0 /\ WorldTyped'
    BY <1>1, <2>1, FlowConstants DEF ConfigIInv, WorldTyped, Passwords
  <2>3. /\ s \in FlowRecord /\ s.generated = fresh /\ s.live /\ s.host = r.host
        /\ s.user = r.user /\ s.pw = r.pw /\ s.proved = r.proved /\ s.gaveUp = r.gaveUp
        /\ s.source = r.source /\ s.unique = r.unique
    BY <1>2, <2>2 DEF FlowRecord
  <2>4. [r EXCEPT !.step = "provisioning", !.generated = fresh]
        = [s EXCEPT !.step = "provisioning"]
    BY <1>2 DEF FlowRecord
  <2> HIDE DEF s
  <2>5. HasLoggedIn(s) /\ Owns(s)
    BY <1>1, <1>2, <2>3 DEF Allowed, HasLoggedIn, Triple, Owns
  <2>6. Allowed(s, "provisioning")
    BY <1>2, <2>2, <2>3, <2>5 DEF Allowed
  <2>7. Sound([s EXCEPT !.step = "provisioning"])
    BY <2>3, <2>6, StepSoundRecord DEF Awaits
  <2> QED BY <1>1, <2>1, <2>2, <2>4, <2>7, MoveKeeps
<1>4. CASE step # "provisioning"
  <2>1. Goes(f, [r EXCEPT !.step = step]) /\ UNCHANGED <<entries, router>>
    BY <1>1, <1>4 DEF ProvisionUser, router
  <2>2. step \in {"reuse_user", "packages", "mqtt_presence", "ubus_restricted", "permissions"}
    BY <1>4, FormsAfterLogin
  <2> HIDE DEF step
  <2> QED BY <1>2, <2>1, <2>2, OnwardKeeps
<1> QED BY <1>3, <1>4

\* The user was made or not.
LEMMA ProvisionEndsKeeps ==
    ASSUME ConfigIInv, NEW f \in Flows, NEW applied \in BOOLEAN, NEW success \in BOOLEAN,
           ProvisionEnds(f, applied, success)
    PROVE  StepSound
<1> DEFINE r == flow[f]
<1>1. r.step = "provisioning" /\ UNCHANGED <<entries, fresh, deployed>>
  BY DEF ProvisionEnds
<1>2. r \in FlowRecord /\ Allowed(r, r.step)
  BY <1>1, OfFlow DEF Sound
<1>3. WorldTyped'
  <2>1. r.generated \in Passwords
    BY <1>2 DEF FlowRecord
  <2>2. password' \in [Routers -> [Users -> Passwords]]
    BY <2>1 DEF ConfigIInv, WorldTyped, ProvisionEnds, Provisioned
  <2> QED BY <1>1, <2>2 DEF ConfigIInv, WorldTyped
<1> DEFINE step == IF success THEN "display_new_user" ELSE "provision_failed"
<1>4. Goes(f, Show(r, step))
  BY DEF ProvisionEnds
<1>5. step \in {"display_new_user", "provision_failed"}
  OBVIOUS
<1> HIDE DEF r, step
<1>6. Allowed(r, step)
  BY <1>1, <1>2, <1>5 DEF Allowed, PastForms, Unlocated
<1>7. Sound(Show(r, step))
  BY <1>2, <1>5, <1>6, ShowSound DEF Forms
<1> QED BY <1>1, <1>3, <1>4, <1>7, MoveKeeps

\* On without a user of one's own.
LEMMA KeepUserKeeps ==
    ASSUME ConfigIInv, NEW f \in Flows, KeepUser(f)
    PROVE  StepSound
<1>1. /\ flow[f].step \in PastForms \cap Forms /\ UNCHANGED <<entries, router>>
      /\ Goes(f, [flow[f] EXCEPT !.step = PermissionsForm(flow[f])])
  BY DEF KeepUser, PastForms, Forms
<1> QED BY <1>1, OnwardKeeps, FormsAfterLogin

\* Every step of provisioning.
LEMMA ProvisionsKeep ==
    ASSUME ConfigIInv, NEW f \in Flows, Provisions(f)
    PROVE  StepSound
  BY ProvisionUserKeeps, ProvisionEndsKeeps, KeepUserKeeps DEF Provisions

\* The forms that only collect options.
LEMMA FormsKeep ==
    ASSUME ConfigIInv, NEW f \in Flows,
           \/ Permissions(f) \/ UbusRestricted(f) \/ SelectiveTracking(f)
           \/ \E track \in BOOLEAN : Packages(f, track)
           \/ MqttDeploy(f) \/ MqttBack(f)
    PROVE  StepSound
<1>1. PICK step \in {"packages", "mqtt_presence", "selective_tracking", "deploying"} :
         /\ flow[f].step \in {"permissions", "ubus_restricted", "selective_tracking",
                              "packages", "mqtt_zone", "deploy_failed"}
         /\ Goes(f, [flow[f] EXCEPT !.step = step]) /\ UNCHANGED <<entries, router>>
  BY DEF Permissions, UbusRestricted, SelectiveTracking, Packages, MqttDeploy, MqttBack
<1>2. flow[f].step \in PastForms \cap Forms
  BY <1>1 DEF PastForms, Ending, Forms
<1> QED BY <1>1, <1>2, OnwardKeeps

\* Presence over MQTT is chosen.
LEMMA MqttPresenceKeeps ==
    ASSUME ConfigIInv, NEW f \in Flows, NEW broker \in Brokers, MqttPresence(f, broker)
    PROVE  StepSound
<1> DEFINE r == flow[f]
           s == [r EXCEPT !.mqtt = broker]
<1>1. r.step = "mqtt_presence" /\ UNCHANGED <<entries, router>>
  BY DEF MqttPresence
<1>2. /\ r \in FlowRecord /\ r.live /\ r.host \in Hosts /\ HasLoggedIn(r) /\ Owns(r)
  BY <1>1, OfFlow DEF Sound, Awaits, Allowed, Unlocated, PastForms, Ending
<1>3. /\ s \in FlowRecord /\ s.live = r.live /\ s.host = r.host
      /\ s.user = r.user /\ s.pw = r.pw /\ s.proved = r.proved
      /\ s.gaveUp = r.gaveUp /\ s.source = r.source /\ s.unique = r.unique
      /\ [r EXCEPT !.mqtt = broker, !.step = "mqtt_zone"] = [s EXCEPT !.step = "mqtt_zone"]
  BY <1>2 DEF FlowRecord, Settings
<1>4. Goes(f, [s EXCEPT !.step = "mqtt_zone"])
  BY <1>3 DEF MqttPresence
<1> HIDE DEF s
<1>5. HasLoggedIn(s) /\ Owns(s)
  BY <1>2, <1>3 DEF HasLoggedIn, Triple, Owns
<1>6. Allowed(s, "mqtt_zone")
  BY <1>2, <1>3, <1>5 DEF Allowed
<1> QED BY <1>1, <1>2, <1>3, <1>4, <1>6, StepKeeps DEF Forms

\* The presence scripts were installed: the entry is made.
LEMMA DeployPassesKeeps ==
    ASSUME ConfigIInv, NEW f \in Flows, DeployPasses(f)
    PROVE  StepSound
<1>1. flow[f].step = "deploying" /\ flow[f] \in FlowRecord /\ CreateEntry(f)
  BY OfFlow DEF DeployPasses
<1>2. flow[f].mqtt \in Settings
  BY <1>1 DEF FlowRecord
<1>3. WorldTyped'
  BY <1>2 DEF DeployPasses, Scripts, ConfigIInv, WorldTyped
<1>4. flow[f].step \in PastForms
  BY <1>1 DEF PastForms, Ending
<1> QED BY <1>1, <1>3, <1>4, CreateEntryKeeps

\* They were not: the user is told.
LEMMA DeployFailsKeeps ==
    ASSUME ConfigIInv, NEW f \in Flows, DeployFails(f)
    PROVE  StepSound
<1> DEFINE r == flow[f]
<1>1. r.step = "deploying" /\ Goes(f, Show(r, "deploy_failed")) /\ UNCHANGED entries
  BY DEF DeployFails
<1>2. r \in FlowRecord /\ Allowed(r, r.step)
  BY <1>1, OfFlow DEF Sound
<1>3. WorldTyped'
  <2>1. r.mqtt \in Settings
    BY <1>2 DEF FlowRecord
  <2> QED BY <2>1 DEF DeployFails, Scripts, ConfigIInv, WorldTyped
<1> HIDE DEF r
<1>4. Allowed(r, "deploy_failed")
  BY <1>1, <1>2 DEF Allowed, PastForms, Ending, Unlocated
<1>5. Sound(Show(r, "deploy_failed"))
  BY <1>2, <1>4, ShowSound DEF Forms
<1> QED BY <1>1, <1>3, <1>5, MoveKeeps

\* The user goes on without them.
LEMMA DeclineKeeps ==
    ASSUME ConfigIInv, NEW f \in Flows, Decline(f)
    PROVE  StepSound
<1>1. flow[f].step \in PastForms /\ CreateEntry(f) /\ UNCHANGED router
  BY DEF Decline, PastForms, Ending
<1> QED BY <1>1, CreateEntryKeeps, StillWorld

\* Every step of choosing the options of the setup.
LEMMA ChoosesKeep ==
    ASSUME ConfigIInv, NEW f \in Flows, Chooses(f)
    PROVE  StepSound
  BY FormsKeep, MqttPresenceKeeps, DeployPassesKeeps, DeployFailsKeeps, DeclineKeeps
  DEF Chooses

-----------------------------------------------------------------------------
\* All steps of the wizards.

\* Somebody changes a password on the router.
LEMMA ChangePasswordKeeps ==
    ASSUME ConfigIInv, NEW r \in Routers, NEW user \in Users, ChangePassword(r, user)
    PROVE  StepSound
<1>1. WorldTyped'
  <2>1. fresh \in Passwords /\ fresh' \in 3..(MaxPassword + 1)
    BY FlowConstants DEF ChangePassword, ConfigIInv, WorldTyped, Passwords
  <2> QED BY <2>1 DEF ChangePassword, ConfigIInv, WorldTyped
<1>2. UNCHANGED <<flow, entries>>
  BY DEF ChangePassword
<1>3. EntriesSound'
  BY <1>2 DEF ConfigIInv, EntriesSound, Exists, Names, OneRouterOnly
<1>4. FlowsSound'
  <2>1. \A g \in Flows : Sound(flow'[g])
    BY <1>2 DEF ConfigIInv, FlowsSound
  <2>2. \A g \in Flows : ~AlreadyConfigured(flow'[g].unique)
                         => ~AlreadyConfigured(flow[g].unique)'
    BY <1>2 DEF AlreadyConfigured, Exists
  <2>3. flow' \in [Flows -> FlowRecord]
    BY <1>2 DEF ConfigIInv, FlowsSound
  <2> QED BY <2>1, <2>2, <2>3, FlowsLater
<1>5. CredentialsStep
  BY <1>2 DEF CredentialsStep
<1> QED BY <1>1, <1>2, <1>3, <1>4, <1>5 DEF StepSound, ConfigIInv

\* Every step of the wizards.
LEMMA ConfigNextKeeps == ConfigIInv /\ ConfigNext => StepSound
  BY StartsKeep, LocatesKeep, LogsInKeeps, ProvisionsKeep, ChoosesKeep, AbandonKeeps,
     ChangePasswordKeeps DEF ConfigNext, FlowStep

-----------------------------------------------------------------------------
\* The options dialog.

\* What the options dialog must know to stand at a step: its entry exists, what
\* it removes it was asked to remove, and what it is about to store is on the
\* router.
OptFits(o, step) ==
    /\ o.entry \in Entries /\ entries[o.entry].host \in Hosts
    /\ step \in {"removing", "options_remove_failed"} => o.mqtt = "off"
    /\ step = "storing" => o.mqtt = "off" \/ o.put = o.mqtt

\* The options dialog's part of the inductive invariant.
OptionsSound ==
    /\ opt \in OptRecord
    /\ opt.step # "none" => OptFits(opt, opt.step)

\* The inductive invariant.
IInv == ConfigIInv /\ OptionsSound

\* What a step of the options dialog does: it keeps the invariant, touches no
\* credentials, and stores presence settings only if they were put on the
\* router.
OptStepSound ==
    /\ IInv'
    /\ UNCHANGED flow
    /\ \A e \in Entries : /\ entries'[e].user = entries[e].user /\ entries'[e].pw = entries[e].pw
                          /\ \/ entries'[e].mqtt \in {entries[e].mqtt, "off"}
                             \/ opt.put = entries'[e].mqtt

\* No options dialog is open.
LEMMA NoOptionsSound == NoOptions \in OptRecord /\ NoOptions.step = "none"
<1> DEFINE no == FALSE
           root == [user |-> "root", pw |-> 0]
           blank == [step |-> "none", entry |-> "none", mqtt |-> "off",
              redeploy |-> no, root |-> root,
              perms |-> "none", pkgs |-> no, restricted |-> no,
              put |-> "none"]
<1>1. NoOptions = blank
  BY DEF NoOptions
<1>2. no \in BOOLEAN /\ root \in [user : Users, pw : Passwords]
  BY FlowConstants DEF Users, Passwords
<1> HIDE DEF no, root
<1> QED BY <1>1, <1>2 DEF OptRecord, Settings

\* The dialog moves with what it knows.
LEMMA BecomesSound ==
    ASSUME NEW o \in OptRecord, NEW step \in OptForms \cup OptAwaits, Becomes(o, step)
    PROVE  /\ opt' \in OptRecord /\ opt'.step = step /\ opt'.entry = o.entry
           /\ opt'.mqtt = o.mqtt /\ opt'.put = o.put
<1> DEFINE no == FALSE
           new == IF step = "redeploying" THEN o ELSE [o EXCEPT !.root = NoOptions.root]
           kept == [new EXCEPT !.step = step]
           forgot == [new EXCEPT !.step = step, !.pkgs = no, !.restricted = no]
<1>1. opt' \in {kept, forgot}
  BY DEF Becomes
<1>2. no \in BOOLEAN /\ NoOptions.root \in [user : Users, pw : Passwords]
  BY NoOptionsSound DEF OptRecord
<1> HIDE DEF no
<1>3. new \in OptRecord /\ new.entry = o.entry /\ new.mqtt = o.mqtt /\ new.put = o.put
  BY <1>2 DEF OptRecord
<1> HIDE DEF new
<1>4. /\ kept \in OptRecord /\ kept.step = step /\ kept.entry = o.entry
      /\ kept.mqtt = o.mqtt /\ kept.put = o.put
  BY <1>3 DEF OptRecord
<1>5. /\ forgot \in OptRecord /\ forgot.step = step /\ forgot.entry = o.entry
      /\ forgot.mqtt = o.mqtt /\ forgot.put = o.put
  <2> DEFINE kept2 == [kept EXCEPT !.pkgs = no]
  <2>1. kept2 \in OptRecord
    BY <1>2, <1>4 DEF OptRecord
  <2>2. forgot = [kept2 EXCEPT !.restricted = no]
    BY <1>3 DEF OptRecord
  <2>3. forgot \in OptRecord
    BY <1>2, <2>1, <2>2 DEF OptRecord
  <2> QED BY <1>3, <2>3 DEF OptRecord
<1> QED BY <1>1, <1>4, <1>5

\* What leaves wizards and entries alone keeps their part.
LEMMA SameWizards ==
    ASSUME ConfigIInv, UNCHANGED <<flow, entries>>, WorldTyped'
    PROVE  ConfigIInv'
<1>1. EntriesSound'
  BY DEF ConfigIInv, EntriesSound, Exists, Names, OneRouterOnly
<1>2. FlowsSound'
  <2>1. \A g \in Flows : Sound(flow'[g])
    BY DEF ConfigIInv, FlowsSound
  <2>2. \A g \in Flows : ~AlreadyConfigured(flow'[g].unique)
                         => ~AlreadyConfigured(flow[g].unique)'
    BY DEF AlreadyConfigured, Exists
  <2>3. flow' \in [Flows -> FlowRecord]
    BY DEF ConfigIInv, FlowsSound
  <2> QED BY <2>1, <2>2, <2>3, FlowsLater
<1> QED BY <1>1, <1>2 DEF ConfigIInv

\* The dialog moves to a step whose needs are met.
LEMMA BecomesKeeps ==
    ASSUME IInv, NEW o \in OptRecord, NEW step \in OptForms \cup OptAwaits,
           OptFits(o, step), Becomes(o, step), UNCHANGED <<flow, entries>>, WorldTyped'
    PROVE  OptStepSound
<1>1. ConfigIInv'
  BY SameWizards DEF IInv
<1>2. /\ opt' \in OptRecord /\ opt'.step = step /\ opt'.entry = o.entry
      /\ opt'.mqtt = o.mqtt /\ opt'.put = o.put
  BY BecomesSound
<1>3. OptionsSound'
  BY <1>2 DEF OptionsSound, OptFits
<1> QED BY <1>1, <1>3 DEF OptStepSound, IInv

\* The dialog ends with the presence settings in its entry.
LEMMA PresenceStored ==
    ASSUME IInv, opt.step # "none", NEW m \in Settings,
           m \in {Entry.mqtt, "off", opt.put},
           entries' = [entries EXCEPT ![opt.entry].mqtt = m], opt' = NoOptions,
           UNCHANGED <<flow, router>>
    PROVE  OptStepSound
<1>1. opt.entry \in Entries /\ Exists(opt.entry)
  BY FlowConstants DEF IInv, OptionsSound, OptFits, Exists, NoEntry
<1>2. ASSUME NEW d \in Entries
      PROVE  /\ entries'[d] \in EntryRecord
             /\ entries'[d].unique = entries[d].unique /\ entries'[d].host = entries[d].host
             /\ entries'[d].user = entries[d].user /\ entries'[d].pw = entries[d].pw
             /\ \/ entries'[d].mqtt \in {entries[d].mqtt, "off"}
                \/ opt.put = entries'[d].mqtt
             /\ Exists(d)' => Exists(d)
  <2>1. entries[d] \in EntryRecord
    BY DEF IInv, ConfigIInv, EntriesSound
  <2> DEFINE new == [entries[d] EXCEPT !.mqtt = m]
  <2>2. /\ new \in EntryRecord /\ new.unique = entries[d].unique /\ new.host = entries[d].host
        /\ new.user = entries[d].user /\ new.pw = entries[d].pw /\ new.mqtt = m
    BY <2>1 DEF EntryRecord
  <2>3. entries'[d] = IF d = opt.entry THEN new ELSE entries[d]
    BY DEF IInv, ConfigIInv, EntriesSound
  <2> HIDE DEF new
  <2> QED BY <1>1, <2>1, <2>2, <2>3 DEF Entry, Exists
<1>3. EntriesSound'
  <2>1. entries' \in [Entries -> EntryRecord]
    BY <1>2 DEF IInv, ConfigIInv, EntriesSound
  <2>2. ASSUME NEW d \in Entries, Exists(d)'
        PROVE  entries'[d].host \in Hosts /\ Names(entries'[d].unique)
    BY <1>2, <2>2 DEF IInv, ConfigIInv, EntriesSound
  <2>3. ASSUME NEW c \in Entries, NEW d \in Entries, Exists(c)', Exists(d)',
               entries'[c].unique = entries'[d].unique
        PROVE  c = d
    BY <1>2, <2>3 DEF IInv, ConfigIInv, EntriesSound
  <2> QED BY <2>1, <2>2, <2>3 DEF EntriesSound, Names, OneRouterOnly
<1>4. FlowsSound'
  <2>1. \A g \in Flows : Sound(flow'[g])
    BY DEF IInv, ConfigIInv, FlowsSound
  <2>2. \A g \in Flows : ~AlreadyConfigured(flow'[g].unique)
                         => ~AlreadyConfigured(flow[g].unique)'
    BY <1>2 DEF AlreadyConfigured
  <2>3. flow' \in [Flows -> FlowRecord]
    BY DEF IInv, ConfigIInv, FlowsSound
  <2> QED BY <2>1, <2>2, <2>3, FlowsLater
<1>5. OptionsSound'
  BY NoOptionsSound DEF OptionsSound
<1> QED BY <1>2, <1>3, <1>4, <1>5, StillWorld DEF OptStepSound, IInv, ConfigIInv

\* _async_finalize_options: remove, deploy, or store as it is.
LEMMA FinalizeKeeps ==
    ASSUME IInv, opt.step # "none", NEW o \in OptRecord, o.entry = opt.entry,
           Finalize(o), UNCHANGED <<flow, router>>
    PROVE  OptStepSound
<1>1. o.entry \in Entries /\ entries[o.entry].host \in Hosts /\ o.mqtt \in Settings
  BY DEF IInv, OptionsSound, OptFits, OptRecord
<1>2. CASE ShouldRemove(o)
  <2>1. OptFits(o, "removing")
    BY <1>1, <1>2 DEF ShouldRemove, OptFits
  <2> QED BY <1>2, <2>1, BecomesKeeps, StillWorld DEF Finalize, OptAwaits, IInv
<1>3. CASE ~ShouldRemove(o) /\ ShouldRedeploy(o)
  <2>1. OptFits(o, "deploying")
    BY <1>1 DEF OptFits
  <2> QED BY <1>3, <2>1, BecomesKeeps, StillWorld DEF Finalize, OptAwaits, IInv
<1>4. CASE ~ShouldRemove(o) /\ ~ShouldRedeploy(o)
  <2>1. entries' = [entries EXCEPT ![opt.entry].mqtt = o.mqtt] /\ opt' = NoOptions
    BY <1>4 DEF Finalize
  <2>2. o.mqtt \in {Entry.mqtt, "off"}
    BY <1>4 DEF ShouldRedeploy
  <2> QED BY <1>1, <2>1, <2>2, PresenceStored
<1> QED BY <1>2, <1>3, <1>4

\* What the invariant says of an open dialog.
LEMMA OfOptions ==
    ASSUME IInv, opt.step # "none"
    PROVE  /\ opt \in OptRecord /\ OptFits(opt, opt.step)
           /\ opt.entry \in Entries /\ Entry \in EntryRecord /\ Entry.host \in Hosts
           /\ RouterAt[Entry.host] \in Routers
           /\ \A step \in OptForms \cup OptAwaits :
                 step \notin {"removing", "options_remove_failed", "storing"}
                 => OptFits(opt, step)
  BY FlowConstants DEF IInv, OptionsSound, OptFits, ConfigIInv, EntriesSound, Entry

\* The dialog of an entry is opened.
LEMMA OpenKeeps ==
    ASSUME IInv, NEW e \in Entries, Open(e)
    PROVE  OptStepSound
<1> DEFINE o == [NoOptions EXCEPT !.entry = e]
<1>1. o \in OptRecord /\ o.entry = e
  BY NoOptionsSound DEF OptRecord
<1>2. Becomes(o, "init") /\ UNCHANGED flowVars
  BY DEF Open
<1> HIDE DEF o
<1>3. OptFits(o, "init")
  BY <1>1 DEF OptFits, Open, IInv, ConfigIInv, EntriesSound
<1> QED BY <1>1, <1>2, <1>3, BecomesKeeps, StillWorld DEF flowVars, OptForms, IInv

\* The user closes it.
LEMMA CloseKeeps ==
    ASSUME IInv, Close
    PROVE  OptStepSound
<1>1. ConfigIInv'
  BY SameWizards, StillWorld DEF IInv, Close, flowVars
<1>2. OptionsSound'
  BY NoOptionsSound DEF OptionsSound, Close
<1> QED BY <1>1, <1>2 DEF OptStepSound, IInv, Close, flowVars

\* async_step_init
LEMMA SubmitInitKeeps ==
    ASSUME IInv, NEW presence \in BOOLEAN, NEW redeploy \in BOOLEAN,
           NEW redeployUser \in BOOLEAN, SubmitInit(presence, redeploy, redeployUser)
    PROVE  OptStepSound
<1> DEFINE mqtt == IF ~presence THEN "off"
                   ELSE IF Entry.mqtt # "off" THEN Entry.mqtt
                   ELSE CHOOSE b \in Brokers : TRUE
           o == [opt EXCEPT !.redeploy = redeploy, !.mqtt = mqtt]
           step == IF redeployUser THEN "options_redeploy_user"
                   ELSE IF ShouldRedeploy(o) THEN "options_mqtt_presence"
                   ELSE "checking"
<1>1. opt.step # "none" /\ Becomes(o, step) /\ UNCHANGED flowVars
  BY DEF SubmitInit, At
<1>2. mqtt \in Settings
  BY <1>1, FlowConstants, OfOptions DEF EntryRecord, Settings
<1>3. step \in {"options_redeploy_user", "options_mqtt_presence", "checking"}
  OBVIOUS
<1> HIDE DEF mqtt, step
<1>4. o \in OptRecord /\ o.entry = opt.entry
  BY <1>1, <1>2, OfOptions DEF OptRecord
<1>5. OptFits(o, step)
  BY <1>1, <1>3, <1>4, OfOptions DEF OptFits, OptForms, OptAwaits
<1>6. step \in OptForms \cup OptAwaits
  BY <1>3 DEF OptForms, OptAwaits
<1> HIDE DEF o
<1> QED BY <1>1, <1>4, <1>5, <1>6, BecomesKeeps, StillWorld DEF flowVars, IInv

\* The root password for making the user again.
LEMMA SubmitRootKeeps ==
    ASSUME IInv, NEW user \in Users, NEW pw \in Typed(Entry.host, user), SubmitRoot(user, pw)
    PROVE  OptStepSound
<1> DEFINE root == [user |-> user, pw |-> pw]
           o == [opt EXCEPT !.root = root]
<1>1. opt.step # "none" /\ Becomes(o, "redeploying") /\ UNCHANGED flowVars
  BY DEF SubmitRoot, At
<1>2. pw \in Passwords
  <2>1. 0 \in Passwords
    BY FlowConstants DEF Passwords
  <2>2. password[RouterAt[Entry.host]][user] \in Passwords
    BY <1>1, OfOptions DEF IInv, ConfigIInv, WorldTyped
  <2> QED BY <2>1, <2>2 DEF Typed
<1>3. root \in [user : Users, pw : Passwords]
  BY <1>2
<1> HIDE DEF root
<1>4. o \in OptRecord /\ o.entry = opt.entry
  BY <1>1, <1>3, OfOptions DEF OptRecord
<1>5. OptFits(o, "redeploying")
  BY <1>1, <1>4, OfOptions DEF OptFits
<1> HIDE DEF o
<1> QED BY <1>1, <1>4, <1>5, BecomesKeeps, StillWorld DEF flowVars, IInv, OptAwaits

\* The user is made again on the router.
LEMMA RedeployUserKeeps ==
    ASSUME IInv, NEW applied \in BOOLEAN, NEW success \in BOOLEAN,
           RedeployUser(applied, success)
    PROVE  OptStepSound
<1> DEFINE step == IF ~success THEN "options_redeploy_user_failed"
                    ELSE IF ShouldRedeploy(opt) THEN "options_mqtt_presence"
                    ELSE "checking"
<1>1. opt.step # "none" /\ Becomes(opt, step) /\ UNCHANGED <<flow, entries, fresh, deployed>>
  BY DEF RedeployUser, At
<1>2. WorldTyped'
  <2> DEFINE pw == Entry.pw
             user == Entry.user
             r == RouterAt[Entry.host]
  <2>1. pw \in Passwords
    BY <1>1, OfOptions DEF EntryRecord
  <2>2. password' = [password EXCEPT ![r][user] = pw] \/ password' = password
    BY DEF RedeployUser, Provisioned
  <2>3. password \in [Routers -> [Users -> Passwords]]
    BY DEF IInv, ConfigIInv, WorldTyped
  <2> HIDE DEF pw, user, r
  <2>4. password' \in [Routers -> [Users -> Passwords]]
    BY <2>1, <2>2, <2>3
  <2> QED BY <1>1, <2>4 DEF IInv, ConfigIInv, WorldTyped
<1>3. step \in {"options_redeploy_user_failed", "options_mqtt_presence", "checking"}
  OBVIOUS
<1> HIDE DEF step
<1>4. step \in OptForms \cup OptAwaits
  BY <1>3 DEF OptForms, OptAwaits
<1> QED BY <1>1, <1>2, <1>3, <1>4, OfOptions, BecomesKeeps

\* The broker of the presence scripts.
LEMMA MqttOptionsKeeps ==
    ASSUME IInv, NEW setting \in Settings, NEW known \in {"none", "ro", "rw"},
           MqttOptions(setting, known)
    PROVE  OptStepSound
<1> DEFINE perms == IF opt.perms = "none" THEN known ELSE opt.perms
           o == [opt EXCEPT !.perms = perms]
           p == [o EXCEPT !.mqtt = setting]
<1>1. opt.step = "options_mqtt_presence" /\ UNCHANGED flowVars
  BY DEF MqttOptions, At
<1>2. perms \in {"none", "ro", "rw"}
  BY <1>1, OfOptions DEF OptRecord
<1>3. \/ setting = "off" /\ Becomes([o EXCEPT !.mqtt = "off"], "checking")
      \/ opt' = o
      \/ Becomes(p, "options_mqtt_zone")
  BY DEF MqttOptions
<1> HIDE DEF perms
<1>4. o \in OptRecord /\ o.entry = opt.entry /\ o.step = opt.step
  BY <1>1, <1>2, OfOptions DEF OptRecord
<1> HIDE DEF o
<1>5. p \in OptRecord /\ p.entry = opt.entry
  BY <1>4 DEF OptRecord
<1>6. /\ OptFits(o, "options_mqtt_presence") /\ OptFits(p, "checking")
      /\ OptFits(p, "options_mqtt_zone")
  BY <1>1, <1>4, <1>5, OfOptions DEF OptFits
<1>7. CASE opt' = o
  <2>1. ConfigIInv'
    BY <1>1, SameWizards, StillWorld DEF IInv, flowVars
  <2>2. OptionsSound'
    BY <1>1, <1>4, <1>6, <1>7 DEF OptionsSound, OptFits, flowVars
  <2> QED BY <1>1, <2>1, <2>2 DEF OptStepSound, IInv, flowVars
<1>8. CASE Becomes(p, "checking")
  <2> HIDE DEF p
  <2> QED BY <1>1, <1>5, <1>6, <1>8, BecomesKeeps, StillWorld DEF IInv, flowVars, OptAwaits
<1>9. CASE Becomes(p, "options_mqtt_zone")
  <2> HIDE DEF p
  <2> QED BY <1>1, <1>5, <1>6, <1>9, BecomesKeeps, StillWorld DEF IInv, flowVars, OptForms
<1> QED BY <1>3, <1>7, <1>8, <1>9

\* A step of the dialog that changes nothing but where it stands.
LEMMA OptStepKeeps ==
    ASSUME IInv, opt.step # "none",
           NEW step \in OptForms \cup OptAwaits,
           step \notin {"removing", "options_remove_failed", "storing"},
           Becomes(opt, step), UNCHANGED <<flow, entries>>, WorldTyped'
    PROVE  OptStepSound
  BY OfOptions, BecomesKeeps

\* The permissions are checked, and what is missing decides the next form.
LEMMA CheckOptionsKeeps ==
    ASSUME IInv, NEW perms \in {"none", "ro", "rw"}, NEW pkgs \in BOOLEAN,
           NEW restricted \in BOOLEAN, CheckOptions(perms, pkgs, restricted)
    PROVE  OptStepSound
<1> DEFINE o == [opt EXCEPT !.perms = perms, !.pkgs = pkgs, !.restricted = restricted]
           step == IF perms = "none" THEN "options_packages"
                   ELSE IF o.restricted THEN "options_ubus_restricted"
                   ELSE "options_permissions"
<1>1. opt.step # "none" /\ UNCHANGED <<flow, router>>
  BY DEF CheckOptions, At
<1>2. \/ Finalize(o)
      \/ Becomes(o, step) /\ UNCHANGED entries
  BY DEF CheckOptions
<1>3. step \in {"options_packages", "options_ubus_restricted", "options_permissions"}
  OBVIOUS
<1>4. o \in OptRecord /\ o.entry = opt.entry
  <2> DEFINE o1 == [opt EXCEPT !.perms = perms]
             o2 == [o1 EXCEPT !.pkgs = pkgs]
  <2>1. o1 \in OptRecord /\ o1.entry = opt.entry
    BY <1>1, OfOptions DEF OptRecord
  <2>2. o = [o2 EXCEPT !.restricted = restricted]
    BY <1>1, OfOptions DEF OptRecord
  <2> HIDE DEF o1
  <2>3. o2 \in OptRecord /\ o2.entry = opt.entry
    BY <2>1 DEF OptRecord
  <2> HIDE DEF o2, o
  <2> QED BY <2>2, <2>3 DEF OptRecord
<1> HIDE DEF o, step
<1>5. CASE Finalize(o)
  BY <1>1, <1>4, <1>5, FinalizeKeeps
<1>6. CASE Becomes(o, step) /\ UNCHANGED entries
  <2>1. OptFits(o, step) /\ step \in OptForms \cup OptAwaits
    BY <1>1, <1>3, <1>4, OfOptions DEF OptFits, OptForms
  <2> QED BY <1>1, <1>4, <1>6, <2>1, BecomesKeeps, StillWorld DEF IInv
<1> QED BY <1>2, <1>5, <1>6

\* The forms that only collect options.
LEMMA InputKeeps ==
    ASSUME IInv,
           AcknowledgeOptions \/ SelectDevices \/ \E track \in BOOLEAN : PackageOptions(track)
    PROVE  OptStepSound
<1>1. opt.step # "none" /\ UNCHANGED <<flow, router>>
  BY DEF AcknowledgeOptions, SelectDevices, PackageOptions, At
<1>2. \/ Finalize(opt)
      \/ \E step \in {"options_packages", "options_select_devices"} :
            Becomes(opt, step) /\ UNCHANGED entries
  BY DEF AcknowledgeOptions, SelectDevices, PackageOptions
<1>3. CASE Finalize(opt)
  BY <1>1, <1>3, OfOptions, FinalizeKeeps
<1>4. ASSUME NEW step \in {"options_packages", "options_select_devices"},
             Becomes(opt, step), UNCHANGED entries
      PROVE  OptStepSound
  <2>1. step \in OptForms \cup OptAwaits
    BY DEF OptForms
  <2> QED BY <1>1, <1>4, <2>1, OptStepKeeps, StillWorld DEF IInv
<1> QED BY <1>2, <1>3, <1>4

\* The scripts were installed, so that what is stored next is on the router.
LEMMA InstallPassesKeeps ==
    ASSUME IInv, InstallPasses
    PROVE  OptStepSound
<1> DEFINE o == [opt EXCEPT !.put = opt.mqtt]
<1>1. /\ opt.step # "none" /\ Becomes(o, "storing")
      /\ UNCHANGED <<flow, entries, password, fresh>>
  BY DEF InstallPasses, At
<1>2. opt.mqtt \in Settings
  BY <1>1, OfOptions DEF OptRecord
<1>3. o \in OptRecord /\ o.entry = opt.entry /\ o.put = o.mqtt
  BY <1>1, <1>2, OfOptions DEF OptRecord
<1>4. WorldTyped'
  BY <1>1, <1>2 DEF IInv, ConfigIInv, WorldTyped, InstallPasses, Scripts
<1> HIDE DEF o
<1>5. OptFits(o, "storing")
  BY <1>1, <1>3, OfOptions DEF OptFits
<1> QED BY <1>1, <1>3, <1>4, <1>5, BecomesKeeps DEF OptAwaits

\* The scripts were removed.
LEMMA RemovePassesKeeps ==
    ASSUME IInv, RemovePasses
    PROVE  OptStepSound
<1> DEFINE put == deployed'[RouterAt[Entry.host]]
           o == [opt EXCEPT !.put = put]
<1>1. /\ opt.step = "removing" /\ Becomes(o, "storing")
      /\ UNCHANGED <<flow, entries, password, fresh>>
  BY DEF RemovePasses, At
<1>2. deployed' \in [Routers -> Settings \cup {"broken"}]
  BY DEF IInv, ConfigIInv, WorldTyped, RemovePasses, Scripts, Settings
<1>3. WorldTyped'
  BY <1>1, <1>2 DEF IInv, ConfigIInv, WorldTyped
<1>4. put \in Settings \cup {"broken"} /\ opt.mqtt = "off"
  BY <1>1, <1>2, OfOptions DEF OptFits
<1> HIDE DEF put
<1>5. o \in OptRecord /\ o.entry = opt.entry /\ o.mqtt = "off"
  BY <1>1, <1>4, OfOptions DEF OptRecord
<1> HIDE DEF o
<1>6. OptFits(o, "storing")
  BY <1>1, <1>5, OfOptions DEF OptFits
<1> QED BY <1>1, <1>3, <1>5, <1>6, BecomesKeeps DEF OptAwaits

\* Neither was.
LEMMA InstallFailsKeeps ==
    ASSUME IInv, InstallFails
    PROVE  OptStepSound
<1> DEFINE step == IF At("deploying") THEN "options_deploy_failed"
                    ELSE "options_remove_failed"
<1>1. /\ opt.step \in {"deploying", "removing"} /\ Becomes(opt, step)
      /\ UNCHANGED <<flow, entries, password, fresh>>
  BY DEF InstallFails
<1>2. WorldTyped'
  BY <1>1 DEF InstallFails, Scripts, IInv, ConfigIInv, WorldTyped
<1>3. OptFits(opt, step)
  BY <1>1, OfOptions DEF OptFits, At
<1>4. step \in OptForms \cup OptAwaits
  BY DEF OptForms
<1> HIDE DEF step
<1> QED BY <1>1, <1>2, <1>3, <1>4, OfOptions, BecomesKeeps

\* The entry is brought up to date.
LEMMA StoreKeeps ==
    ASSUME IInv, Store
    PROVE  OptStepSound
<1>1. /\ opt.step = "storing" /\ opt' = NoOptions /\ UNCHANGED <<flow, router>>
      /\ entries' = [entries EXCEPT ![opt.entry].mqtt = opt.mqtt]
  BY DEF Store, At
<1>2. opt.mqtt \in Settings /\ opt.mqtt \in {"off", opt.put}
  BY <1>1, OfOptions DEF OptRecord, OptFits
<1> QED BY <1>1, <1>2, PresenceStored

\* After a failure: once more, or without presence.
LEMMA InstallAgainKeeps ==
    ASSUME IInv, NEW again \in BOOLEAN, InstallAgain(again)
    PROVE  OptStepSound
<1> DEFINE step == IF At("options_deploy_failed")
                    THEN (IF again THEN "deploying" ELSE "options_mqtt_presence")
                    ELSE (IF again THEN "removing" ELSE "init")
<1>1. /\ opt.step \in {"options_deploy_failed", "options_remove_failed"}
      /\ Becomes(opt, step) /\ UNCHANGED flowVars
  BY DEF InstallAgain
<1>2. OptFits(opt, step)
  BY <1>1, OfOptions DEF OptFits, At
<1>3. step \in OptForms \cup OptAwaits
  BY DEF OptForms, OptAwaits
<1> HIDE DEF step
<1> QED BY <1>1, <1>2, <1>3, OfOptions, BecomesKeeps, StillWorld DEF flowVars, IInv

\* Every step of the options dialog.
LEMMA OptNextKeeps == IInv /\ OptNext => OptStepSound
<1> SUFFICES ASSUME IInv, OptNext
             PROVE  OptStepSound
  OBVIOUS
<1>1. ASSUME NEW u \in Users, NEW p \in Typed(Entry.host, u), SubmitRoot(u, p)
      PROVE  OptStepSound
  BY <1>1, SubmitRootKeeps
<1>2. ASSUME NEW again \in BOOLEAN, RedeployAgain(again)
      PROVE  OptStepSound
  <2> DEFINE step == IF again THEN "options_redeploy_user" ELSE "init"
  <2>1. opt.step # "none" /\ Becomes(opt, step) /\ UNCHANGED flowVars
    BY <1>2 DEF RedeployAgain, At
  <2>2. step \in OptForms \cup OptAwaits
    BY DEF OptForms
  <2>3. step \notin {"removing", "options_remove_failed", "storing"}
    OBVIOUS
  <2> HIDE DEF step
  <2> QED BY <2>1, <2>2, <2>3, OptStepKeeps, StillWorld DEF flowVars, IInv
<1>3. MqttZoneOptions => OptStepSound
  BY OptStepKeeps, StillWorld DEF MqttZoneOptions, At, flowVars, IInv, OptAwaits
<1> QED BY <1>1, <1>2, <1>3, OpenKeeps, CloseKeeps, SubmitInitKeeps, RedeployUserKeeps,
           InstallAgainKeeps, MqttOptionsKeeps, CheckOptionsKeeps, InputKeeps,
           InstallPassesKeeps, RemovePassesKeeps, InstallFailsKeeps, StoreKeeps DEF OptNext

-----------------------------------------------------------------------------
\* Removal, and the steps of the whole.

\* What OptionsOnRouter says of one step.
OptionsStep ==
    \A e \in Entries :
        /\ entries'[e].mqtt \notin {entries[e].mqtt, "off"}
        /\ Exists(e) /\ entries'[e] # NoEntry
        /\ flow' = flow
        => opt.put = entries'[e].mqtt

\* An entry is removed: a reauthentication for it is aborted and its options
\* dialog closed, and its unique id is free.
LEMMA RemoveKeeps ==
    ASSUME IInv, NEW e \in Entries, Remove(e)
    PROVE  IInv' /\ CredentialsStep /\ OptionsStep
<1>1. /\ \A d \in Entries : entries'[d] = IF d = e THEN NoEntry ELSE entries[d]
      /\ UNCHANGED router
      /\ opt' = IF opt.entry = e THEN NoOptions ELSE opt
  BY DEF Remove, RemoveEntry, IInv, ConfigIInv, EntriesSound
<1>2. \A d \in Entries : Exists(d)' => Exists(d) /\ entries'[d] = entries[d]
  BY <1>1 DEF Exists
<1>3. EntriesSound'
  <2>1. NoEntry \in EntryRecord
    BY FlowConstants DEF NoEntry, EntryRecord, UniqueIds, Users, Passwords, Settings
  <2>2. entries' \in [Entries -> EntryRecord]
    BY <2>1 DEF Remove, RemoveEntry, IInv, ConfigIInv, EntriesSound
  <2>3. ASSUME NEW d \in Entries, Exists(d)'
        PROVE  entries'[d].host \in Hosts /\ Names(entries'[d].unique)
    BY <1>2, <2>3 DEF IInv, ConfigIInv, EntriesSound
  <2>4. ASSUME NEW c \in Entries, NEW d \in Entries, Exists(c)', Exists(d)',
               entries'[c].unique = entries'[d].unique
        PROVE  c = d
    BY <1>2, <2>4 DEF IInv, ConfigIInv, EntriesSound
  <2> QED BY <2>2, <2>3, <2>4 DEF EntriesSound, Names, OneRouterOnly
<1>4. FlowsSound'
  <2>1. flow' = [f \in Flows |->
                  IF flow[f].source = "reauth" /\ flow[f].entry = e /\ flow[f].live
                  THEN Aborted(flow[f]) ELSE flow[f]]
    BY DEF Remove, RemoveEntry
  <2>2. ASSUME NEW g \in Flows PROVE Sound(flow'[g])
    BY <2>1, OfFlow, AbortedSound DEF IInv
  <2>3. \A g \in Flows : flow'[g] \in FlowRecord
    BY <2>2 DEF Sound
  <2>4. flow' \in [Flows -> FlowRecord]
    BY <2>1, <2>3
  <2>5. \A g \in Flows : ~AlreadyConfigured(flow'[g].unique)
                         => ~AlreadyConfigured(flow[g].unique)'
    BY <1>2 DEF AlreadyConfigured
  <2> QED BY <2>2, <2>4, <2>5, FlowsLater
<1>5. OptionsSound'
  BY <1>1, NoOptionsSound DEF IInv, OptionsSound, OptFits
<1>6. CredentialsStep /\ OptionsStep
  BY <1>1 DEF CredentialsStep, OptionsStep
<1> QED BY <1>1, <1>3, <1>4, <1>5, <1>6, StillWorld DEF IInv, ConfigIInv

\* Every step.
LEMMA NextKeeps ==
    ASSUME IInv, Next
    PROVE  IInv' /\ (OneRouterOnly => CredentialsStep) /\ OptionsStep
<1>1. CASE ConfigNext /\ UNCHANGED opt
  <2>1. StepSound
    BY <1>1, ConfigNextKeeps DEF IInv
  <2>2. OptionsSound'
    BY <1>1, <2>1 DEF StepSound, IInv, OptionsSound, OptFits
  <2> QED BY <2>1, <2>2 DEF StepSound, IInv, OptionsStep
<1>2. CASE OptNext
  BY <1>2, OptNextKeeps DEF OptStepSound, CredentialsStep, OptionsStep
<1>3. CASE \E e \in Entries : Remove(e)
  BY <1>3, RemoveKeeps
<1> QED BY <1>1, <1>2, <1>3 DEF Next

\* No entry and no dialog at first.
LEMMA InitIInv == Init => IInv
<1> SUFFICES ASSUME Init
             PROVE  IInv
  OBVIOUS
<1>1. WorldTyped
  <2>1. {0, 1, 2} \subseteq Passwords
    BY FlowConstants DEF Passwords
  <2>2. ASSUME NEW r \in Routers PROVE password[r] \in [Users -> Passwords]
    <3>1. PICK p \in {0, 2} : password[r] = [root |-> 1, homeassistant |-> p]
      BY DEF Init, ConfigInit
    <3> QED BY <2>1, <3>1 DEF Users
  <2>3. password \in [Routers -> [Users -> Passwords]]
    BY <2>2 DEF Init, ConfigInit
  <2> QED BY <2>3, FlowConstants DEF WorldTyped, Init, ConfigInit, Settings
<1>2. EntriesSound
  <2>1. NoEntry \in EntryRecord
    BY FlowConstants DEF NoEntry, EntryRecord, UniqueIds, Users, Passwords, Settings
  <2> QED BY <2>1 DEF EntriesSound, Exists, Init, ConfigInit
<1>3. FlowsSound
  BY BlankSound DEF FlowsSound, Init, ConfigInit
<1>4. OptionsSound
  BY NoOptionsSound DEF OptionsSound, Init
<1> QED BY <1>1, <1>2, <1>3, <1>4 DEF IInv, ConfigIInv

-----------------------------------------------------------------------------
\* Theorems.

\* In every reachable state each wizard knows what its place needs, unique ids
\* differ, and the options dialog's entry exists.
THEOREM FlowsInvariant == Spec => []IInv
<1>1. IInv /\ [Next]_vars => IInv'
  <2>1. ASSUME IInv, UNCHANGED vars PROVE IInv'
    <3>1. ConfigIInv'
      BY <2>1, SameWizards, StillWorld DEF IInv, vars, flowVars
    <3>2. OptionsSound'
      BY <2>1 DEF IInv, OptionsSound, OptFits, vars, flowVars
    <3> QED BY <3>1, <3>2 DEF IInv
  <2> QED BY <2>1, NextKeeps
<1> QED BY <1>1, InitIInv, PTL DEF Spec

\* TypeOK: every variable keeps its kind.
THEOREM TypeCorrect == Spec => []TypeOK
<1>1. IInv => TypeOK
  BY DEF IInv, ConfigIInv, WorldTyped, EntriesSound, FlowsSound, Sound, OptionsSound,
         TypeOK, ConfigTypeOK
<1> QED BY <1>1, FlowsInvariant, PTL

\* No two entries have the same unique id.
OneEntryPerId ==
    \A d, e \in Entries :
        Exists(d) /\ Exists(e) /\ entries[d].unique = entries[e].unique => d = e

\* However many routers there are, and whichever wizards race to configure the
\* same one, no two entries get the same unique id
\* (_abort_if_unique_id_configured, and the abort of the other wizards when an
\* entry is made).
THEOREM IdsDiffer == Spec => []OneEntryPerId
<1>1. IInv => OneEntryPerId
  BY DEF IInv, ConfigIInv, EntriesSound, OneEntryPerId
<1> QED BY <1>1, FlowsInvariant, PTL

\* The addresses of the run are those of one router.
LEMMA ThatRouter == OneRouterOnly
  BY OneRouter DEF OneRouterOnly

\* OneEntryPerRouter: wizards that reach one router by different addresses, by
\* discovery and by hand at once, make one entry of it.
THEOREM RouterHasOneEntry == Spec => []OneEntryPerRouter
<1>1. IInv => OneEntryPerRouter
  <2> SUFFICES ASSUME IInv, NEW d \in Entries, NEW e \in Entries, Exists(d), Exists(e)
               PROVE  d = e
    BY DEF OneEntryPerRouter
  <2>1. entries[d].unique = entries[e].unique
    BY ThatRouter DEF IInv, ConfigIInv, EntriesSound, Names
  <2> QED BY <2>1 DEF IInv, ConfigIInv, EntriesSound
<1> QED BY <1>1, FlowsInvariant, PTL

\* CredentialsProved: credentials reach an entry only after a login with them
\* has succeeded, or they work; but for a new user whose tests failed ten
\* times.
THEOREM NoCredentialsUnproved == Spec => CredentialsProved
<1>1. IInv /\ [Next]_vars => [CredentialsStep]_flowVars
  BY NextKeeps, ThatRouter DEF vars
<1>2. Spec => [][CredentialsStep]_flowVars
  BY <1>1, FlowsInvariant, PTL DEF Spec
<1> QED BY <1>2 DEF CredentialsProved, CredentialsStep

\* OptionsOnRouter: the options dialog stores presence settings only after the
\* scripts with those settings were put on the router.
THEOREM OptionsFollowTheRouter == Spec => OptionsOnRouter
<1>1. IInv /\ [Next]_vars => [OptionsStep]_vars
  BY NextKeeps
<1>2. Spec => [][OptionsStep]_vars
  BY <1>1, FlowsInvariant, PTL DEF Spec
<1> QED BY <1>2 DEF OptionsOnRouter, OptionsStep

=============================================================================
