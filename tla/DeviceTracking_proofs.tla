------------------------- MODULE DeviceTracking_proofs -------------------------
(***************************************************************************)
(* Proofs about device tracking, for any number of config entries, any     *)
(* grace period and any number of restarts: a device that its router       *)
(* reported, or that an access point claimed, within the grace period is   *)
(* shown at home.                                                          *)
(***************************************************************************)
EXTENDS DeviceTracking, TLAPS, WellFoundedInduction

ConnectedIsListed(d) == d.connected => d.listed

\* No list a poll fetches has a device connected that is not in it.
AnswersListed ==
    \A e \in Entries : answers[e] # None => ConnectedIsListed(answers[e])

\* The entry of a tracker has a history of the device.
TrackedHasHistory == tracker # None => history[tracker.entry] # None

\* The history of an entry is as young as the list that last had the device
\* connected, over restarts too.
MetInHistory ==
    met # None => /\ history[met.entry] # None
                  /\ history[met.entry].age <= met.age

IInv ==
    /\ TypeOK
    /\ AnswersListed
    /\ TrackedHasHistory
    /\ MetInHistory
    /\ SeenIsHome

-----------------------------------------------------------------------------
(* The list of a poll. *)

\* The answers of a router in the model are answers the parsers can be given.
LEMMA AnswersType ==
    ASSUME NEW e \in Entries
    PROVE  PossibleAnswers(e) \subseteq Answers
BY TrackingConstants
   DEF PossibleAnswers, Answers, Association, Errors, Lease, NeighborStates

\* A poll puts the device into the list before it calls it connected.
LEMMA ScanType ==
    ASSUME NEW a \in Answers, NEW prev \in Devices
    PROVE  Scan(a, prev) \in Devices /\ ConnectedIsListed(Scan(a, prev))
<1> DEFINE Good(d) == d \in Devices /\ ConnectedIsListed(d)
<1>1. Unlisted \in Devices
  BY DEF Unlisted, Devices, NeighborStates
<1>2. Good(FromDhcp(a))
  BY <1>1 DEF FromDhcp, Unlisted, Devices, Answers, ConnectedIsListed
<1>3. ASSUME NEW d, Good(d), NEW answer
      PROVE  Good(Associated(d, answer))
  BY <1>3 DEF Associated, Devices, ConnectedIsListed
<1>4. ASSUME NEW d, Good(d), NEW arp \in NeighborStates
      PROVE  Good(MergeNeighbor(d, arp))
  BY <1>4 DEF MergeNeighbor, Devices, ConnectedIsListed
<1>5. ASSUME NEW d, Good(d)
      PROVE  Good(RestoreRadio(d, a, prev))
  BY <1>5, <1>3 DEF RestoreRadio
<1>6. ASSUME NEW d, Good(d), NEW fdb
      PROVE  Good(BridgeFdb(d, fdb))
  BY <1>6 DEF BridgeFdb, Devices, ConnectedIsListed
<1>7. a.arp \in NeighborStates
  BY DEF Answers
<1> HIDE DEF Good
<1>8. Good(Scan(a, prev))
  BY <1>2, <1>3, <1>4, <1>5, <1>6, <1>7 DEF Scan
<1> QED
  BY <1>8 DEF Good

-----------------------------------------------------------------------------
(* What a tracker writes. *)

\* The youngest of the ages there are.
LEMMA YoungestIsLeast ==
    ASSUME NEW S \in SUBSET Nat, NEW a \in S
    PROVE  Youngest(S) \in S /\ Youngest(S) <= a
<1> DEFINE R == OpToRel(<, Nat)
<1>1. IsWellFoundedOn(R, Nat)
  BY NatLessThanWellFounded
<1>2. ASSUME NEW x \in Nat, NEW y \in Nat, x < y
      PROVE  <<x, y>> \in R
  BY <1>2 DEF OpToRel
<1> HIDE DEF R
<1>3. PICK m \in S : \A b \in S : ~(<<b, m>> \in R)
  BY <1>1, WFMin
<1>4. ASSUME NEW b \in S
      PROVE  m <= b
  <2>1. b \in Nat /\ m \in Nat
    OBVIOUS
  <2>2. b < m => <<b, m>> \in R
    BY <1>2, <2>1
  <2> QED
    BY <1>3, <2>1, <2>2
<1> QED
  BY <1>4 DEF Youngest

\* The age a tracker goes by is no older than the claim's and the history's, and
\* it is one of the ages of the model as long as there is a history.
LEMMA EffectiveBounds ==
    ASSUME NEW seenAge \in Ages \cup {None},
           NEW c, c # None => c.age \in Nat,
           NEW h, h # None => h.age \in Ages
    PROVE  LET effective == EffectiveLastSeen(seenAge, c, h)
           IN /\ c # None => effective \in Nat /\ effective <= c.age
              /\ h # None => effective \in Ages /\ effective <= h.age
<1> DEFINE S == ({seenAge} \cup (IF c = None THEN {} ELSE {c.age})
                          \cup (IF h = None THEN {} ELSE {h.age})) \ {None}
<1>1. S \in SUBSET Nat /\ (c # None => c.age \in S) /\ (h # None => h.age \in S)
  BY TrackingConstants DEF Ages
<1> HIDE DEF S
<1>2. \A a \in S : Youngest(S) \in S /\ Youngest(S) <= a
  BY <1>1, YoungestIsLeast
<1>3. EffectiveLastSeen(seenAge, c, h) = Youngest(S)
  BY DEF EffectiveLastSeen, S
<1>4. ASSUME NEW a \in S
      PROVE  Youngest(S) \in Nat /\ Youngest(S) <= a
  BY <1>1, <1>2
<1>5. h # None => Youngest(S) \in Ages
  BY <1>1, <1>4, TrackingConstants DEF Ages
<1> QED
  BY <1>1, <1>3, <1>4, <1>5

\* A tracker with a history writes a state and an age of the model, and "home"
\* when the claim or the history is within the grace period.
LEMMA WrittenOK ==
    ASSUME NEW seenAge \in Ages \cup {None},
           NEW ok, NEW last, NEW d, NEW ever,
           NEW c, c # None => c.age \in Nat,
           NEW h, h # None, h.age \in Ages
    PROVE  LET w == Written(seenAge, ok, last, d, c, h, ever)
           IN /\ w.seen \in Ages
              /\ w.shown \in {"home", "away", "unavailable"}
              /\ (c # None /\ c.age < ConsiderHome) \/ h.age < ConsiderHome
                    => w.shown = "home"
<1> DEFINE effective == EffectiveLastSeen(seenAge, c, h)
<1>1. /\ c # None => effective \in Nat /\ effective <= c.age
      /\ effective \in Ages /\ effective <= h.age
  BY EffectiveBounds
<1>2. effective # None
  BY <1>1, TrackingConstants DEF Ages
<1>3. 0 \in Ages
  BY TrackingConstants DEF Ages
<1> HIDE DEF effective
<1>4. CASE Connected(ok, d, c, h, ever)
  BY <1>3, <1>4 DEF Written
<1>5. CASE ~Connected(ok, d, c, h, ever)
  <2> DEFINE w == Written(seenAge, ok, last, d, c, h, ever)
  <2>1. w.seen = effective
    BY <1>5 DEF Written, effective
  <2>2. w.shown = IF effective # None /\ effective < ConsiderHome THEN "home"
                  ELSE IF ok \/ last < ConsiderHome THEN "away"
                  ELSE "unavailable"
    BY <1>5 DEF Written, effective
  <2> HIDE DEF w
  <2>3. effective < ConsiderHome => w.shown = "home"
    BY <1>2, <2>2
  <2>4. (c # None /\ c.age < ConsiderHome) \/ h.age < ConsiderHome
          => effective < ConsiderHome
    BY <1>1, TrackingConstants DEF Ages
  <2> QED
    BY <1>1, <2>1, <2>2, <2>3, <2>4 DEF w
<1> QED
  BY <1>4, <1>5

-----------------------------------------------------------------------------
(* The parts of a poll. *)

\* What the coordinator had of the device before.
LEMMA PreviousType ==
    ASSUME TypeOK, NEW e \in Entries
    PROVE  Previous(e) \in Devices /\ ConnectedIsListed(Previous(e))
BY DEF TypeOK, Previous, Unlisted, Devices, NeighborStates, ConnectedIsListed

\* Ages are cut off at the grace period, and 0 is one.
LEMMA AgesFacts ==
    /\ 0 \in Ages
    /\ ConsiderHome \in Ages
    /\ None \notin Ages
    /\ \A age \in Ages : age \in Nat /\ age <= ConsiderHome
BY TrackingConstants DEF Ages

\* _device_last_seen stays a time in the past, or nothing.
LEMMA SeenAfterType ==
    ASSUME TypeOK, NEW e \in Entries, NEW d, NEW others
    PROVE  SeenAfter(e, d, others) \in Ages \cup {None}
<1>1. seen[e] \in Ages \cup {None}
  BY DEF TypeOK
<1>2. history[e] # None => history[e].age \in Ages
  BY DEF TypeOK, Histories
<1> QED
  BY <1>1, <1>2, AgesFacts DEF SeenAfter

\* The grace period keeps a device in the list or out of it as a whole.
LEMMA StabilizedOK ==
    ASSUME TypeOK, NEW e \in Entries, NEW seenAge,
           NEW scan \in Devices, ConnectedIsListed(scan)
    PROVE  LET d == Forced(Stabilized(e, scan, seenAge))
           IN /\ d \in Devices
              /\ ConnectedIsListed(d)
              /\ scan.listed => d.listed
<1> DEFINE s == Stabilized(e, scan, seenAge)
<1>1. Previous(e) \in Devices /\ ConnectedIsListed(Previous(e))
  BY PreviousType
<1>2. s \in Devices /\ ConnectedIsListed(s) /\ (scan.listed => s.listed)
  BY <1>1 DEF Stabilized, Devices, ConnectedIsListed
<1> HIDE DEF s
<1>3. [s EXCEPT !.wireless = @ \/ (s.listed /\ ForcedWireless)]
        = [listed |-> s.listed, connected |-> s.connected,
           wireless |-> s.wireless \/ (s.listed /\ ForcedWireless),
           iface |-> s.iface, neighbor |-> s.neighbor]
  BY <1>2 DEF Devices
<1> QED
  BY <1>2, <1>3 DEF Forced, Devices, ConnectedIsListed, s

\* The history of a device stays one, and a listed device has a fresh one.
LEMMA HistoryAfterOK ==
    ASSUME NEW h0 \in Histories \cup {None}, NEW d \in Devices, NEW lease \in BOOLEAN
    PROVE  LET h == HistoryAfter(h0, d, lease)
           IN /\ h \in Histories \cup {None}
              /\ h0 # None => h # None /\ h.age <= h0.age
              /\ d.listed => h # None /\ h.age = 0
<1>1. \A w \in BOOLEAN : [age |-> 0, wireless |-> w] \in Histories
  BY AgesFacts DEF Histories
<1>2. h0 # None => /\ h0.wireless \in BOOLEAN
                   /\ h0.age \in Nat /\ 0 <= h0.age
  BY AgesFacts DEF Histories
<1>3. d.wireless \in BOOLEAN /\ d.listed \in BOOLEAN
  BY DEF Devices
<1>4. \A h \in Histories : h # None
  BY NoneIsNoRecord
<1> DEFINE h == HistoryAfter(h0, d, lease)
<1>5. CASE d.listed
  <2> DEFINE w == d.wireless \/ (h0 # None /\ h0.wireless)
  <2>1. h = [age |-> 0, wireless |-> w] /\ w \in BOOLEAN
    BY <1>2, <1>3, <1>5 DEF HistoryAfter
  <2> HIDE DEF w
  <2>2. h \in Histories /\ h.age = 0
    BY <1>1, <2>1
  <2> QED
    BY <1>2, <1>4, <2>2
<1>6. CASE ~d.listed /\ lease
  <2> DEFINE w == h0 # None /\ h0.wireless
  <2>1. h = [age |-> 0, wireless |-> w] /\ w \in BOOLEAN
    BY <1>2, <1>6 DEF HistoryAfter
  <2> HIDE DEF w
  <2>2. h \in Histories /\ h.age = 0
    BY <1>1, <2>1
  <2> QED
    BY <1>2, <1>4, <1>6, <2>2
<1>7. CASE ~d.listed /\ ~lease
  BY <1>2, <1>7 DEF HistoryAfter
<1> QED
  BY <1>3, <1>5, <1>6, <1>7

Claims == [owner : Entries, age : ClaimAges, connected : BOOLEAN]

\* The shared claim stays one, whoever it goes to.
LEMMA ClaimAfterType ==
    ASSUME claim \in Claims \cup {None}, NEW e \in Entries, NEW d
    PROVE  ClaimAfter(e, d) \in Claims \cup {None}
<1>1. [owner |-> e, age |-> 0, connected |-> TRUE] \in Claims
  BY TrackingConstants DEF Claims, ClaimAges
<1>2. claim # None => [claim EXCEPT !.connected = FALSE] \in Claims
  BY DEF Claims
<1> QED
  BY <1>1, <1>2 DEF ClaimAfter

-----------------------------------------------------------------------------
(* The steps. *)

\* Before the first poll nothing has been seen.
LEMMA InitIInv == Init => IInv
<1> SUFFICES ASSUME Init PROVE IInv
  OBVIOUS
<1>1. TypeOK
  <2>1. /\ answers \in [Entries -> Devices \cup {None}]
        /\ data \in [Entries -> Devices \cup {None}]
        /\ success \in [Entries -> BOOLEAN]
        /\ lastSuccess \in [Entries -> Ages]
        /\ seen \in [Entries -> Ages \cup {None}]
        /\ history \in [Entries -> Histories \cup {None}]
    BY AgesFacts DEF Init
  <2>2. /\ \A e \in Entries : answers[e] = None /\ data[e] = None
        /\ restarts \in 0..MaxRestarts
    BY TrackingConstants DEF Init
  <2> QED
    BY <2>1, <2>2 DEF Init, TypeOK
<1>2. AnswersListed /\ TrackedHasHistory /\ MetInHistory /\ SeenIsHome
  BY DEF Init, AnswersListed, TrackedHasHistory, MetInHistory, SeenIsHome
<1> QED
  BY <1>1, <1>2 DEF IInv

\* The device moves: no entry has noticed yet.
LEMMA MovesStep ==
    ASSUME IInv, Moves
    PROVE  IInv'
<1> USE DEF IInv, Moves, coordinators, shared, entity
<1>1. TypeOK'
  BY DEF TypeOK
<1>2. AnswersListed' /\ TrackedHasHistory' /\ MetInHistory' /\ SeenIsHome'
  BY DEF AnswersListed, TrackedHasHistory, MetInHistory, SeenIsHome
<1> QED
  BY <1>1, <1>2

\* A fetch only fills in the answer of the poll that runs.
LEMMA FetchesStep ==
    ASSUME IInv, NEW e \in Entries, Fetches(e)
    PROVE  IInv'
<1> USE DEF IInv, Fetches, shared, entity
<1>1. PICK a \in PossibleAnswers(e) :
          answers' = [answers EXCEPT ![e] = Scan(a, Previous(e))]
  OBVIOUS
<1>2. Scan(a, Previous(e)) \in Devices /\ ConnectedIsListed(Scan(a, Previous(e)))
  BY AnswersType, ScanType, PreviousType
<1>3. answers \in [Entries -> Devices \cup {None}]
  BY DEF TypeOK
<1>4. answers' \in [Entries -> Devices \cup {None}]
  BY <1>1, <1>2, <1>3
<1>5. TypeOK'
  <2>1. \A x \in Entries : answers'[x] # None => x \in polled'
    BY <1>1, <1>3 DEF TypeOK
  <2> QED
    BY <1>4, <2>1 DEF TypeOK
<1>6. AnswersListed'
  BY <1>1, <1>2, <1>3 DEF AnswersListed
<1>7. TrackedHasHistory' /\ MetInHistory' /\ SeenIsHome'
  BY DEF TrackedHasHistory, MetInHistory, SeenIsHome
<1> QED
  BY <1>5, <1>6, <1>7

\* The heart of the proof: whatever a poll found, the tracker is written with the
\* claim, the history and the data of that poll.
LEMMA ProcessesStep ==
    ASSUME IInv, NEW e \in Entries, Processes(e)
    PROVE  IInv'
<1>1. PICK others \in BOOLEAN :
        LET scan == answers[e]
            seenAge == SeenAfter(e, scan, others)
            d == Forced(Stabilized(e, scan, seenAge))
            h == HistoryAfter(history[e], d, Lease(e))
            ever == everWireless \/ (d.listed /\ h.wireless)
            c == ClaimAfter(e, d)
            affected == c # claim \/ (d.wireless /\ d.connected)
            early == IF tracker # None /\ affected
                     THEN WrittenNow(c, IF tracker.entry = e THEN h
                                        ELSE history[tracker.entry], ever)
                     ELSE [seen |-> IF tracker = None THEN None ELSE tracker.seen,
                           shown |-> shown]
            mine == IF tracker = None
                    THEN /\ d.listed \/ h # None
                         /\ TrackWired \/ d.wireless \/ ever \/ (h # None /\ h.wireless)
                    ELSE tracker.entry = e
            late == Written(early.seen, TRUE, 0, d, c, h, ever)
        IN /\ seen' = [seen EXCEPT ![e] = seenAge]
           /\ history' = [history EXCEPT ![e] = h]
           /\ everWireless' = ever
           /\ claim' = c
           /\ data' = [data EXCEPT ![e] = d]
           /\ IF mine
              THEN /\ tracker' = [entry |-> e, seen |-> late.seen]
                   /\ shown' = late.shown
              ELSE /\ tracker' = IF tracker = None THEN None
                                 ELSE [tracker EXCEPT !.seen = early.seen]
                   /\ shown' = early.shown
           /\ met' = IF mine /\ scan.connected THEN [entry |-> e, age |-> 0] ELSE met
  BY Zenon DEF Processes
<1> DEFINE scan == answers[e]
           seenAge == SeenAfter(e, scan, others)
           d == Forced(Stabilized(e, scan, seenAge))
           h == HistoryAfter(history[e], d, Lease(e))
           ever == everWireless \/ (d.listed /\ h.wireless)
           c == ClaimAfter(e, d)
           affected == c # claim \/ (d.wireless /\ d.connected)
           hT == IF tracker.entry = e THEN h ELSE history[tracker.entry]
           early == IF tracker # None /\ affected THEN WrittenNow(c, hT, ever)
                    ELSE [seen |-> IF tracker = None THEN None ELSE tracker.seen,
                          shown |-> shown]
           mine == IF tracker = None
                   THEN /\ d.listed \/ h # None
                        /\ TrackWired \/ d.wireless \/ ever \/ (h # None /\ h.wireless)
                   ELSE tracker.entry = e
           late == Written(early.seen, TRUE, 0, d, c, h, ever)
<1>2. /\ seen' = [seen EXCEPT ![e] = seenAge]
      /\ history' = [history EXCEPT ![e] = h]
      /\ everWireless' = ever
      /\ claim' = c
      /\ data' = [data EXCEPT ![e] = d]
      /\ met' = IF mine /\ scan.connected THEN [entry |-> e, age |-> 0] ELSE met
  BY <1>1, Zenon
<1>3. IF mine
      THEN tracker' = [entry |-> e, seen |-> late.seen] /\ shown' = late.shown
      ELSE /\ tracker' = IF tracker = None THEN None
                         ELSE [tracker EXCEPT !.seen = early.seen]
           /\ shown' = early.shown
  BY <1>1, Zenon
<1>4. /\ answers[e] # None
      /\ answers' = [answers EXCEPT ![e] = None]
      /\ success' = [success EXCEPT ![e] = TRUE]
      /\ lastSuccess' = [lastSuccess EXCEPT ![e] = 0]
      /\ UNCHANGED <<at, polled, restarts>>
  BY Zenon DEF Processes
\* the values
<1>5. scan \in Devices /\ ConnectedIsListed(scan)
  BY <1>4 DEF IInv, TypeOK, AnswersListed
<1>6. seenAge \in Ages \cup {None}
  BY SeenAfterType DEF IInv
<1>7. d \in Devices /\ ConnectedIsListed(d) /\ (scan.connected => d.listed)
  BY <1>5, StabilizedOK DEF IInv, ConnectedIsListed
<1>8. /\ h \in Histories \cup {None}
      /\ history[e] # None => h # None /\ h.age <= history[e].age
      /\ d.listed => h # None /\ h.age = 0
  <2>1. history[e] \in Histories \cup {None} /\ Lease(e) \in BOOLEAN
    BY TrackingConstants DEF IInv, TypeOK, Lease
  <2> QED
    BY <1>7, <2>1, HistoryAfterOK
<1>9. c \in Claims \cup {None}
  BY ClaimAfterType DEF IInv, TypeOK, Claims
<1>10. ever \in BOOLEAN
  BY <1>7, <1>8 DEF IInv, TypeOK, Histories, Devices
<1>11. tracker # None =>
          /\ tracker.entry \in Entries /\ tracker.seen \in Ages \cup {None}
          /\ hT # None /\ hT.age \in Ages
  BY <1>8 DEF IInv, TypeOK, TrackedHasHistory, TrackerRecords, Histories
<1>12. c # None => c.age \in Nat
  BY <1>9, TrackingConstants DEF Claims, ClaimAges
<1>13. h # None => h.age \in Ages
  BY <1>8 DEF Histories
<1> HIDE DEF scan, seenAge, d, h, ever, c, affected, hT
<1>14. tracker # None =>
          /\ early.seen \in Ages \cup {None}
          /\ early.shown \in {"home", "away", "unavailable"}
          /\ affected /\ ((c # None /\ c.age < ConsiderHome) \/ hT.age < ConsiderHome)
                => early.shown = "home"
          /\ ~affected => early.shown = shown
  <2> SUFFICES ASSUME tracker # None
               PROVE  /\ early.seen \in Ages \cup {None}
                      /\ early.shown \in {"home", "away", "unavailable"}
                      /\ affected /\ ((c # None /\ c.age < ConsiderHome)
                                         \/ hT.age < ConsiderHome)
                            => early.shown = "home"
                      /\ ~affected => early.shown = shown
    OBVIOUS
  <2>1. shown \in {"home", "away", "unavailable"}
    BY DEF IInv, TypeOK
  <2>2. CASE affected
    BY <1>11, <1>12, <2>2, WrittenOK DEF WrittenNow
  <2>3. CASE ~affected
    BY <1>11, <2>1, <2>3
  <2> QED
    BY <2>2, <2>3
<1> HIDE DEF early
\* the state that is written
<1>15. mine => /\ late.seen \in Ages
               /\ late.shown \in {"home", "away", "unavailable"}
               /\ (c # None /\ c.age < ConsiderHome) \/ h.age < ConsiderHome
                    => late.shown = "home"
               /\ h # None
  <2> SUFFICES ASSUME mine
               PROVE  /\ late.seen \in Ages
                      /\ late.shown \in {"home", "away", "unavailable"}
                      /\ (c # None /\ c.age < ConsiderHome) \/ h.age < ConsiderHome
                           => late.shown = "home"
                      /\ h # None
    OBVIOUS
  <2>1. h # None
    BY <1>8, <1>11 DEF hT
  <2>2. early.seen \in Ages \cup {None}
    <3>1. CASE tracker = None
      BY <3>1 DEF early
    <3> QED
      BY <3>1, <1>14
  <2>3. h.age \in Ages /\ (c # None => c.age \in Nat)
    BY <1>12, <1>13, <2>1
  <2> DEFINE yes == TRUE
             before == early.seen
             w == Written(before, yes, 0, d, c, h, ever)
  <2>4. late = w
    OBVIOUS
  <2> HIDE DEF yes, before
  <2>5. /\ w.seen \in Ages
        /\ w.shown \in {"home", "away", "unavailable"}
        /\ (c # None /\ c.age < ConsiderHome) \/ h.age < ConsiderHome => w.shown = "home"
    BY <2>1, <2>2, <2>3, WrittenOK DEF before
  <2> HIDE DEF late, w
  <2> QED
    BY <2>1, <2>4, <2>5
<1> HIDE DEF late
<1>16. mine => /\ tracker' = [entry |-> e, seen |-> late.seen]
               /\ tracker' \in TrackerRecords /\ tracker' # None
               /\ shown' = late.shown
  BY <1>3, <1>15, NoneIsNoRecord DEF TrackerRecords
<1>17. ~mine /\ tracker # None =>
          /\ tracker' \in TrackerRecords /\ tracker' # None
          /\ tracker'.entry = tracker.entry /\ tracker.entry # e
          /\ shown' = early.shown
  BY <1>3, <1>14, NoneIsNoRecord DEF IInv, TypeOK, TrackerRecords
<1>18. ~mine /\ tracker = None => tracker' = None /\ shown' = shown
  BY <1>3 DEF early
<1> HIDE DEF mine
<1>19. TypeOK'
  <2>1. /\ answers' \in [Entries -> Devices \cup {None}]
        /\ data' \in [Entries -> Devices \cup {None}]
        /\ success' \in [Entries -> BOOLEAN]
        /\ lastSuccess' \in [Entries -> Ages]
        /\ seen' \in [Entries -> Ages \cup {None}]
        /\ history' \in [Entries -> Histories \cup {None}]
    BY <1>2, <1>4, <1>6, <1>7, <1>8, AgesFacts DEF IInv, TypeOK
  <2>2. /\ \A x \in Entries : answers'[x] # None => x \in polled'
        /\ \A x \in Entries : data'[x] # None /\ data'[x].connected => data'[x].listed
    BY <1>2, <1>4, <1>7 DEF IInv, TypeOK, ConnectedIsListed
  <2>3. /\ tracker' \in TrackerRecords \cup {None}
        /\ shown' \in {"unknown", "home", "away", "unavailable"}
        /\ tracker' = None <=> shown' = "unknown"
    BY <1>14, <1>15, <1>16, <1>17, <1>18 DEF IInv, TypeOK
  <2>4. met' \in [entry : Entries, age : Ages] \cup {None}
    BY <1>2, AgesFacts DEF IInv, TypeOK
  <2> QED
    BY <1>2, <1>4, <1>9, <1>10, <2>1, <2>2, <2>3, <2>4 DEF IInv, TypeOK, Claims
<1>20. AnswersListed'
  BY <1>4 DEF IInv, TypeOK, AnswersListed
\* the history
<1>21. /\ history'[e] = h
       /\ \A x \in Entries : x # e => history'[x] = history[x]
  BY <1>2 DEF IInv, TypeOK
<1>22. TrackedHasHistory'
  BY <1>8, <1>11, <1>15, <1>16, <1>17, <1>18, <1>21 DEF TrackedHasHistory, hT
<1>23. MetInHistory'
  <2>1. CASE mine /\ scan.connected
    <3>1. met' = [entry |-> e, age |-> 0] /\ h # None /\ h.age = 0
      BY <1>2, <1>7, <1>8, <2>1
    <3> QED
      BY <3>1, <1>21 DEF MetInHistory
  <2>2. CASE ~(mine /\ scan.connected)
    <3>1. met' = met
      BY <1>2, <2>2
    <3>2. CASE met # None /\ met.entry = e
      <4>1. history[e] # None /\ history[e].age <= met.age
        BY <3>2 DEF IInv, MetInHistory
      <4>2. h # None /\ h.age \in Nat /\ h.age <= met.age
        BY <1>8, <1>13, <3>2, <4>1, AgesFacts DEF IInv, TypeOK, Histories
      <4> QED
        BY <1>21, <3>1, <3>2, <4>2 DEF MetInHistory
    <3>3. CASE met # None /\ met.entry # e
      BY <1>21, <3>1, <3>3 DEF IInv, TypeOK, MetInHistory
    <3>4. CASE met = None
      BY <3>1, <3>4 DEF MetInHistory
    <3> QED
      BY <3>2, <3>3, <3>4
  <2> QED
    BY <2>1, <2>2
<1>24. SeenIsHome'
  <2>1. met' # None => /\ met'.entry \in Entries /\ met'.age \in Nat
                       /\ history'[met'.entry] # None
                       /\ history'[met'.entry].age \in Nat
                       /\ history'[met'.entry].age <= met'.age
    BY <1>19, <1>23, AgesFacts DEF TypeOK, MetInHistory, Histories
  <2>2. CASE mine
    <3>1. met' # None /\ met'.entry = e /\ met'.age < ConsiderHome
             => h.age < ConsiderHome
      BY <1>21, <2>1, TrackingConstants
    <3> QED
      BY <1>2, <1>15, <1>16, <2>2, <3>1 DEF SeenIsHome
  <2>3. CASE ~mine /\ tracker # None
    <3>1. met' = met
      BY <1>2, <2>3
    <3>2. CASE affected
      <4>1. hT = history'[tracker.entry]
        BY <1>11, <1>17, <1>21, <2>3 DEF hT
      <4>2. met' # None /\ met'.entry = tracker.entry /\ met'.age < ConsiderHome
               => hT.age < ConsiderHome
        BY <2>1, <4>1, TrackingConstants
      <4> QED
        BY <1>2, <1>14, <1>17, <2>3, <3>2, <4>2 DEF SeenIsHome
    <3>3. CASE ~affected
      <4>1. claim' = claim /\ shown' = shown
        BY <1>2, <1>14, <1>17, <2>3, <3>3 DEF affected
      <4> QED
        BY <1>17, <2>3, <3>1, <4>1 DEF IInv, SeenIsHome
    <3> QED
      BY <3>2, <3>3
  <2>4. CASE ~mine /\ tracker = None
    BY <1>18, <2>4 DEF SeenIsHome
  <2> QED
    BY <2>2, <2>3, <2>4
<1> QED
  BY <1>19, <1>20, <1>22, <1>23, <1>24 DEF IInv

\* A failed poll keeps the data of the last one.
LEMMA PollFailsStep ==
    ASSUME IInv, NEW e \in Entries, PollFails(e)
    PROVE  IInv'
<1>1. /\ polled' = polled \cup {e}
      /\ success' = [success EXCEPT ![e] = FALSE]
      /\ UNCHANGED <<at, answers, data, lastSuccess, seen, history, shared, met,
                     restarts>>
  BY DEF PollFails
<1>2. AnswersListed' /\ MetInHistory'
  BY <1>1 DEF IInv, AnswersListed, MetInHistory
<1>3. ASSUME tracker' \in TrackerRecords \cup {None},
             shown' \in {"unknown", "home", "away", "unavailable"},
             tracker' = None <=> shown' = "unknown"
      PROVE  TypeOK'
  <2>1. success' \in [Entries -> BOOLEAN] /\ polled' \subseteq Entries
        /\ \A x \in Entries : answers'[x] # None => x \in polled'
    BY <1>1 DEF IInv, TypeOK
  <2> QED
    BY <1>1, <1>3, <2>1 DEF IInv, TypeOK, shared
<1>4. CASE tracker # None /\ tracker.entry = e /\ success[e]
  <2> DEFINE w == Written(tracker.seen, FALSE, lastSuccess[e], Previous(e),
                          claim, history[e], everWireless)
  <2>1. /\ tracker' = [tracker EXCEPT !.seen = w.seen]
        /\ shown' = w.shown
    BY <1>4 DEF PollFails
  <2>2. /\ tracker \in TrackerRecords
        /\ tracker.seen \in Ages \cup {None}
        /\ history[e] # None /\ history[e].age \in Ages
        /\ claim # None => claim.age \in Nat
    BY <1>4, TrackingConstants
       DEF IInv, TypeOK, TrackedHasHistory, TrackerRecords, Histories, ClaimAges
  <2>3. /\ w.seen \in Ages
        /\ w.shown \in {"home", "away", "unavailable"}
        /\ (claim # None /\ claim.age < ConsiderHome)
              \/ history[e].age < ConsiderHome => w.shown = "home"
    <3> DEFINE h == history[e]
               prev == Previous(e)
               last == lastSuccess[e]
               before == tracker.seen
               ok == FALSE
               written == Written(before, ok, last, prev, claim, h, everWireless)
    <3>1. /\ claim # None => claim.age \in Nat
          /\ h # None /\ h.age \in Ages
          /\ before \in Ages \cup {None}
      BY <2>2
    <3> HIDE DEF h, prev, last, before, ok
    <3>2. /\ written.seen \in Ages
          /\ written.shown \in {"home", "away", "unavailable"}
          /\ (claim # None /\ claim.age < ConsiderHome) \/ h.age < ConsiderHome
                => written.shown = "home"
      BY <3>1, WrittenOK
    <3> QED
      BY <3>2 DEF h, prev, last, before, ok
  <2> HIDE DEF w
  <2>4. tracker' \in TrackerRecords /\ tracker' # None /\ tracker'.entry = e
    BY <1>4, <2>1, <2>2, <2>3, NoneIsNoRecord DEF TrackerRecords
  <2>5. TypeOK'
    BY <1>3, <2>1, <2>3, <2>4
  <2>6. TrackedHasHistory'
    BY <1>1, <2>2, <2>4 DEF TrackedHasHistory
  <2>7. met # None /\ met.entry = e /\ met.age < ConsiderHome
           => history[e].age < ConsiderHome
    <3>1. met # None => met.age \in Ages
      BY DEF IInv, TypeOK
    <3>2. MetInHistory
      BY DEF IInv
    <3>3. met # None /\ met.entry = e => history[e].age <= met.age
      BY <3>2 DEF MetInHistory
    <3>4. history[e].age \in Ages
      BY <2>2
    <3>5. \A a, b \in Ages : a <= b /\ b < ConsiderHome => a < ConsiderHome
      BY AgesFacts, TrackingConstants
    <3> QED
      BY <3>1, <3>3, <3>4, <3>5
  <2>8. SeenIsHome'
    BY <1>1, <2>1, <2>3, <2>4, <2>7 DEF SeenIsHome, shared
  <2> QED
    BY <1>2, <2>5, <2>6, <2>8 DEF IInv
<1>5. CASE ~(tracker # None /\ tracker.entry = e /\ success[e])
  <2>1. tracker' = tracker /\ shown' = shown
    BY <1>5 DEF PollFails, entity
  <2>2. TypeOK'
    BY <1>3, <2>1 DEF IInv, TypeOK
  <2> QED
    BY <1>1, <1>2, <2>1, <2>2 DEF IInv, TrackedHasHistory, SeenIsHome, shared
<1> QED
  BY <1>4, <1>5

\* Ages grow together, up to the bound of their kind.
LEMMA OlderOK ==
    /\ \A age \in Ages : Older(age, Ages) \in Ages
    /\ \A age \in Ages \cup {None} : Older(age, Ages) \in Ages \cup {None}
    /\ \A age, b \in Ages : age <= b => Older(age, Ages) <= Older(b, Ages)
    /\ \A age \in Ages : Older(age, Ages) < ConsiderHome => age < ConsiderHome
    /\ \A age \in ClaimAges :
           /\ Older(age, ClaimAges) \in ClaimAges
           /\ Older(age, ClaimAges) < ConsiderHome => age < ConsiderHome
<1>1. ClaimAges \subseteq Nat
  BY TrackingConstants DEF ClaimAges
<1>2. \A age \in ClaimAges : age + 1 \notin ClaimAges => age >= ConsiderHome
  BY TrackingConstants DEF ClaimAges
<1>3. \A age \in Ages : age + 1 \notin Ages => age = ConsiderHome
  BY TrackingConstants DEF Ages
<1> QED
  BY <1>1, <1>2, <1>3, TrackingConstants DEF Older, Ages

\* A period passes: everything gets older together.
LEMMA PeriodStep ==
    ASSUME IInv, Period
    PROVE  IInv'
<1> USE DEF IInv, Period
<1>1. \A h \in Histories : h # None /\ [h EXCEPT !.age = Older(@, Ages)] \in Histories
  BY OlderOK, NoneIsNoRecord DEF Histories
<1>2. /\ history' \in [Entries -> Histories \cup {None}]
      /\ \A e \in Entries : history[e] # None =>
             /\ history[e].age \in Ages
             /\ history'[e] # None
             /\ history'[e].age = Older(history[e].age, Ages)
  BY <1>1 DEF TypeOK, OlderRecord, Histories
<1>3. /\ claim' \in Claims \cup {None}
      /\ claim # None => claim.age \in ClaimAges
      /\ claim # None => claim'.age = Older(claim.age, ClaimAges)
  BY OlderOK DEF TypeOK, OlderRecord, Claims
<1>4. /\ tracker = None => tracker' = None
      /\ tracker # None => /\ tracker' \in TrackerRecords /\ tracker' # None
                           /\ tracker'.entry = tracker.entry
  <2>1. tracker # None => tracker.seen \in Ages \cup {None}
                          /\ tracker' = [tracker EXCEPT !.seen = Older(@, Ages)]
    BY DEF TypeOK, TrackerRecords
  <2> QED
    BY <2>1, OlderOK, NoneIsNoRecord DEF TypeOK, TrackerRecords
<1>5. /\ met' \in [entry : Entries, age : Ages] \cup {None}
      /\ met = None => met' = None
      /\ met # None => /\ met.entry \in Entries /\ met.age \in Ages
                       /\ met'.entry = met.entry
                       /\ met'.age = Older(met.age, Ages)
  BY OlderOK DEF TypeOK, OlderRecord
<1>6. TypeOK'
  <2>1. lastSuccess' \in [Entries -> Ages] /\ seen' \in [Entries -> Ages \cup {None}]
    BY OlderOK DEF TypeOK
  <2>2. polled' \subseteq Entries
        /\ \A e \in Entries : answers'[e] # None => e \in polled'
    OBVIOUS
  <2> QED
    BY <1>2, <1>3, <1>4, <1>5, <2>1, <2>2 DEF TypeOK, Claims
<1>7. AnswersListed' /\ TrackedHasHistory'
  BY <1>2, <1>4 DEF TypeOK, TrackerRecords, AnswersListed, TrackedHasHistory
<1>8. MetInHistory'
  BY <1>2, <1>5, OlderOK DEF MetInHistory
<1>9. SeenIsHome'
  <2>1. met' # None /\ met'.age < ConsiderHome => met # None /\ met.age < ConsiderHome
    BY <1>5, OlderOK
  <2>2. claim' # None /\ claim'.age < ConsiderHome
           => claim # None /\ claim.age < ConsiderHome
    BY <1>3, OlderOK DEF OlderRecord
  <2> QED
    BY <1>4, <1>5, <2>1, <2>2 DEF SeenIsHome
<1> QED
  BY <1>6, <1>7, <1>8, <1>9

\* A restart forgets the data and keeps the history.
LEMMA RestartsStep ==
    ASSUME IInv, Restarts
    PROVE  IInv'
<1> USE DEF IInv, Restarts
<1>1. TypeOK'
  <2>1. /\ answers' \in [Entries -> Devices \cup {None}]
        /\ data' \in [Entries -> Devices \cup {None}]
        /\ success' \in [Entries -> BOOLEAN]
        /\ lastSuccess' \in [Entries -> Ages]
        /\ seen' \in [Entries -> Ages \cup {None}]
    BY AgesFacts
  <2>2. /\ \A e \in Entries : answers'[e] = None /\ data'[e] = None
        /\ restarts' \in 0..MaxRestarts
        /\ everWireless' \in BOOLEAN
    BY TrackingConstants DEF TypeOK
  <2> QED
    BY <2>1, <2>2 DEF TypeOK
<1>2. AnswersListed' /\ TrackedHasHistory' /\ MetInHistory' /\ SeenIsHome'
  BY DEF AnswersListed, TrackedHasHistory, MetInHistory, SeenIsHome
<1> QED
  BY <1>1, <1>2

\* One step per action.
LEMMA NextIInv == IInv /\ [Next]_vars => IInv'
<1> SUFFICES ASSUME IInv, [Next]_vars PROVE IInv'
  OBVIOUS
<1>1. CASE Moves
  BY <1>1, MovesStep
<1>2. CASE Period
  BY <1>2, PeriodStep
<1>3. CASE Restarts
  BY <1>3, RestartsStep
<1>4. ASSUME NEW e \in Entries, Polls(e)
      PROVE  IInv'
  BY <1>4, FetchesStep, ProcessesStep, PollFailsStep DEF Polls
<1>5. CASE UNCHANGED vars
  BY <1>5 DEF vars, coordinators, entity, shared, IInv, TypeOK, AnswersListed,
              TrackedHasHistory, MetInHistory, SeenIsHome
<1> QED
  BY <1>1, <1>2, <1>3, <1>4, <1>5 DEF Next

-----------------------------------------------------------------------------

\* Every state of the entries, the shared records and the tracker is well formed.
THEOREM Typing == Spec => []TypeOK
<1>1. IInv => TypeOK
  BY DEF IInv
<1> QED
  BY InitIInv, NextIInv, <1>1, PTL DEF Spec

\* A device seen within the grace period, by the tracker's own router or through
\* the claim of any access point, is shown at home: with any number of entries,
\* polling in any order, through failed polls and restarts.
THEOREM SeenDevicesAreHome == Spec => []SeenIsHome
<1>1. IInv => SeenIsHome
  BY DEF IInv
<1> QED
  BY InitIInv, NextIInv, <1>1, PTL DEF Spec

=============================================================================
