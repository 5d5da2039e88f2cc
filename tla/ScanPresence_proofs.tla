-------------------------- MODULE ScanPresence_proofs --------------------------
(***************************************************************************)
(* Proofs about the presence of a device: what the scripts of the access   *)
(* points leave retained, for any radios, access points and moves between  *)
(* them; what the lists of successive polls make of the sources, over any  *)
(* transports and with any options; and the types of the announcement and  *)
(* of the life of an entry.  The last section puts the four together.      *)
(***************************************************************************)
EXTENDS MC_ScanPresence, TLAPS

-----------------------------------------------------------------------------
(* The presence scripts.                                                   *)

HandlerPhases == {"idle", "cancel", "state", "attributes", "start"}
TimerPhases == {"none", "sleep", "seen", "owner", "state", "attributes"}

\* The types, and which phases the script of an event goes through.
PresenceTypes ==
    /\ at \in Ifaces \cup {Nowhere}
    /\ stations \subseteq Ifaces
    /\ at # Nowhere => at \in stations
    /\ queue \in [Ifaces -> Seq(Events)]
    /\ handler \in [Ifaces -> [event : Events, phase : HandlerPhases]]
    /\ timer \in [Ifaces -> TimerPhases]
    /\ state \in {"home", "not_home"}
    /\ owner \in APs \cup {Nobody}
    /\ late \subseteq {"state", "attributes"}
    /\ moves \in 0..MaxMoves
    /\ prompt \in BOOLEAN
    /\ \A i \in Ifaces :
          /\ handler[i].phase \in {"state", "attributes"} => handler[i].event = "connected"
          /\ handler[i].phase = "start" => handler[i].event = "disconnected"

\* A radio has two events at most for each association, and one of them only
\* once it no longer lists the device.
Listing(i) == IF i \in stations THEN 1 ELSE 0
QueueBounds == \A i \in Ifaces : Len(queue[i]) + Listing(i) <= 2 * moves

\* Nothing goes on at a radio, but for a timer that sleeps.
Resting(i) ==
    queue[i] = <<>> /\ handler[i].phase = "idle" /\ timer[i] \in {"none", "sleep"}

\* One thing goes on there: an event waits, its script runs, or a timer does.
OneThing(i) ==
    \/ /\ \E e \in Events : queue[i] = <<e>>
       /\ handler[i].phase = "idle" /\ timer[i] \in {"none", "sleep"}
    \/ queue[i] = <<>> /\ handler[i].phase # "idle" /\ timer[i] \in {"none", "sleep"}
    \/ queue[i] = <<>> /\ handler[i].phase = "idle" /\ timer[i] \notin {"none", "sleep"}

Alone(i) == \A j \in Ifaces : j # i => Resting(j)

\* Scripts that do not overlap: where something goes on, nothing does elsewhere.
OneScript == \A i \in Ifaces : Resting(i) \/ (OneThing(i) /\ Alone(i))

\* The event that waits at a radio or that its script runs for.
Handles(i, e) ==
    \/ queue[i] = <<e>>
    \/ handler[i].phase # "idle" /\ handler[i].event = e

\* What the retained messages say.
SaysHome(a) == state = "home" /\ owner = a
SaysAway == state = "not_home" /\ owner = Nobody

\* An access point that is named will still look for the device: a radio of it lists
\* the device or has a disconnection or a timer on its way.
Watches(a) ==
    \E i \in Ifaces :
        /\ ApOf[i] = a
        /\ \/ i \in stations
           \/ timer[i] \in {"sleep", "seen", "owner", "state"}
           \/ Handles(i, "disconnected")

\* What is on its way is of the device as it is, and what is retained right or about
\* to be corrected.
OnItsWayRight ==
    /\ \A i \in Ifaces : Handles(i, "connected") =>
          at = i /\ (handler[i].phase = "attributes" => state = "home")
    /\ at # Nowhere /\ (\A i \in Ifaces : ~Handles(i, "connected")) => SaysHome(ApOf[at])
    /\ at = Nowhere /\ (\A i \in Ifaces : timer[i] # "attributes") =>
          SaysAway \/ \E a \in APs : SaysHome(a) /\ Watches(a)
    /\ \A i \in Ifaces :
          /\ timer[i] = "owner" => stations \cap Radios(ApOf[i]) = {}
          /\ timer[i] \in {"state", "attributes"} =>
                at = Nowhere /\ owner \in {ApOf[i], Nobody}
          /\ timer[i] = "attributes" => state = "not_home"

PresenceIInv ==
    /\ PresenceTypes
    /\ QueueBounds
    /\ prompt => late = {} /\ OneScript /\ OnItsWayRight

\* Queues of one event.
LEMMA OneEvent ==
    /\ \A e \in Events : /\ Append(<<>>, e) = <<e>> /\ Head(<<e>>) = e /\ Tail(<<e>>) = <<>>
                         /\ <<e>> # <<>>
    /\ <<"connected">> # <<"disconnected">>
<1>1. <<"connected">>[1] = "connected" /\ <<"disconnected">>[1] = "disconnected"
  OBVIOUS
<1>2. \A e \in Events : /\ Append(<<>>, e) = <<e>> /\ Head(<<e>>) = e /\ Tail(<<e>>) = <<>>
                        /\ <<e>> # <<>>
  OBVIOUS
<1> QED
  BY <1>1, <1>2

\* At the start.
LEMMA PresenceInitIInv == Init => PresenceIInv
<1> SUFFICES ASSUME Init PROVE PresenceIInv
  OBVIOUS
<1> USE PresenceConstants
<1>1. \A i \in Ifaces : /\ queue[i] = <<>> /\ handler[i] = Idle /\ timer[i] = "none"
                        /\ Len(queue[i]) = 0 /\ Listing(i) = 0
  BY DEF Init, Listing
<1>2. Idle.phase = "idle" /\ Idle \in [event : Events, phase : HandlerPhases]
  BY DEF Idle, Events, HandlerPhases
<1>3. PresenceTypes
  <2>1. queue \in [Ifaces -> Seq(Events)]
    BY DEF Init
  <2> QED
    BY <1>1, <1>2, <2>1 DEF Init, PresenceTypes, TimerPhases
<1>4. QueueBounds
  BY <1>1 DEF QueueBounds, Init
<1>5. OneScript
  BY <1>1, <1>2 DEF OneScript, Resting
<1>6. OnItsWayRight
  BY <1>1, <1>2, OneEvent DEF OnItsWayRight, Init, SaysAway, Handles, Events
<1> QED
  BY <1>3, <1>4, <1>5, <1>6 DEF PresenceIInv, Init

\* The types and the bound are kept, whether scripts overlap or not.
LEMMA PresenceNextTypes ==
    PresenceTypes /\ QueueBounds /\ [Next]_vars => PresenceTypes' /\ QueueBounds'
<1> SUFFICES ASSUME PresenceTypes, QueueBounds, [Next]_vars
             PROVE  PresenceTypes' /\ QueueBounds'
  OBVIOUS
<1> USE PresenceConstants DEF PresenceTypes
<1>1. CASE Leaves \/ UNCHANGED vars
  BY <1>1 DEF Leaves, vars, device, broker, Begins, Working, QueueBounds, Listing
<1>2. CASE DeliveredLate
  BY <1>2 DEF DeliveredLate, device, QueueBounds, Listing
<1>3. ASSUME NEW i \in Ifaces, Associates(i) PROVE PresenceTypes' /\ QueueBounds'
  <2>1. /\ at' = i /\ stations' = stations \cup {i} /\ moves' = moves + 1
        /\ moves' \in 0..MaxMoves
        /\ queue' = [queue EXCEPT ![i] = Append(@, "connected")]
        /\ UNCHANGED <<handler, timer, state, owner, late>>
    BY <1>3 DEF Associates, broker
  <2>2. prompt' \in BOOLEAN
    BY <1>3 DEF Associates, Begins, Working
  <2>3. /\ queue' \in [Ifaces -> Seq(Events)]
        /\ Len(queue'[i]) = Len(queue[i]) + 1
        /\ \A j \in Ifaces : j # i => queue'[j] = queue[j]
    BY <2>1 DEF Events
  <2>4. QueueBounds'
    <3> SUFFICES ASSUME NEW j \in Ifaces PROVE Len(queue'[j]) + Listing(j)' <= 2 * moves'
      BY DEF QueueBounds
    <3>1. Len(queue[j]) + Listing(j) <= 2 * moves /\ Len(queue[j]) \in Nat
      BY DEF QueueBounds
    <3>2. Listing(j) \in {0, 1} /\ Listing(j)' \in {0, 1}
          /\ (j # i => Listing(j)' = Listing(j))
      BY <2>1 DEF Listing
    <3>3. Len(queue'[j]) = Len(queue[j]) + (IF j = i THEN 1 ELSE 0)
      BY <2>3, <3>1
    <3> DEFINE n == Len(queue[j])
               m == Len(queue'[j])
               l == Listing(j)
               k == Listing(j)'
    <3>4. /\ n + l <= 2 * moves /\ n \in Nat /\ l \in {0, 1} /\ k \in {0, 1}
          /\ m = n + (IF j = i THEN 1 ELSE 0) /\ (j # i => k = l)
          /\ moves' = moves + 1 /\ moves \in Nat
      BY <2>1, <3>1, <3>2, <3>3
    <3> HIDE DEF n, m, l, k
    <3>5. m + k <= 2 * moves'
      BY <3>4
    <3> QED
      BY <3>5 DEF m, k
  <2> QED
    BY <2>1, <2>2, <2>3, <2>4
<1>4. ASSUME NEW i \in Ifaces, Dropped(i) PROVE PresenceTypes' /\ QueueBounds'
  <2>1. /\ at' = at /\ stations' = stations \ {i} /\ moves' = moves /\ i \in stations
        /\ at # i
        /\ queue' = [queue EXCEPT ![i] = Append(@, "disconnected")]
        /\ UNCHANGED <<handler, timer, state, owner, late>>
    BY <1>4 DEF Dropped, broker
  <2>2. prompt' \in BOOLEAN
    BY <1>4 DEF Dropped, Begins, Working
  <2>3. /\ queue' \in [Ifaces -> Seq(Events)]
        /\ Len(queue'[i]) = Len(queue[i]) + 1
        /\ \A j \in Ifaces : j # i => queue'[j] = queue[j]
    BY <2>1 DEF Events
  <2>4. QueueBounds'
    <3> SUFFICES ASSUME NEW j \in Ifaces PROVE Len(queue'[j]) + Listing(j)' <= 2 * moves'
      BY DEF QueueBounds
    <3>1. Len(queue[j]) + Listing(j) <= 2 * moves /\ Len(queue[j]) \in Nat
      BY DEF QueueBounds
    <3>2. Listing(j) \in {0, 1} /\ Listing(j)' \in {0, 1}
          /\ (j # i => Listing(j)' = Listing(j))
          /\ (j = i => Listing(j) = 1 /\ Listing(j)' = 0)
      BY <2>1 DEF Listing
    <3>3. Len(queue'[j]) = Len(queue[j]) + (IF j = i THEN 1 ELSE 0)
      BY <2>3, <3>1
    <3> DEFINE n == Len(queue[j])
               m == Len(queue'[j])
               l == Listing(j)
               k == Listing(j)'
    <3>4. /\ n + l <= 2 * moves /\ n \in Nat /\ l \in {0, 1} /\ k \in {0, 1}
          /\ m = n + (IF j = i THEN 1 ELSE 0) /\ (j # i => k = l)
          /\ (j = i => l = 1 /\ k = 0)
          /\ moves' = moves /\ moves \in Nat
      BY <2>1, <3>1, <3>2, <3>3
    <3> HIDE DEF n, m, l, k
    <3>5. m + k <= 2 * moves'
      BY <3>4
    <3> QED
      BY <3>5 DEF m, k
  <2> QED
    BY <2>1, <2>2, <2>3, <2>4
<1>5. ASSUME NEW i \in Ifaces, EventTaken(i) PROVE PresenceTypes' /\ QueueBounds'
  <2>1. /\ queue[i] # <<>> /\ queue' = [queue EXCEPT ![i] = Tail(@)]
        /\ handler' = [handler EXCEPT ![i] = [event |-> Head(queue[i]), phase |-> "cancel"]]
        /\ UNCHANGED <<at, stations, moves, prompt, timer, state, owner, late>>
    BY <1>5 DEF EventTaken, device, broker
  <2>2. queue[i] \in Seq(Events) /\ Head(queue[i]) \in Events /\ Tail(queue[i]) \in Seq(Events)
    BY <2>1
  <2>3. /\ queue' \in [Ifaces -> Seq(Events)]
        /\ Len(queue'[i]) = Len(queue[i]) - 1
        /\ \A j \in Ifaces : j # i => queue'[j] = queue[j]
    BY <2>1, <2>2
  <2>4. QueueBounds'
    <3> SUFFICES ASSUME NEW j \in Ifaces PROVE Len(queue'[j]) + Listing(j)' <= 2 * moves'
      BY DEF QueueBounds
    <3>1. Len(queue[j]) + Listing(j) <= 2 * moves /\ Len(queue[j]) \in Nat
      BY DEF QueueBounds
    <3>2. Listing(j) \in {0, 1} /\ Listing(j)' = Listing(j) /\ moves' = moves /\ moves \in Nat
      BY <2>1 DEF Listing
    <3>3. Len(queue'[j]) = Len(queue[j]) - (IF j = i THEN 1 ELSE 0)
      BY <2>3, <3>1
    <3> DEFINE n == Len(queue[j])
               m == Len(queue'[j])
               l == Listing(j)
    <3>4. /\ n + l <= 2 * moves /\ n \in Nat /\ l \in {0, 1}
          /\ m = n - (IF j = i THEN 1 ELSE 0) /\ moves \in Nat
      BY <3>1, <3>2, <3>3
    <3> HIDE DEF n, m, l
    <3>5. m + l <= 2 * moves
      BY <3>4
    <3> QED
      BY <3>2, <3>5 DEF m, l
  <2>5. handler' \in [Ifaces -> [event : Events, phase : HandlerPhases]]
    BY <2>1, <2>2 DEF HandlerPhases
  <2>6. handler'[i].phase = "cancel" /\ \A j \in Ifaces : j # i => handler'[j] = handler[j]
    BY <2>1
  <2> QED
    BY <2>1, <2>3, <2>4, <2>5, <2>6
<1>6. ASSUME UNCHANGED <<at, stations, moves, queue>> PROVE QueueBounds'
  BY <1>6 DEF QueueBounds, Listing
<1>7. ASSUME NEW i \in Ifaces, CancelGrace(i) PROVE PresenceTypes' /\ QueueBounds'
  <2>1. /\ handler' = [handler EXCEPT ![i].phase = AfterCancel(i)]
        /\ timer' = [j \in Ifaces |-> IF ApOf[j] = ApOf[i] THEN "none" ELSE timer[j]]
        /\ late' = late \cup ({timer[j] : j \in Radios(ApOf[i])} \cap {"state", "attributes"})
        /\ UNCHANGED <<at, stations, moves, prompt, queue, state, owner>>
    BY <1>7 DEF CancelGrace, device, broker
  <2>2. AfterCancel(i) \in HandlerPhases
    BY DEF AfterCancel, HandlerPhases
  <2>3. /\ handler' \in [Ifaces -> [event : Events, phase : HandlerPhases]]
        /\ handler'[i].phase = AfterCancel(i) /\ handler'[i].event = handler[i].event
        /\ \A j \in Ifaces : j # i => handler'[j] = handler[j]
    BY <2>1, <2>2
  <2>4. \A j \in Ifaces :
          /\ handler'[j].phase \in {"state", "attributes"} => handler'[j].event = "connected"
          /\ handler'[j].phase = "start" => handler'[j].event = "disconnected"
    BY <2>3 DEF AfterCancel, Events
  <2>5. timer' \in [Ifaces -> TimerPhases]
    BY <2>1 DEF TimerPhases
  <2> QED
    BY <1>6, <2>1, <2>3, <2>4, <2>5
<1>8. ASSUME NEW i \in Ifaces, PublishHome(i) PROVE PresenceTypes' /\ QueueBounds'
  <2>1. /\ handler[i].phase = "state"
        /\ handler' = [handler EXCEPT ![i].phase = "attributes"]
        /\ state' = "home" /\ UNCHANGED <<at, stations, moves, prompt, queue, timer, owner, late>>
    BY <1>8 DEF PublishHome, device
  <2>2. /\ handler' \in [Ifaces -> [event : Events, phase : HandlerPhases]]
        /\ handler'[i].phase = "attributes" /\ handler'[i].event = handler[i].event
        /\ \A j \in Ifaces : j # i => handler'[j] = handler[j]
    BY <2>1 DEF HandlerPhases
  <2> QED
    BY <1>6, <2>1, <2>2
<1>9. ASSUME NEW i \in Ifaces, PublishOwner(i) \/ StartGrace(i)
      PROVE  PresenceTypes' /\ QueueBounds'
  <2>1. /\ handler' = [handler EXCEPT ![i] = Idle]
        /\ UNCHANGED <<at, stations, moves, prompt, queue, state, late>>
        /\ \/ owner' = ApOf[i] /\ UNCHANGED timer
           \/ UNCHANGED owner /\ timer' = [timer EXCEPT ![i] = "sleep"]
    BY <1>9 DEF PublishOwner, StartGrace, device, broker
  <2>2. Idle \in [event : Events, phase : HandlerPhases] /\ Idle.phase = "idle"
    BY DEF Idle, Events, HandlerPhases
  <2>3. /\ handler' \in [Ifaces -> [event : Events, phase : HandlerPhases]]
        /\ handler'[i].phase = "idle"
        /\ \A j \in Ifaces : j # i => handler'[j] = handler[j]
    BY <2>1, <2>2
  <2>4. timer' \in [Ifaces -> TimerPhases]
    <3>1. CASE UNCHANGED timer
      BY <3>1
    <3>2. CASE timer' = [timer EXCEPT ![i] = "sleep"]
      BY <3>2 DEF TimerPhases
    <3> QED
      BY <2>1, <3>1, <3>2
  <2>5. owner' \in APs \cup {Nobody}
    BY <2>1
  <2> QED
    BY <1>6, <2>1, <2>3, <2>4, <2>5
<1>10. ASSUME NEW i \in Ifaces,
              \/ GraceOver(i) \/ SeenAnywhere(i) \/ OwnedByOtherAp(i)
              \/ PublishNotHome(i) \/ PublishNobody(i)
       PROVE  PresenceTypes' /\ QueueBounds'
  <2>1. PICK t \in TimerPhases : timer' = [timer EXCEPT ![i] = t]
    BY <1>10 DEF GraceOver, SeenAnywhere, OwnedByOtherAp, PublishNotHome, PublishNobody,
                 TimerPhases
  <2>2. /\ UNCHANGED <<at, stations, moves, queue, handler, late>>
        /\ prompt' \in BOOLEAN
        /\ state' \in {"home", "not_home"} /\ owner' \in APs \cup {Nobody}
    BY <1>10 DEF GraceOver, SeenAnywhere, OwnedByOtherAp, PublishNotHome, PublishNobody,
                 device, broker, Begins, Working
  <2> QED
    BY <1>6, <2>1, <2>2
<1> QED
  BY <1>1, <1>2, <1>3, <1>4, <1>5, <1>7, <1>8, <1>9, <1>10 DEF Next

\* Where something goes on, it is one thing, and nothing goes on elsewhere.
LEMMA OneActs ==
    ASSUME OneScript, NEW i \in Ifaces, ~Resting(i)
    PROVE  /\ OneThing(i)
           /\ \A j \in Ifaces : j # i =>
                /\ queue[j] = <<>> /\ handler[j].phase = "idle"
                /\ timer[j] \in {"none", "sleep"}
                /\ \A e \in Events : ~Handles(j, e)
BY OneEvent DEF OneScript, Alone, Resting, Handles

\* Before the device or a timer begins anything, nothing goes on.
LEMMA NothingGoesOn ==
    ASSUME Begins, prompt'
    PROVE  /\ prompt
           /\ \A i \in Ifaces : /\ queue[i] = <<>> /\ handler[i].phase = "idle"
                                /\ timer[i] \in {"none", "sleep"}
                                /\ \A e \in Events : ~Handles(i, e)
BY OneEvent DEF Begins, Working, Handles

\* A step that only one radio takes part in.
LEMMA OneScriptStays ==
    ASSUME NEW i \in Ifaces,
           Resting(i)' \/ OneThing(i)',
           \A j \in Ifaces : j # i => Resting(j)'
    PROVE  OneScript'
BY DEF OneScript, Alone

\* The device and hostapd.
LEMMA DeviceKeepsRight ==
    ASSUME PresenceIInv, NEW i \in Ifaces, prompt',
           Associates(i) \/ Leaves \/ Dropped(i)
    PROVE  late' = {} /\ OneScript' /\ OnItsWayRight'
<1> USE PresenceConstants
<1>1. Begins /\ UNCHANGED <<handler, timer, state, owner, late>>
  BY DEF Associates, Leaves, Dropped, broker
<1>2. /\ prompt /\ late = {} /\ OnItsWayRight /\ PresenceTypes
      /\ \A j \in Ifaces : /\ queue[j] = <<>> /\ handler[j].phase = "idle"
                           /\ timer[j] \in {"none", "sleep"}
                           /\ \A e \in Events : ~Handles(j, e)
  BY <1>1, NothingGoesOn DEF PresenceIInv
<1>3. /\ "connected" \in Events /\ "disconnected" \in Events
      /\ Nowhere \notin Ifaces /\ Nobody \notin APs
      /\ at \in Ifaces \cup {Nowhere} /\ (at # Nowhere => at \in stations)
      /\ ApOf \in [Ifaces -> APs] /\ stations \subseteq Ifaces
  BY <1>2 DEF Events, PresenceTypes
<1>4. /\ at # Nowhere => SaysHome(ApOf[at])
      /\ at = Nowhere => SaysAway \/ \E a \in APs : SaysHome(a) /\ Watches(a)
  BY <1>2, <1>3 DEF OnItsWayRight
<1>5. CASE Associates(i)
  <2>1. /\ at' = i /\ stations' = stations \cup {i}
        /\ queue'[i] = <<"connected">> /\ \A j \in Ifaces : j # i => queue'[j] = <<>>
    <3>1. queue' = [queue EXCEPT ![i] = Append(@, "connected")]
      BY <1>5 DEF Associates
    <3>2. /\ queue \in [Ifaces -> Seq(Events)] /\ queue[i] = <<>>
          /\ \A j \in Ifaces : queue[j] = <<>>
      BY <1>2 DEF PresenceTypes
    <3>3. queue'[i] = Append(queue[i], "connected") /\ \A j \in Ifaces : j # i => queue'[j] = queue[j]
      BY <3>1, <3>2
    <3>4. Append(queue[i], "connected") = <<"connected">>
      BY <1>3, <3>2, OneEvent
    <3> QED
      BY <1>5, <3>2, <3>3, <3>4 DEF Associates
  <2>2. Handles(i, "connected")' /\ \A j \in Ifaces : j # i => ~Handles(j, "connected")'
    BY <1>1, <1>2, <1>3, <2>1, OneEvent DEF Handles
  <2>3. OneScript'
    BY <1>1, <1>2, <1>3, <2>1, OneScriptStays DEF Resting, OneThing
  <2>4. \A j \in Ifaces : timer'[j] \in {"none", "sleep"} /\ handler'[j].phase = "idle"
    BY <1>1, <1>2
  <2>5. OnItsWayRight'
    BY <1>3, <2>1, <2>2, <2>4 DEF OnItsWayRight
  <2> QED
    BY <1>1, <1>2, <2>3, <2>5
<1>6. CASE Leaves
  <2>1. at # Nowhere /\ at' = Nowhere /\ stations' = stations /\ queue' = queue
    BY <1>6 DEF Leaves
  <2>2. \A j \in Ifaces : \A e \in Events : ~Handles(j, e)'
    BY <1>1, <1>2, <2>1 DEF Handles
  <2>3. OneScript'
    BY <1>1, <1>2, <2>1 DEF OneScript, Resting
  <2>4. PICK a \in APs : SaysHome(a)' /\ Watches(a)'
    <3>1. PICK j \in Ifaces : j = at /\ j \in stations
      BY <1>3, <2>1
    <3>2. ApOf[j] \in APs /\ SaysHome(ApOf[j])
      BY <1>3, <1>4, <2>1, <3>1
    <3>3. SaysHome(ApOf[j])' /\ Watches(ApOf[j])'
      BY <1>1, <2>1, <3>1, <3>2 DEF SaysHome, Watches
    <3> QED
      BY <3>2, <3>3
  <2>5. \A j \in Ifaces : timer'[j] \in {"none", "sleep"} /\ handler'[j].phase = "idle"
    BY <1>1, <1>2
  <2>6. OnItsWayRight'
    BY <1>3, <2>1, <2>2, <2>4, <2>5 DEF OnItsWayRight
  <2> QED
    BY <1>1, <1>2, <2>3, <2>6
<1>7. CASE Dropped(i)
  <2>1. /\ at' = at /\ at # i /\ stations' = stations \ {i}
        /\ queue'[i] = <<"disconnected">> /\ \A j \in Ifaces : j # i => queue'[j] = <<>>
    <3>1. queue' = [queue EXCEPT ![i] = Append(@, "disconnected")]
      BY <1>7 DEF Dropped
    <3>2. /\ queue \in [Ifaces -> Seq(Events)] /\ queue[i] = <<>>
          /\ \A j \in Ifaces : queue[j] = <<>>
      BY <1>2 DEF PresenceTypes
    <3>3. queue'[i] = Append(queue[i], "disconnected") /\ \A j \in Ifaces : j # i => queue'[j] = queue[j]
      BY <3>1, <3>2
    <3>4. Append(queue[i], "disconnected") = <<"disconnected">>
      BY <1>3, <3>2, OneEvent
    <3> QED
      BY <1>7, <3>2, <3>3, <3>4 DEF Dropped
  <2>2. Handles(i, "disconnected")' /\ \A j \in Ifaces : ~Handles(j, "connected")'
    BY <1>1, <1>2, <1>3, <2>1, OneEvent DEF Handles
  <2>3. OneScript'
    BY <1>1, <1>2, <1>3, <2>1, OneScriptStays DEF Resting, OneThing
  <2>4. \A j \in Ifaces : timer'[j] \in {"none", "sleep"} /\ handler'[j].phase = "idle"
    BY <1>1, <1>2
  <2>5. \A a : Watches(a) => Watches(a)'
    <3> SUFFICES ASSUME NEW a, Watches(a) PROVE Watches(a)'
      OBVIOUS
    <3>1. PICK j \in Ifaces : ApOf[j] = a /\ (j \in stations \/ timer[j] = "sleep")
      BY <1>2, <1>3 DEF Watches
    <3>2. j = i \/ j \in stations' \/ timer'[j] = "sleep"
      BY <1>1, <2>1, <3>1
    <3> QED
      BY <2>2, <3>1, <3>2 DEF Watches
  <2>6. /\ \A a : SaysHome(a)' <=> SaysHome(a)
        /\ SaysAway' <=> SaysAway
    BY <1>1 DEF SaysHome, SaysAway
  <2>7. OnItsWayRight'
    BY <1>3, <1>4, <2>1, <2>2, <2>4, <2>5, <2>6 DEF OnItsWayRight
  <2> QED
    BY <1>1, <1>2, <2>3, <2>7
<1> QED
  BY <1>5, <1>6, <1>7

\* The script of an event.
LEMMA ScriptKeepsRight ==
    ASSUME PresenceIInv, NEW i \in Ifaces, prompt', PresenceTypes',
           EventTaken(i) \/ CancelGrace(i) \/ PublishHome(i) \/ PublishOwner(i) \/ StartGrace(i)
    PROVE  late' = {} /\ OneScript' /\ OnItsWayRight'
<1> USE PresenceConstants
<1>1. UNCHANGED <<at, stations, moves, prompt>>
  BY DEF EventTaken, CancelGrace, PublishHome, PublishOwner, StartGrace, device
<1>2. late = {} /\ OneScript /\ OnItsWayRight /\ PresenceTypes
  BY <1>1 DEF PresenceIInv
<1>3. ~Resting(i)
  BY DEF Resting, EventTaken, CancelGrace, PublishHome, PublishOwner, StartGrace
<1>4. /\ OneThing(i)
      /\ \A j \in Ifaces : j # i =>
            /\ queue[j] = <<>> /\ handler[j].phase = "idle"
            /\ timer[j] \in {"none", "sleep"}
            /\ \A e \in Events : ~Handles(j, e)
  BY <1>2, <1>3, OneActs
<1>5. /\ "connected" \in Events /\ "disconnected" \in Events
      /\ Nowhere \notin Ifaces /\ Nobody \notin APs
      /\ at \in Ifaces \cup {Nowhere} /\ (at # Nowhere => at \in stations)
      /\ ApOf \in [Ifaces -> APs] /\ stations \subseteq Ifaces
      /\ handler[i].event \in Events
  BY <1>2 DEF Events, PresenceTypes
<1>6. timer[i] \in {"none", "sleep"}
  BY <1>4 DEF OneThing, EventTaken, CancelGrace, PublishHome, PublishOwner, StartGrace
<1>7. \A j \in Ifaces : timer[j] \in {"none", "sleep"}
  BY <1>4, <1>6
<1>8. CASE EventTaken(i)
  <2>1. PICK e \in Events : queue[i] = <<e>>
    BY <1>4, <1>8 DEF OneThing, EventTaken
  <2>2. /\ queue'[i] = <<>> /\ handler'[i].event = e /\ handler'[i].phase = "cancel"
        /\ \A j \in Ifaces : j # i => queue'[j] = <<>> /\ handler'[j].phase = "idle"
        /\ UNCHANGED <<timer, state, owner, late>>
    <3>1. /\ queue' = [queue EXCEPT ![i] = Tail(queue[i])]
          /\ handler' = [handler EXCEPT ![i] = [event |-> e, phase |-> "cancel"]]
          /\ UNCHANGED <<timer, state, owner, late>>
      BY <1>8, <2>1, OneEvent DEF EventTaken, broker
    <3>2. Tail(queue[i]) = <<>>
      BY <2>1, OneEvent
    <3> QED
      BY <1>2, <1>4, <3>1, <3>2 DEF PresenceTypes
  <2>3. OneScript'
    BY <1>7, <2>2, OneScriptStays DEF Resting, OneThing
  <2>4. handler[i].phase = "idle"
    BY <1>8 DEF EventTaken
  <2>5. \A j \in Ifaces : \A d \in Events : Handles(j, d)' <=> Handles(j, d)
    <3>1. \A d \in Events : Handles(i, d)' <=> e = d
      BY <2>2, OneEvent DEF Handles
    <3>2. \A d \in Events : Handles(i, d) <=> e = d
      <4>1. \A d \in Events : <<e>> = <<d>> <=> e = d
        OBVIOUS
      <4> QED
        BY <2>1, <2>4, <4>1 DEF Handles
    <3>3. \A j \in Ifaces : j # i => \A d \in Events : ~Handles(j, d)'
      BY <2>2, OneEvent DEF Handles
    <3> QED
      BY <1>4, <3>1, <3>2, <3>3
  <2>6. \A a : /\ SaysHome(a)' <=> SaysHome(a)
               /\ Watches(a)' <=> Watches(a)
    BY <1>1, <1>5, <2>2, <2>5 DEF SaysHome, Watches
  <2>7. SaysAway' <=> SaysAway
    BY <2>2 DEF SaysAway
  <2>8. /\ ApOf[at]' = ApOf[at]
        /\ \A j \in Ifaces : timer'[j] \in {"none", "sleep"}
        /\ \A j \in Ifaces : handler'[j].phase # "attributes"
    BY <1>1, <1>7, <2>2
  <2>9. OnItsWayRight'
    BY <1>1, <1>2, <1>5, <1>7, <2>5, <2>6, <2>7, <2>8 DEF OnItsWayRight
  <2> QED
    BY <1>2, <2>2, <2>3, <2>9
<1>9. CASE CancelGrace(i)
  <2>1. /\ handler[i].phase = "cancel"
        /\ queue' = queue /\ UNCHANGED <<state, owner>>
        /\ handler'[i].event = handler[i].event /\ handler'[i].phase = AfterCancel(i)
        /\ \A j \in Ifaces : j # i => handler'[j].phase = "idle"
        /\ \A j \in Ifaces : timer'[j] = IF ApOf[j] = ApOf[i] THEN "none" ELSE timer[j]
    <3>1. /\ handler[i].phase = "cancel" /\ UNCHANGED <<queue, state, owner>>
          /\ handler' = [handler EXCEPT ![i].phase = AfterCancel(i)]
          /\ timer' = [j \in Ifaces |-> IF ApOf[j] = ApOf[i] THEN "none" ELSE timer[j]]
      BY <1>9 DEF CancelGrace, broker
    <3> QED
      BY <1>2, <1>4, <3>1 DEF PresenceTypes
  <2>2. late' = {}
    <3>1. late' = late \cup ({timer[j] : j \in Radios(ApOf[i])} \cap {"state", "attributes"})
      BY <1>9 DEF CancelGrace
    <3>2. {timer[j] : j \in Radios(ApOf[i])} \cap {"state", "attributes"} = {}
      BY <1>7 DEF Radios
    <3> QED
      BY <1>2, <3>1, <3>2
  <2>3. queue[i] = <<>>
    BY <1>4, <2>1 DEF OneThing
  <2>4. /\ AfterCancel(i) \in {"state", "start"}
        /\ AfterCancel(i) = "start" => handler[i].event = "disconnected"
    BY <1>5 DEF AfterCancel, Events
  <2>5. \A j \in Ifaces : timer'[j] \in {"none", "sleep"}
    BY <1>7, <2>1
  <2>6. OneScript'
    BY <1>4, <2>1, <2>3, <2>4, <2>5, OneScriptStays DEF Resting, OneThing
  <2>7. \A j \in Ifaces : \A d \in Events : Handles(j, d)' <=> Handles(j, d)
    <3>1. \A d \in Events : /\ Handles(i, d)' <=> handler[i].event = d
                            /\ Handles(i, d) <=> handler[i].event = d
      BY <2>1, <2>3, <2>4, OneEvent DEF Handles
    <3>2. \A j \in Ifaces : j # i => \A d \in Events : ~Handles(j, d)'
      BY <1>4, <2>1, OneEvent DEF Handles
    <3> QED
      BY <1>4, <3>1, <3>2
  <2>8. ~Handles(i, "connected") => Handles(i, "disconnected")
    BY <1>5, <2>1 DEF Handles, Events
  <2>9. /\ \A a : SaysHome(a)' <=> SaysHome(a)
        /\ SaysAway' <=> SaysAway
    BY <2>1 DEF SaysHome, SaysAway
  <2>10. ASSUME NEW a, Watches(a), ~Handles(i, "connected") PROVE Watches(a)'
    <3>1. PICK j \in Ifaces : /\ ApOf[j] = a
                              /\ \/ j \in stations \/ timer[j] = "sleep"
                                 \/ Handles(j, "disconnected")
      BY <1>7, <2>10 DEF Watches
    <3>2. CASE ApOf[i] = a
      BY <2>7, <2>8, <2>10, <3>2 DEF Watches, Events
    <3>3. CASE ApOf[i] # a
      <4>1. timer'[j] = timer[j]
        BY <2>1, <3>1, <3>3
      <4> QED
        BY <1>1, <2>7, <3>1, <4>1 DEF Watches, Events
    <3> QED
      BY <3>2, <3>3
  <2>11. /\ \A j \in Ifaces : handler'[j].phase # "attributes"
         /\ ApOf[at]' = ApOf[at]
    BY <1>1, <2>1, <2>4
  <2>12. at = Nowhere => ~Handles(i, "connected")
    BY <1>2, <1>5 DEF OnItsWayRight
  <2>13. OnItsWayRight'
    BY <1>1, <1>2, <1>5, <1>7, <2>5, <2>7, <2>9, <2>10, <2>11, <2>12 DEF OnItsWayRight
  <2> QED
    BY <2>2, <2>6, <2>13
<1>10. CASE PublishHome(i)
  <2>1. /\ handler[i].phase = "state" /\ state' = "home"
        /\ UNCHANGED <<queue, timer, owner, late>>
        /\ handler'[i].event = handler[i].event /\ handler'[i].phase = "attributes"
        /\ \A j \in Ifaces : j # i => handler'[j].phase = "idle"
    <3>1. /\ handler[i].phase = "state" /\ state' = "home"
          /\ UNCHANGED <<queue, timer, owner, late>>
          /\ handler' = [handler EXCEPT ![i].phase = "attributes"]
      BY <1>10 DEF PublishHome
    <3> QED
      BY <1>2, <1>4, <3>1 DEF PresenceTypes
  <2>2. queue[i] = <<>> /\ handler[i].event = "connected"
    BY <1>2, <1>4, <2>1 DEF OneThing, PresenceTypes
  <2>3. Handles(i, "connected") /\ Handles(i, "connected")'
    BY <2>1, <2>2 DEF Handles
  <2>4. at = i /\ at' = i
    BY <1>1, <1>2, <2>3 DEF OnItsWayRight
  <2>5. OneScript'
    BY <1>4, <1>7, <2>1, <2>2, OneScriptStays DEF Resting, OneThing
  <2>6. \A j \in Ifaces : j # i => ~Handles(j, "connected")'
    BY <1>4, <1>5, <2>1, OneEvent DEF Handles
  <2>7. \A j \in Ifaces : timer'[j] \in {"none", "sleep"}
    BY <1>7, <2>1
  <2>8. OnItsWayRight'
    BY <1>5, <2>1, <2>3, <2>4, <2>6, <2>7 DEF OnItsWayRight
  <2> QED
    BY <1>2, <2>1, <2>5, <2>8
<1>11. CASE PublishOwner(i)
  <2>1. /\ handler[i].phase = "attributes" /\ owner' = ApOf[i]
        /\ UNCHANGED <<queue, timer, state, late>>
        /\ \A j \in Ifaces : handler'[j].phase = "idle"
    <3>1. /\ handler[i].phase = "attributes" /\ owner' = ApOf[i]
          /\ UNCHANGED <<queue, timer, state, late>>
          /\ handler' = [handler EXCEPT ![i] = Idle] /\ Idle.phase = "idle"
      BY <1>11 DEF PublishOwner, Idle
    <3> QED
      BY <1>2, <1>4, <3>1 DEF PresenceTypes
  <2>2. queue[i] = <<>> /\ handler[i].event = "connected"
    BY <1>2, <1>4, <2>1 DEF OneThing, PresenceTypes
  <2>3. at = i /\ at' = i /\ state = "home"
    BY <1>1, <1>2, <2>1, <2>2 DEF OnItsWayRight, Handles
  <2>4. OneScript'
    BY <1>4, <1>7, <2>1, <2>2 DEF OneScript, Resting
  <2>5. SaysHome(ApOf[i])'
    BY <2>1, <2>3 DEF SaysHome
  <2>6. \A j \in Ifaces : ~Handles(j, "connected")' /\ timer'[j] \in {"none", "sleep"}
    BY <1>4, <1>7, <2>1, <2>2 DEF Handles
  <2>7. ApOf[at]' = ApOf[i]
    BY <2>3
  <2>8. OnItsWayRight'
    BY <1>5, <2>3, <2>5, <2>6, <2>7 DEF OnItsWayRight, SaysHome
  <2> QED
    BY <1>2, <2>1, <2>4, <2>8
<1>12. CASE StartGrace(i)
  <2>1. /\ handler[i].phase = "start" /\ UNCHANGED <<queue, state, owner, late>>
        /\ \A j \in Ifaces : handler'[j].phase = "idle"
        /\ timer'[i] = "sleep" /\ \A j \in Ifaces : j # i => timer'[j] = timer[j]
    <3>1. /\ handler[i].phase = "start" /\ UNCHANGED <<queue, state, owner, late>>
          /\ handler' = [handler EXCEPT ![i] = Idle] /\ Idle.phase = "idle"
          /\ timer' = [timer EXCEPT ![i] = "sleep"]
      BY <1>12 DEF StartGrace, broker, Idle
    <3> QED
      BY <1>2, <1>4, <3>1 DEF PresenceTypes
  <2>2. queue[i] = <<>> /\ handler[i].event = "disconnected"
    BY <1>2, <1>4, <2>1 DEF OneThing, PresenceTypes
  <2>3. OneScript'
    BY <1>4, <1>7, <2>1, <2>2 DEF OneScript, Resting
  <2>4. /\ \A j \in Ifaces : ~Handles(j, "connected")' /\ timer'[j] \in {"none", "sleep"}
        /\ \A j \in Ifaces : ~Handles(j, "connected")
    BY <1>4, <1>5, <1>7, <2>1, <2>2 DEF Handles
  <2>5. ASSUME NEW a, Watches(a) PROVE Watches(a)'
    <3>1. PICK j \in Ifaces : /\ ApOf[j] = a
                              /\ \/ j \in stations \/ timer[j] = "sleep"
                                 \/ Handles(j, "disconnected")
      BY <1>7, <2>5 DEF Watches
    <3>2. timer'[j] = "sleep" \/ j \in stations'
      BY <1>1, <1>4, <1>5, <2>1, <3>1
    <3> QED
      BY <3>1, <3>2 DEF Watches
  <2>6. /\ \A a : SaysHome(a)' <=> SaysHome(a)
        /\ SaysAway' <=> SaysAway
    BY <2>1 DEF SaysHome, SaysAway
  <2>7. ApOf[at]' = ApOf[at]
    BY <1>1
  <2>8. OnItsWayRight'
    BY <1>1, <1>2, <1>5, <1>7, <2>4, <2>5, <2>6, <2>7 DEF OnItsWayRight
  <2> QED
    BY <1>2, <2>1, <2>3, <2>8
<1> QED
  BY <1>8, <1>9, <1>10, <1>11, <1>12

\* The timer of a radio.
LEMMA TimerKeepsRight ==
    ASSUME PresenceIInv, NEW i \in Ifaces, prompt', PresenceTypes',
           \/ GraceOver(i) \/ SeenAnywhere(i) \/ OwnedByOtherAp(i)
           \/ PublishNotHome(i) \/ PublishNobody(i)
    PROVE  late' = {} /\ OneScript' /\ OnItsWayRight'
<1> USE PresenceConstants
<1>1. UNCHANGED <<at, stations, moves, queue, handler, late>>
  BY DEF GraceOver, SeenAnywhere, OwnedByOtherAp, PublishNotHome, PublishNobody,
         device, broker
<1>2. prompt /\ late = {} /\ OneScript /\ OnItsWayRight /\ PresenceTypes
  BY DEF PresenceIInv, GraceOver, SeenAnywhere, OwnedByOtherAp, PublishNotHome,
         PublishNobody, device, Begins
<1>3. /\ \A j \in Ifaces : /\ queue[j] = <<>> /\ handler[j].phase = "idle"
                           /\ \A e \in Events : ~Handles(j, e)
      /\ \A j \in Ifaces : j # i => timer[j] \in {"none", "sleep"}
  <2>1. CASE GraceOver(i)
    BY <2>1, NothingGoesOn DEF GraceOver
  <2>2. CASE ~GraceOver(i)
    <3>1. ~Resting(i) /\ timer[i] \notin {"none", "sleep"}
      BY <2>2 DEF Resting, SeenAnywhere, OwnedByOtherAp, PublishNotHome, PublishNobody
    <3>2. /\ OneThing(i)
          /\ \A j \in Ifaces : j # i =>
                /\ queue[j] = <<>> /\ handler[j].phase = "idle"
                /\ timer[j] \in {"none", "sleep"}
                /\ \A e \in Events : ~Handles(j, e)
      BY <1>2, <3>1, OneActs
    <3>3. /\ queue[i] = <<>> /\ handler[i].phase = "idle"
          /\ \A e \in Events : ~Handles(i, e)
      BY <3>1, <3>2, OneEvent DEF OneThing, Handles
    <3> QED
      BY <3>2, <3>3
  <2> QED
    BY <2>1, <2>2
<1>4. /\ "connected" \in Events /\ "disconnected" \in Events
      /\ Nowhere \notin Ifaces /\ Nobody \notin APs
      /\ at \in Ifaces \cup {Nowhere} /\ (at # Nowhere => at \in stations)
      /\ ApOf \in [Ifaces -> APs] /\ stations \subseteq Ifaces
      /\ owner \in APs \cup {Nobody} /\ timer[i] \in TimerPhases
  BY <1>2 DEF Events, PresenceTypes
<1>5. \A j \in Ifaces : \A e \in Events : ~Handles(j, e) /\ ~Handles(j, e)'
  BY <1>1, <1>3 DEF Handles
<1>6. PICK t \in TimerPhases : timer'[i] = t /\ \A j \in Ifaces : j # i => timer'[j] = timer[j]
  <2>1. PICK t \in TimerPhases : timer' = [timer EXCEPT ![i] = t]
    BY DEF GraceOver, SeenAnywhere, OwnedByOtherAp, PublishNotHome, PublishNobody,
           TimerPhases
  <2> QED
    BY <1>2, <2>1 DEF PresenceTypes
<1>7. OneScript'
  BY <1>1, <1>3, <1>6, OneScriptStays DEF Resting, OneThing
<1>8. \A j \in Ifaces : timer'[j] \notin {"none", "sleep"} => j = i
  BY <1>3, <1>6
<1>9. /\ at # Nowhere => SaysHome(ApOf[at])
      /\ at = Nowhere /\ timer[i] # "attributes" =>
            SaysAway \/ \E a \in APs : SaysHome(a) /\ Watches(a)
      /\ timer[i] = "owner" => stations \cap Radios(ApOf[i]) = {}
      /\ timer[i] \in {"state", "attributes"} => at = Nowhere /\ owner \in {ApOf[i], Nobody}
      /\ timer[i] = "attributes" => state = "not_home"
  BY <1>2, <1>3, <1>4, <1>5 DEF OnItsWayRight
<1>10. ASSUME /\ at # Nowhere => SaysHome(ApOf[at])'
              /\ at = Nowhere /\ timer'[i] # "attributes" =>
                    SaysAway' \/ \E a \in APs : SaysHome(a)' /\ Watches(a)'
              /\ timer'[i] = "owner" => stations \cap Radios(ApOf[i]) = {}
              /\ timer'[i] \in {"state", "attributes"} =>
                    at = Nowhere /\ owner' \in {ApOf[i], Nobody}
              /\ timer'[i] = "attributes" => state' = "not_home"
       PROVE  OnItsWayRight'
  BY <1>1, <1>4, <1>5, <1>8, <1>10 DEF OnItsWayRight, SaysHome, Radios
<1>11. ASSUME UNCHANGED <<state, owner>>
       PROVE  /\ SaysAway' <=> SaysAway
              /\ \A a : SaysHome(a)' <=> SaysHome(a)
              /\ SaysHome(ApOf[at])' <=> SaysHome(ApOf[at])
  BY <1>1, <1>11 DEF SaysAway, SaysHome
<1>12. ASSUME NEW a, Watches(a),
              \/ ApOf[i] # a
              \/ timer'[i] \in {"sleep", "seen", "owner", "state"}
              \/ stations \cap Radios(a) # {}
       PROVE  Watches(a)'
  <2>1. PICK j \in Ifaces : /\ ApOf[j] = a
                            /\ \/ j \in stations
                               \/ timer[j] \in {"sleep", "seen", "owner", "state"}
    BY <1>4, <1>5, <1>12 DEF Watches
  <2>2. CASE ApOf[i] # a
    <3>1. timer'[j] = timer[j]
      BY <1>6, <2>1, <2>2
    <3> QED
      BY <1>1, <2>1, <3>1 DEF Watches
  <2>3. CASE ApOf[i] = a /\ timer'[i] \in {"sleep", "seen", "owner", "state"}
    BY <2>3 DEF Watches
  <2>4. CASE stations \cap Radios(a) # {}
    BY <1>1, <2>4 DEF Watches, Radios
  <2> QED
    BY <1>12, <2>2, <2>3, <2>4
<1>13. CASE GraceOver(i)
  <2>1. timer'[i] = "seen" /\ UNCHANGED <<state, owner>> /\ timer[i] = "sleep"
    BY <1>2, <1>13 DEF GraceOver, PresenceTypes, broker
  <2>2. OnItsWayRight'
    BY <1>9, <1>10, <1>11, <1>12, <2>1
  <2> QED
    BY <1>1, <1>2, <1>7, <2>2
<1>14. CASE SeenAnywhere(i)
  <2>1. /\ timer[i] = "seen" /\ UNCHANGED <<state, owner>>
        /\ timer'[i] = IF stations \cap Radios(ApOf[i]) # {} THEN "none" ELSE "owner"
    BY <1>2, <1>14 DEF SeenAnywhere, PresenceTypes, broker
  <2>2. \A a : Watches(a) => Watches(a)'
    BY <1>12, <2>1
  <2>3. OnItsWayRight'
    BY <1>9, <1>10, <1>11, <2>1, <2>2
  <2> QED
    BY <1>1, <1>2, <1>7, <2>3
<1>15. CASE OwnedByOtherAp(i)
  <2>1. /\ timer[i] = "owner" /\ UNCHANGED <<state, owner>>
        /\ timer'[i] = IF owner \in {ApOf[i], Nobody} THEN "state" ELSE "none"
    BY <1>2, <1>15 DEF OwnedByOtherAp, PresenceTypes, broker
  <2>2. at # Nowhere => owner \notin {ApOf[i], Nobody}
    <3> SUFFICES ASSUME at # Nowhere PROVE owner \notin {ApOf[i], Nobody}
      OBVIOUS
    <3>1. owner = ApOf[at] /\ at \in stations /\ at \in Ifaces
      BY <1>4, <1>9 DEF SaysHome
    <3>2. at \notin Radios(ApOf[i])
      BY <1>9, <2>1, <3>1
    <3> QED
      BY <1>4, <3>1, <3>2 DEF Radios
  <2>3. \A a \in APs : SaysHome(a) /\ Watches(a) => Watches(a)'
    <3> SUFFICES ASSUME NEW a \in APs, SaysHome(a), Watches(a) PROVE Watches(a)'
      OBVIOUS
    <3>1. owner = a
      BY DEF SaysHome
    <3>2. ApOf[i] # a \/ timer'[i] = "state"
      BY <2>1, <3>1
    <3> QED
      BY <1>12, <3>2
  <2>4. OnItsWayRight'
    BY <1>9, <1>10, <1>11, <2>1, <2>2, <2>3
  <2> QED
    BY <1>1, <1>2, <1>7, <2>4
<1>16. CASE PublishNotHome(i)
  <2>1. timer[i] = "state" /\ timer'[i] = "attributes" /\ state' = "not_home" /\ owner' = owner
    BY <1>2, <1>16 DEF PublishNotHome, PresenceTypes
  <2>2. OnItsWayRight'
    BY <1>9, <1>10, <2>1
  <2> QED
    BY <1>1, <1>2, <1>7, <2>2
<1>17. CASE PublishNobody(i)
  <2>1. timer[i] = "attributes" /\ timer'[i] = "none" /\ owner' = Nobody /\ state' = state
    BY <1>2, <1>17 DEF PublishNobody, PresenceTypes
  <2>2. at = Nowhere /\ SaysAway'
    BY <1>9, <2>1 DEF SaysAway
  <2>3. OnItsWayRight'
    BY <1>10, <2>1, <2>2
  <2> QED
    BY <1>1, <1>2, <1>7, <2>3
<1> QED
  BY <1>13, <1>14, <1>15, <1>16, <1>17

\* Every step keeps the invariant.
LEMMA PresenceNextIInv == PresenceIInv /\ [Next]_vars => PresenceIInv'
<1> SUFFICES ASSUME PresenceIInv, [Next]_vars PROVE PresenceIInv'
  OBVIOUS
<1>1. PresenceTypes' /\ QueueBounds'
  BY PresenceNextTypes DEF PresenceIInv
<1> SUFFICES ASSUME prompt' PROVE late' = {} /\ OneScript' /\ OnItsWayRight'
  BY <1>1 DEF PresenceIInv
<1>2. CASE UNCHANGED vars
  BY <1>2 DEF vars, device, broker, PresenceIInv, OneScript, Alone, Resting, OneThing,
              OnItsWayRight, Handles, SaysHome, SaysAway, Watches, Radios
<1>3. CASE DeliveredLate
  BY <1>3 DEF DeliveredLate, device, PresenceIInv
<1>4. ASSUME NEW i \in Ifaces, Associates(i) \/ Dropped(i)
      PROVE  late' = {} /\ OneScript' /\ OnItsWayRight'
  BY <1>4, DeviceKeepsRight
<1>5. CASE Leaves
  <2>1. PICK i \in Ifaces : TRUE
    BY <1>5 DEF Leaves, PresenceIInv, PresenceTypes
  <2> QED
    BY <1>5, <2>1, DeviceKeepsRight
<1>6. ASSUME NEW i \in Ifaces,
             \/ EventTaken(i) \/ CancelGrace(i) \/ PublishHome(i) \/ PublishOwner(i)
             \/ StartGrace(i)
      PROVE  late' = {} /\ OneScript' /\ OnItsWayRight'
  BY <1>1, <1>6, ScriptKeepsRight
<1>7. ASSUME NEW i \in Ifaces,
             \/ GraceOver(i) \/ SeenAnywhere(i) \/ OwnedByOtherAp(i)
             \/ PublishNotHome(i) \/ PublishNobody(i)
      PROVE  late' = {} /\ OneScript' /\ OnItsWayRight'
  BY <1>1, <1>7, TimerKeepsRight
<1> QED
  BY <1>2, <1>3, <1>4, <1>5, <1>6, <1>7 DEF Next

\* Once everything has ended nobody watches any more, so that what is retained is not
\* about to be corrected but right.
LEMMA PresenceSettled == PresenceIInv => SettledRight
<1> SUFFICES ASSUME PresenceIInv, Settled
             PROVE  /\ (state = "home") <=> (at # Nowhere)
                    /\ owner = IF at = Nowhere THEN Nobody ELSE ApOf[at]
  BY DEF SettledRight
<1>1. OnItsWayRight /\ PresenceTypes /\ Nowhere \notin Ifaces
  BY PresenceConstants DEF PresenceIInv, Settled
<1>2. \A i \in Ifaces : queue[i] = <<>> /\ handler[i].phase = "idle" /\ timer[i] = "none"
  BY DEF Settled, Working
<1>3. \A i \in Ifaces : \A e \in Events : ~Handles(i, e)
  BY <1>2, OneEvent DEF Handles
<1>4. CASE at = Nowhere
  <2>1. stations = {}
    BY <1>1, <1>4 DEF Settled, PresenceTypes
  <2>2. \A a : ~Watches(a)
    BY <1>2, <1>3, <2>1 DEF Watches, Events
  <2>3. SaysAway
    BY <1>1, <1>2, <1>4, <2>2 DEF OnItsWayRight
  <2> QED
    BY <1>4, <2>3 DEF SaysAway
<1>5. CASE at # Nowhere
  <2>1. SaysHome(ApOf[at])
    BY <1>1, <1>3, <1>5 DEF OnItsWayRight, Events
  <2> QED
    BY <1>5, <2>1 DEF SaysHome
<1> QED
  BY <1>4, <1>5

\* With its bounds the invariant is the type invariant.
LEMMA PresenceTypeOK == PresenceIInv => TypeOK
<1> SUFFICES ASSUME PresenceTypes, QueueBounds PROVE TypeOK
  BY DEF PresenceIInv
<1>1. ASSUME NEW i \in Ifaces PROVE queue[i] \in Seq(Events) /\ Len(queue[i]) <= 2 * MaxMoves
  <2> DEFINE n == Len(queue[i])
             l == Listing(i)
  <2>1. queue[i] \in Seq(Events) /\ n \in Nat /\ l \in {0, 1} /\ n + l <= 2 * moves
        /\ moves \in 0..MaxMoves /\ MaxMoves \in Nat
    BY PresenceConstants DEF PresenceTypes, QueueBounds, Listing
  <2> HIDE DEF n, l
  <2>2. n <= 2 * MaxMoves
    BY <2>1
  <2> QED
    BY <2>1, <2>2 DEF n
<1> QED
  BY <1>1 DEF PresenceTypes, TypeOK, HandlerPhases, TimerPhases
-----------------------------------------------------------------------------
(* The device lists of successive polls.                                   *)

\* What the list of a poll says of the device is in three of its fields; the others
\* matter on the way.
ActiveArp(arp) == arp = "REACHABLE" \/ (arp = "STALE" /\ TrustStaleArp)

\* A wireless device is listed at its radio, and a connected one is listed.
ScanSound(d) ==
    /\ d \in Scans!Devices
    /\ d.connected \/ d.wireless => d.listed
    /\ d.wireless => d.iface = "radio"

\* Where a list begins.
LEMMA ScanBegins ==
    ASSUME NEW a \in Scans!Answers
    PROVE  /\ ScanSound(Scans!FromDhcp(a)) /\ ScanSound(Scans!FromLeases(a))
           /\ ScanSound(Scans!Unlisted)
           /\ Scans!FromDhcp(a).listed <=> a.lease \/ a.static
           /\ Scans!FromLeases(a).listed <=> a.lease
           /\ ~Scans!FromDhcp(a).connected /\ ~Scans!FromLeases(a).connected
           /\ ~Scans!FromDhcp(a).wireless /\ ~Scans!FromLeases(a).wireless
           /\ Scans!FromDhcp(a).neighbor = "none" /\ Scans!FromLeases(a).neighbor = "none"
<1>1. ASSUME NEW b \in Scans!Answers
      PROVE  /\ ScanSound(Scans!FromDhcp(b))
             /\ Scans!FromDhcp(b).listed <=> b.lease \/ b.static
             /\ ~Scans!FromDhcp(b).connected /\ ~Scans!FromDhcp(b).wireless
             /\ Scans!FromDhcp(b).neighbor = "none"
  BY DEF Scans!FromDhcp, Scans!Unlisted, Scans!Devices, Scans!NeighborStates,
         Scans!Answers, ScanSound
<1>2. /\ [a EXCEPT !.static = FALSE] \in Scans!Answers
      /\ [a EXCEPT !.static = FALSE].lease = a.lease
      /\ [a EXCEPT !.static = FALSE].static = FALSE
  BY DEF Scans!Answers
<1>3. ScanSound(Scans!Unlisted)
  BY DEF Scans!Unlisted, Scans!Devices, Scans!NeighborStates, ScanSound
<1> QED
  BY <1>1, <1>2, <1>3 DEF Scans!FromLeases

\* What each source adds to it.
LEMMA ScanAssociates ==
    ASSUME NEW d, ScanSound(d), NEW said
    PROVE  LET e == Scans!Associated(d, said) IN
           /\ ScanSound(e) /\ e.neighbor = d.neighbor
           /\ e.listed <=> d.listed \/ said = "yes"
           /\ e.connected <=> d.connected \/ said = "yes"
           /\ e.wireless <=> d.wireless \/ said = "yes"
BY DEF Scans!Associated, ScanSound, Scans!Devices

\* The neighbour table.
LEMMA ScanNeighbor ==
    ASSUME NEW d, ScanSound(d), NEW arp \in Scans!NeighborStates
    PROVE  LET e == Scans!MergeNeighbor(d, arp) IN
           /\ ScanSound(e)
           /\ d.neighbor = "none" => e.neighbor = arp
           /\ e.listed <=> d.listed \/ arp # "none"
           /\ e.connected <=> d.connected \/ (~d.wireless /\ ActiveArp(arp))
           /\ e.wireless <=> d.wireless
<1>1. arp = "none" => ~ActiveArp(arp)
  BY DEF ActiveArp
<1>2. arp \in Scans!ActiveStates <=> ActiveArp(arp)
  BY ScanConstants DEF Scans!ActiveStates, ActiveArp
<1>3. CASE arp = "none"
  BY <1>1, <1>3 DEF Scans!MergeNeighbor
<1>4. CASE arp # "none"
  BY <1>2, <1>4 DEF Scans!MergeNeighbor, ScanSound, Scans!Devices
<1> QED
  BY <1>3, <1>4

\* /proc/net/arp.
LEMMA ScanArpTable ==
    ASSUME NEW d, ScanSound(d), NEW arp
    PROVE  LET e == Scans!ArpTable(d, arp) IN
           /\ ScanSound(e) /\ e.neighbor = d.neighbor
           /\ e.listed <=> d.listed \/ arp \in {"REACHABLE", "STALE"}
           /\ e.connected <=> d.connected
           /\ e.wireless <=> d.wireless
BY DEF Scans!ArpTable, ScanSound, Scans!Devices

\* The clients of hostapd, over SSH and LuCI.
LEMMA ScanHostapd ==
    ASSUME NEW d, ScanSound(d), NEW said
    PROVE  LET e == Scans!HostapdClients(d, said) IN
           /\ ScanSound(e) /\ e.neighbor = d.neighbor
           /\ e.listed <=> d.listed \/ said = "yes"
           /\ e.connected <=> d.connected \/ (said = "yes" /\ ~d.listed)
           /\ e.wireless <=> d.wireless \/ said = "yes"
BY DEF Scans!HostapdClients, ScanSound, Scans!Devices

\* The forwarding table, which alone can disconnect.
LEMMA ScanFdb ==
    ASSUME NEW d, ScanSound(d), NEW fdb
    PROVE  LET e == Scans!BridgeFdb(d, fdb)
               asked == TrustBridgeFdb /\ d.listed
           IN
           /\ ScanSound(e)
           /\ e.connected <=>
                 IF asked /\ TrustStaleArp /\ fdb = "absent" /\ ~d.wireless
                         /\ d.neighbor = "STALE"
                 THEN FALSE
                 ELSE d.connected \/ (asked /\ fdb = "recent")
<1>1. CASE ~TrustBridgeFdb \/ ~d.listed
  BY <1>1 DEF Scans!BridgeFdb
<1>2. CASE TrustBridgeFdb /\ d.listed
  BY <1>2 DEF Scans!BridgeFdb, ScanSound, Scans!Devices
<1> QED
  BY <1>1, <1>2

\* The previous list knows the device as associated.
Remembered(prev) == prev.wireless /\ prev.connected

\* A radio that no source can be read for keeps it.
LEMMA ScanRestores ==
    ASSUME NEW d, ScanSound(d), NEW a \in Scans!Answers, NEW prev, ScanSound(prev)
    PROVE  /\ Scans!RestoreAll(d, prev)
                = Scans!Associated(d, IF Remembered(prev) THEN "yes" ELSE "no")
           /\ Scans!RestoreRadio(d, a, prev)
                = Scans!Associated(d, IF /\ a.iwinfo = "error" /\ a.hostapd = "error"
                                         /\ Remembered(prev)
                                      THEN "yes" ELSE "no")
<1>1. \A e : Scans!Associated(e, "no") = e
  BY DEF Scans!Associated
<1>2. Scans!RestoreAll(d, prev)
        = Scans!Associated(d, IF Remembered(prev) THEN "yes" ELSE "no")
  BY <1>1 DEF Scans!RestoreAll, Remembered
<1>3. prev.wireless => prev.iface = "radio"
  BY DEF ScanSound
<1>4. PICK said : said = (IF /\ a.iwinfo = "error" /\ a.hostapd = "error"
                              /\ Remembered(prev)
                          THEN "yes" ELSE "no")
  OBVIOUS
<1>5. Scans!RestoreRadio(d, a, prev) = Scans!Associated(d, said)
  BY <1>1, <1>3, <1>4 DEF Scans!RestoreRadio, Remembered
<1> QED
  BY <1>2, <1>4, <1>5

\* What ubus says: the device is at the radio, and it is listed.
UbusRadio(a, prev) ==
    \/ a.iwinfo = "yes" \/ a.hostapd = "yes"
    \/ a.iwinfo = "error" /\ a.hostapd = "error" /\ Remembered(prev)

UbusLists(a, prev) ==
    a.lease \/ a.static \/ UbusRadio(a, prev) \/ a.arp # "none"

\* A list over ubus.
LEMMA UbusScan ==
    ASSUME NEW a \in Scans!Answers, NEW prev, ScanSound(prev)
    PROVE  LET e == Scans!Scan(a, prev)
               asked == TrustBridgeFdb /\ UbusLists(a, prev)
           IN
           /\ ScanSound(e)
           /\ e.connected <=>
                 IF /\ asked /\ TrustStaleArp /\ a.fdb = "absent"
                    /\ ~UbusRadio(a, prev) /\ a.arp = "STALE"
                 THEN FALSE
                 ELSE \/ UbusRadio(a, prev) \/ ActiveArp(a.arp)
                      \/ asked /\ a.fdb = "recent"
<1> DEFINE dhcp == Scans!FromDhcp(a)
           iwinfo == Scans!Associated(dhcp, a.iwinfo)
           arp == Scans!MergeNeighbor(iwinfo, a.arp)
           hostapd == Scans!Associated(arp, a.hostapd)
           kept == IF a.iwinfo = "error" /\ a.hostapd = "error" /\ Remembered(prev)
                   THEN "yes" ELSE "no"
           restored == Scans!Associated(hostapd, kept)
           e == Scans!BridgeFdb(restored, a.fdb)
<1>1. /\ ScanSound(dhcp) /\ dhcp.neighbor = "none"
      /\ dhcp.listed <=> a.lease \/ a.static
      /\ ~dhcp.connected /\ ~dhcp.wireless
  BY ScanBegins
<1>2. a.arp \in Scans!NeighborStates
  BY DEF Scans!Answers
<1> HIDE DEF dhcp
<1>3. /\ ScanSound(iwinfo) /\ iwinfo.neighbor = "none"
      /\ iwinfo.listed <=> dhcp.listed \/ a.iwinfo = "yes"
      /\ iwinfo.connected <=> a.iwinfo = "yes"
      /\ iwinfo.wireless <=> a.iwinfo = "yes"
  BY <1>1, ScanAssociates
<1> HIDE DEF iwinfo
<1>4. /\ ScanSound(arp) /\ arp.neighbor = a.arp
      /\ arp.listed <=> iwinfo.listed \/ a.arp # "none"
      /\ arp.connected <=> a.iwinfo = "yes" \/ ActiveArp(a.arp)
      /\ arp.wireless <=> a.iwinfo = "yes"
  BY <1>2, <1>3, ScanNeighbor
<1> HIDE DEF arp
<1>5. /\ ScanSound(hostapd) /\ hostapd.neighbor = a.arp
      /\ hostapd.listed <=> arp.listed \/ a.hostapd = "yes"
      /\ hostapd.connected <=> arp.connected \/ a.hostapd = "yes"
      /\ hostapd.wireless <=> arp.wireless \/ a.hostapd = "yes"
  BY <1>4, ScanAssociates
<1> HIDE DEF hostapd
<1>6. /\ ScanSound(restored) /\ restored.neighbor = a.arp
      /\ restored.listed <=> hostapd.listed \/ kept = "yes"
      /\ restored.connected <=> hostapd.connected \/ kept = "yes"
      /\ restored.wireless <=> hostapd.wireless \/ kept = "yes"
  BY <1>5, ScanAssociates
<1>7. kept = "yes" <=> a.iwinfo = "error" /\ a.hostapd = "error" /\ Remembered(prev)
  OBVIOUS
<1>8. Scans!Scan(a, prev) = e
  BY <1>5, ScanRestores DEF Scans!Scan, dhcp, iwinfo, arp, hostapd
<1> HIDE DEF restored, kept
<1>9. /\ restored.wireless <=> UbusRadio(a, prev)
      /\ restored.listed <=> UbusLists(a, prev)
      /\ restored.connected <=> UbusRadio(a, prev) \/ ActiveArp(a.arp)
  BY <1>1, <1>3, <1>4, <1>5, <1>6, <1>7 DEF UbusRadio, UbusLists
<1> QED
  BY <1>6, <1>8, <1>9, ScanFdb

\* Over SSH hostapd is asked only if iwinfo lists nobody.
SshIwinfo(a, prev) ==
    a.iwinfo = "yes" \/ (a.iwinfo = "error" /\ Remembered(prev))

SshHostapd(a, prev, o) == ~o /\ ~SshIwinfo(a, prev) /\ a.hostapd = "yes"

SshLists(a, prev) == a.lease \/ a.arp # "none" \/ SshIwinfo(a, prev)

\* The forwarding table over SSH and LuCI, where it disconnects nobody.
LEMMA ScanPorts ==
    ASSUME NEW d, ScanSound(d), NEW fdb
    PROVE  LET e == Scans!BridgePorts(d, fdb) IN
           /\ ScanSound(e)
           /\ e.connected <=>
                 d.connected \/ (TrustBridgeFdb /\ d.listed /\ fdb = "recent")
<1>1. PICK f : f = (IF fdb = "absent" THEN "unsupported" ELSE fdb)
  OBVIOUS
<1>2. f # "absent" /\ (f = "recent" <=> fdb = "recent")
  BY <1>1
<1>3. Scans!BridgePorts(d, fdb) = Scans!BridgeFdb(d, f)
  BY <1>1 DEF Scans!BridgePorts
<1> QED
  BY <1>2, <1>3, ScanFdb

\* A list over SSH.
LEMMA SshScan ==
    ASSUME NEW a \in Scans!Answers, NEW prev, ScanSound(prev), NEW o \in BOOLEAN
    PROVE  LET e == Scans!ScanSsh(a, prev, o) IN
           /\ ScanSound(e)
           /\ e.connected <=>
                 \/ ActiveArp(a.arp) \/ SshIwinfo(a, prev)
                 \/ SshHostapd(a, prev, o) /\ ~SshLists(a, prev)
                 \/ /\ TrustBridgeFdb /\ a.fdb = "recent"
                    /\ SshLists(a, prev) \/ SshHostapd(a, prev, o)
<1> DEFINE leases == Scans!FromLeases(a)
           neighbor == Scans!MergeNeighbor(leases, a.arp)
           kept == IF a.iwinfo = "error"
                   THEN IF Remembered(prev) THEN "yes" ELSE "no" ELSE a.iwinfo
           iwinfo == Scans!Associated(neighbor, kept)
           told == IF o \/ iwinfo.wireless THEN "no" ELSE a.hostapd
           hostapd == Scans!HostapdClients(iwinfo, told)
           e == Scans!BridgePorts(hostapd, a.fdb)
<1>1. /\ ScanSound(leases) /\ leases.neighbor = "none"
      /\ leases.listed <=> a.lease
      /\ ~leases.connected /\ ~leases.wireless
  BY ScanBegins
<1>2. a.arp \in Scans!NeighborStates
  BY DEF Scans!Answers
<1> HIDE DEF leases
<1>3. /\ ScanSound(neighbor)
      /\ neighbor.listed <=> a.lease \/ a.arp # "none"
      /\ neighbor.connected <=> ActiveArp(a.arp)
      /\ ~neighbor.wireless
  BY <1>1, <1>2, ScanNeighbor
<1> HIDE DEF neighbor
<1>4. kept = "yes" <=> SshIwinfo(a, prev)
  BY DEF SshIwinfo
<1>5. /\ ScanSound(iwinfo)
      /\ iwinfo.listed <=> neighbor.listed \/ kept = "yes"
      /\ iwinfo.connected <=> neighbor.connected \/ kept = "yes"
      /\ iwinfo.wireless <=> kept = "yes"
  BY <1>3, ScanAssociates
<1>6. iwinfo = IF a.iwinfo = "error" THEN Scans!RestoreAll(neighbor, prev)
               ELSE Scans!Associated(neighbor, a.iwinfo)
  BY <1>3, ScanRestores
<1> HIDE DEF kept, iwinfo
<1>7. told = "yes" <=> SshHostapd(a, prev, o)
  BY <1>4, <1>5 DEF SshHostapd
<1>8. /\ ScanSound(hostapd)
      /\ hostapd.listed <=> iwinfo.listed \/ told = "yes"
      /\ hostapd.connected <=> iwinfo.connected \/ (told = "yes" /\ ~iwinfo.listed)
  BY <1>5, ScanHostapd
<1>9. hostapd = IF o \/ iwinfo.wireless THEN iwinfo
                ELSE Scans!HostapdClients(iwinfo, a.hostapd)
  BY DEF Scans!HostapdClients
<1> HIDE DEF told, hostapd
<1>10. /\ ScanSound(e)
       /\ e.connected <=>
             \/ hostapd.connected
             \/ TrustBridgeFdb /\ hostapd.listed /\ a.fdb = "recent"
  BY <1>8, ScanPorts
<1>11. Scans!ScanSsh(a, prev, o) = e
  BY <1>6, <1>9 DEF Scans!ScanSsh, leases, neighbor
<1> HIDE DEF e
<1>12. /\ iwinfo.listed <=> SshLists(a, prev)
       /\ iwinfo.connected <=> ActiveArp(a.arp) \/ SshIwinfo(a, prev)
  BY <1>3, <1>4, <1>5 DEF SshLists
<1> QED
  BY <1>7, <1>8, <1>10, <1>11, <1>12

\* Over LuCI the neighbour table comes last.
LuciLists(a) == a.lease \/ a.arp \in {"REACHABLE", "STALE"} \/ a.iwinfo = "yes"

LuciKept(a, prev) == a.hostapd = "error" /\ Remembered(prev)

\* A list over LuCI.
LEMMA LuciScan ==
    ASSUME NEW a \in Scans!Answers, NEW prev, ScanSound(prev)
    PROVE  LET e == Scans!ScanLuci(a, prev) IN
           /\ ScanSound(e)
           /\ e.connected <=>
                 \/ a.iwinfo = "yes" \/ LuciKept(a, prev)
                 \/ a.hostapd = "yes" /\ ~LuciLists(a)
                 \/ a.hostapd # "yes" /\ ActiveArp(a.arp)
                 \/ /\ TrustBridgeFdb /\ a.fdb = "recent"
                    /\ \/ LuciLists(a) \/ LuciKept(a, prev)
                       \/ a.hostapd = "yes" \/ a.arp # "none"
<1> DEFINE leases == Scans!FromLeases(a)
           table == Scans!ArpTable(leases, a.arp)
           iwinfo == Scans!Associated(table, a.iwinfo)
           kept == Scans!Associated(iwinfo, IF Remembered(prev) THEN "yes" ELSE "no")
           hostapd == IF a.hostapd = "error" THEN kept
                      ELSE Scans!HostapdClients(iwinfo, a.hostapd)
           neighbor == Scans!MergeNeighbor(hostapd, a.arp)
           e == Scans!BridgePorts(neighbor, a.fdb)
<1>1. /\ ScanSound(leases)
      /\ leases.listed <=> a.lease
      /\ ~leases.connected /\ ~leases.wireless
  BY ScanBegins
<1>2. a.arp \in Scans!NeighborStates
  BY DEF Scans!Answers
<1> HIDE DEF leases
<1>3. /\ ScanSound(table)
      /\ table.listed <=> a.lease \/ a.arp \in {"REACHABLE", "STALE"}
      /\ ~table.connected /\ ~table.wireless
  BY <1>1, ScanArpTable
<1> HIDE DEF table
<1>4. /\ ScanSound(iwinfo)
      /\ iwinfo.listed <=> LuciLists(a)
      /\ iwinfo.connected <=> a.iwinfo = "yes"
      /\ iwinfo.wireless <=> a.iwinfo = "yes"
  BY <1>3, ScanAssociates DEF LuciLists
<1> HIDE DEF iwinfo
<1>5. /\ ScanSound(kept)
      /\ kept.listed <=> LuciLists(a) \/ Remembered(prev)
      /\ kept.connected <=> a.iwinfo = "yes" \/ Remembered(prev)
      /\ kept.wireless <=> a.iwinfo = "yes" \/ Remembered(prev)
  <2>1. PICK said : said = (IF Remembered(prev) THEN "yes" ELSE "no")
    OBVIOUS
  <2>2. said = "yes" <=> Remembered(prev)
    BY <2>1
  <2>3. kept = Scans!Associated(iwinfo, said)
    BY <2>1
  <2> HIDE DEF kept
  <2> QED
    BY <1>4, <2>2, <2>3, ScanAssociates
<1>6. kept = Scans!RestoreAll(iwinfo, prev)
  BY <1>4, ScanRestores
<1> HIDE DEF kept
<1>7. /\ ScanSound(hostapd)
      /\ hostapd.listed <=>
            LuciLists(a) \/ LuciKept(a, prev) \/ a.hostapd = "yes"
      /\ hostapd.connected <=>
            \/ a.iwinfo = "yes" \/ LuciKept(a, prev)
            \/ a.hostapd = "yes" /\ ~LuciLists(a)
      /\ hostapd.wireless <=>
            a.iwinfo = "yes" \/ LuciKept(a, prev) \/ a.hostapd = "yes"
  <2>1. CASE a.hostapd = "error"
    BY <1>5, <2>1 DEF LuciKept
  <2>2. CASE a.hostapd # "error"
    BY <1>4, <2>2, ScanHostapd DEF LuciKept
  <2> QED
    BY <2>1, <2>2
<1>8. /\ Scans!ScanLuci(a, prev) = e
  BY <1>6 DEF Scans!ScanLuci, leases, table, iwinfo
<1> HIDE DEF hostapd
<1>9. /\ ScanSound(neighbor)
      /\ neighbor.listed <=> hostapd.listed \/ a.arp # "none"
      /\ neighbor.connected <=>
            hostapd.connected \/ (~hostapd.wireless /\ ActiveArp(a.arp))
  BY <1>2, <1>7, ScanNeighbor
<1> HIDE DEF neighbor
<1>10. /\ ScanSound(e)
       /\ e.connected <=>
             \/ neighbor.connected
             \/ TrustBridgeFdb /\ neighbor.listed /\ a.fdb = "recent"
  BY <1>9, ScanPorts
<1> HIDE DEF e
<1> QED
  BY <1>7, <1>8, <1>9, <1>10

\* The second answer has every sign of the device that the first has.
SaysMore(a, b) ==
    /\ b \in Scans!Answers
    /\ a.lease => b.lease
    /\ a.static => b.static
    /\ a.iwinfo = b.iwinfo \/ (a.iwinfo = "no" /\ b.iwinfo = "yes")
    /\ a.hostapd = b.hostapd \/ (a.hostapd = "no" /\ b.hostapd = "yes")
    /\ a.arp # "none" => b.arp # "none"
    /\ a.arp = "STALE" => b.arp \in {"STALE", "REACHABLE"}
    /\ a.arp = "REACHABLE" => b.arp = "REACHABLE"
    /\ a.fdb = "recent" => b.fdb = "recent"
    /\ b.fdb = "absent" => a.fdb = "absent"

\* One more sign of the device does not disconnect it.
LEMMA MoreEvidence ==
    ASSUME NEW a \in Scans!Answers, NEW prev, ScanSound(prev), NEW o \in BOOLEAN,
           NEW b \in Scans!Stronger(a), Scans!PollsConstants, transport \in Transports,
           Scans!ScanOver(transport, a, o, prev).connected, ~Scans!HostapdAlone(b)
    PROVE  Scans!ScanOver(transport, b, o, prev).connected
<1>1. SaysMore(a, b)
  <2>1. CASE b \in {[a EXCEPT !.lease = TRUE], [a EXCEPT !.static = TRUE]}
    BY <2>1 DEF SaysMore, Scans!Answers, Scans!NeighborStates
  <2>2. CASE a.iwinfo = "no" /\ b = [a EXCEPT !.iwinfo = "yes"]
    BY <2>2 DEF SaysMore, Scans!Answers, Scans!NeighborStates
  <2>3. CASE a.hostapd = "no" /\ b = [a EXCEPT !.hostapd = "yes"]
    BY <2>3 DEF SaysMore, Scans!Answers, Scans!NeighborStates
  <2>4. ASSUME NEW n \in (CASE a.arp = "none" -> {"FAILED"}
                           [] a.arp = "FAILED" -> {"STALE"}
                           [] OTHER -> {"REACHABLE"}),
               b = [a EXCEPT !.arp = n]
        PROVE  SaysMore(a, b)
    <3>1. \/ a.arp = "none" /\ n = "FAILED"
          \/ a.arp = "FAILED" /\ n = "STALE"
          \/ a.arp \notin {"none", "FAILED"} /\ n = "REACHABLE"
      BY <2>4
    <3> QED
      BY <2>4, <3>1 DEF SaysMore, Scans!Answers, Scans!NeighborStates
  <2>5. ASSUME NEW f \in (CASE a.fdb = "absent" -> {"old"}
                           [] a.fdb = "old" -> {"recent"}
                           [] OTHER -> {}),
               b = [a EXCEPT !.fdb = f]
        PROVE  SaysMore(a, b)
    <3>1. \/ a.fdb = "absent" /\ f = "old"
          \/ a.fdb = "old" /\ f = "recent"
      BY <2>5
    <3> QED
      BY <2>5, <3>1 DEF SaysMore, Scans!Answers, Scans!NeighborStates
  <2>6. b \in (IF a.iwinfo = "no" THEN {[a EXCEPT !.iwinfo = "yes"]} ELSE {})
           => a.iwinfo = "no" /\ b = [a EXCEPT !.iwinfo = "yes"]
    OBVIOUS
  <2>7. b \in (IF a.hostapd = "no" THEN {[a EXCEPT !.hostapd = "yes"]} ELSE {})
           => a.hostapd = "no" /\ b = [a EXCEPT !.hostapd = "yes"]
    OBVIOUS
  <2> QED
    BY <2>1, <2>2, <2>3, <2>4, <2>5, <2>6, <2>7, Zenon DEF Scans!Stronger
<1> USE DEF SaysMore
<1>2. CASE transport = "ubus"
  <2>1. /\ Scans!ScanOver(transport, a, o, prev) = Scans!Scan(a, prev)
        /\ Scans!ScanOver(transport, b, o, prev) = Scans!Scan(b, prev)
    BY <1>2 DEF Scans!ScanOver
  <2>2. UbusRadio(a, prev) => UbusRadio(b, prev)
    BY <1>1 DEF UbusRadio
  <2>3. UbusLists(a, prev) => UbusLists(b, prev)
    BY <1>1, <2>2 DEF UbusLists
  <2>4. ActiveArp(a.arp) => ActiveArp(b.arp) /\ UbusLists(a, prev)
    BY <1>1 DEF ActiveArp, UbusLists
  <2>5. UbusRadio(a, prev) \/ ActiveArp(a.arp)
           \/ (TrustBridgeFdb /\ UbusLists(a, prev) /\ a.fdb = "recent")
    BY <2>1, UbusScan
  <2>7. /\ b.fdb = "absent" => a.fdb = "absent"
        /\ ActiveArp(a.arp) /\ b.arp = "STALE" => a.arp = "STALE"
    BY <1>1 DEF ActiveArp
  <2>8. ASSUME TrustBridgeFdb, UbusLists(b, prev), TrustStaleArp, b.fdb = "absent",
               ~UbusRadio(b, prev), b.arp = "STALE"
        PROVE  FALSE
    <3>1. a.fdb = "absent" /\ ActiveArp(a.arp) /\ a.arp = "STALE" /\ ~UbusRadio(a, prev)
      BY <2>2, <2>5, <2>7, <2>8
    <3> QED
      BY <2>1, <2>4, <2>8, <3>1, UbusScan
  <2>9. UbusRadio(b, prev) \/ ActiveArp(b.arp)
           \/ (TrustBridgeFdb /\ UbusLists(b, prev) /\ b.fdb = "recent")
    BY <1>1, <2>2, <2>3, <2>4, <2>5
  <2> QED
    BY <1>1, <2>1, <2>8, <2>9, UbusScan
<1>3. CASE transport = "ssh"
  <2>1. /\ Scans!ScanOver(transport, a, o, prev) = Scans!ScanSsh(a, prev, o)
        /\ Scans!ScanOver(transport, b, o, prev) = Scans!ScanSsh(b, prev, o)
    BY <1>3 DEF Scans!ScanOver
  <2>2. b.hostapd # "yes" \/ b.iwinfo = "yes"
    BY <1>3 DEF Scans!HostapdAlone
  <2>3. ActiveArp(a.arp) => ActiveArp(b.arp)
    BY <1>1 DEF ActiveArp
  <2>4. SshIwinfo(a, prev) => SshIwinfo(b, prev)
    BY <1>1 DEF SshIwinfo
  <2>5. SshLists(a, prev) => SshLists(b, prev)
    BY <1>1, <2>4 DEF SshLists
  <2>6. SshHostapd(a, prev, o) => SshIwinfo(b, prev)
    BY <1>1, <2>2 DEF SshHostapd, SshIwinfo
  <2>7. SshIwinfo(b, prev) => SshLists(b, prev)
    BY DEF SshLists
  <2> QED
    BY <1>1, <2>1, <2>3, <2>4, <2>5, <2>6, <2>7, SshScan
<1>4. CASE transport = "luci"
  <2>1. /\ Scans!ScanOver(transport, a, o, prev) = Scans!ScanLuci(a, prev)
        /\ Scans!ScanOver(transport, b, o, prev) = Scans!ScanLuci(b, prev)
    BY <1>4 DEF Scans!ScanOver
  <2>2. b.hostapd # "yes" \/ b.iwinfo = "yes"
    BY <1>4 DEF Scans!HostapdAlone
  <2>3. ActiveArp(a.arp) => ActiveArp(b.arp)
    BY <1>1 DEF ActiveArp
  <2>4. LuciKept(a, prev) => LuciKept(b, prev)
    BY <1>1 DEF LuciKept
  <2>5. LuciLists(a) => LuciLists(b)
    BY <1>1 DEF LuciLists
  <2>6. a.hostapd = "yes" => b.iwinfo = "yes"
    BY <1>1, <2>2
  <2>7. b.iwinfo = "yes" => LuciLists(b)
    BY DEF LuciLists
  <2> QED
    BY <1>1, <2>1, <2>2, <2>3, <2>4, <2>5, <2>6, <2>7, LuciScan
<1> QED
  BY <1>2, <1>3, <1>4 DEF Scans!PollsConstants

\* The type of a list, and the list is sound.
ScanTypes ==
    /\ transport \in Transports
    /\ answer \in Scans!Answers /\ others \in BOOLEAN
    /\ ScanSound(listed)

\* A list is sound over every transport.
LEMMA ScanIsSound ==
    ASSUME NEW a \in Scans!Answers, NEW prev, ScanSound(prev), NEW o \in BOOLEAN,
           Scans!PollsConstants, transport \in Transports
    PROVE  ScanSound(Scans!ScanOver(transport, a, o, prev))
<1>1. CASE transport = "ubus"
  BY <1>1, UbusScan DEF Scans!ScanOver
<1>2. CASE transport = "ssh"
  BY <1>2, SshScan DEF Scans!ScanOver
<1>3. CASE transport = "luci"
  BY <1>3, LuciScan DEF Scans!ScanOver
<1> QED
  BY <1>1, <1>2, <1>3 DEF Scans!PollsConstants

\* The first list.
LEMMA ScanInitTypes ==
    ASSUME Scans!PollsConstants
    PROVE  Scans!Init => ScanTypes
<1> SUFFICES ASSUME Scans!Init PROVE ScanTypes
  OBVIOUS
<1>1. transport \in Transports /\ answer \in Scans!Answers /\ others \in BOOLEAN
  BY DEF Scans!Init, Scans!Asked
<1>2. ScanSound(Scans!Unlisted)
  BY <1>1, ScanBegins
<1> QED
  BY <1>1, <1>2, ScanIsSound DEF ScanTypes, Scans!Init

\* Every further one.
LEMMA ScanNextTypes ==
    ASSUME Scans!PollsConstants
    PROVE  ScanTypes /\ [Scans!Next]_scanVars => ScanTypes'
<1> SUFFICES ASSUME ScanTypes, [Scans!Next]_scanVars PROVE ScanTypes'
  OBVIOUS
<1>1. CASE UNCHANGED scanVars
  BY <1>1 DEF ScanTypes, scanVars, ScanSound
<1>2. CASE Scans!Next
  <2>1. PICK a \in Scans!Asked(transport), o \in BOOLEAN : Scans!Poll(a, o)
    BY <1>2 DEF Scans!Next
  <2>2. a \in Scans!Answers
    BY DEF Scans!Asked
  <2>3. /\ answer' = a /\ others' = o /\ transport' = transport
        /\ listed' = Scans!ScanOver(transport, a, o, listed)
    BY <2>1 DEF Scans!Poll
  <2>4. PICK d : d = Scans!ScanOver(transport, a, o, listed)
    OBVIOUS
  <2>5. ScanSound(d)
    BY <2>2, <2>4, ScanIsSound DEF ScanTypes
  <2>6. listed' = d
    BY <2>3, <2>4
  <2> QED
    BY <2>2, <2>3, <2>5, <2>6 DEF ScanTypes, ScanSound
<1> QED
  BY <1>1, <1>2

\* A poll obeys MoreEvidenceNeverDisconnects.
LEMMA ScanStepEvidence ==
    ASSUME Scans!PollsConstants, ScanTypes, [Scans!Next]_scanVars
    PROVE  [\A b \in Scans!Stronger(answer') :
               listed'.connected /\ ~Scans!HostapdAlone(b)
                   => Scans!ScanOver(transport, b, others', listed).connected]_(Scans!vars)
<1>1. CASE UNCHANGED scanVars
  BY <1>1 DEF scanVars, Scans!vars
<1>2. CASE Scans!Next
  <2>1. PICK a \in Scans!Asked(transport), o \in BOOLEAN : Scans!Poll(a, o)
    BY <1>2 DEF Scans!Next
  <2>2. a \in Scans!Answers
    BY DEF Scans!Asked
  <2>3. /\ answer' = a /\ others' = o
        /\ listed' = Scans!ScanOver(transport, a, o, listed)
    BY <2>1 DEF Scans!Poll
  <2>4. ASSUME NEW b \in Scans!Stronger(a),
               Scans!ScanOver(transport, a, o, listed).connected, ~Scans!HostapdAlone(b)
        PROVE  Scans!ScanOver(transport, b, o, listed).connected
    BY <2>2, <2>4, MoreEvidence DEF ScanTypes
  <2> QED
    BY <2>3, <2>4
<1> QED
  BY <1>1, <1>2

-----------------------------------------------------------------------------
(* The types of the announcement and of the life of an entry.              *)

\* At the start.
LEMMA DiscoveryInitTypes == Discovery!Init => Discovery!TypeOK
<1> SUFFICES ASSUME Discovery!Init PROVE Discovery!TypeOK
  OBVIOUS
<1>1. mem \in [Entries -> Discovery!Flags] /\ stored = mem
  BY DEF Discovery!Init, Discovery!Nothing, Discovery!Flags
<1>2. {loaded, presence, chosen, announced, started} \subseteq SUBSET Entries
  BY DEF Discovery!Init
<1>3. /\ mqtt \in {"none", "starting", "up"} /\ {topic, interrupted} \subseteq BOOLEAN
      /\ polling \subseteq loaded /\ loops \subseteq Entries \X {"start", "clean"}
  BY DEF Discovery!Init
<1> QED
  BY <1>1, <1>2, <1>3 DEF Discovery!TypeOK

\* A poll of the announcement.
LEMMA DiscoveryStepsTypes ==
    ASSUME Discovery!TypeOK, NEW e \in Entries, Discovery!Steps(e)
    PROVE  Discovery!TypeOK'
<1> USE DEF Discovery!TypeOK, Discovery!options
<1>1. /\ mem[e] \in Discovery!Flags
      /\ [Discovery!Nothing EXCEPT !.history = TRUE] \in Discovery!Flags
      /\ [mem[e] EXCEPT !.history = TRUE] \in Discovery!Flags
      /\ [mem[e] EXCEPT !.configured = FALSE, !.done = TRUE] \in Discovery!Flags
      /\ Discovery!FlagsAfter(e, mem[e]) \in Discovery!Flags
      /\ Discovery!FlagsAfter(e, stored[e]) \in Discovery!Flags
  <2>1. mem[e] \in Discovery!Flags /\ stored[e] \in Discovery!Flags
    OBVIOUS
  <2>2. ASSUME NEW m \in Discovery!Flags
        PROVE  /\ [m EXCEPT !.history = TRUE] \in Discovery!Flags
               /\ [m EXCEPT !.configured = FALSE, !.done = TRUE] \in Discovery!Flags
               /\ [m EXCEPT !.configured = TRUE, !.done = FALSE] \in Discovery!Flags
    BY DEF Discovery!Flags
  <2>3. Discovery!Nothing \in Discovery!Flags
    BY DEF Discovery!Nothing, Discovery!Flags
  <2>4. ASSUME NEW m \in Discovery!Flags PROVE Discovery!FlagsAfter(e, m) \in Discovery!Flags
    BY <2>2 DEF Discovery!FlagsAfter
  <2> QED
    BY <2>1, <2>2, <2>3, <2>4
<1>2. /\ Discovery!Announces(e) => topic' \in BOOLEAN /\ announced' \subseteq Entries
      /\ Discovery!Clears(e) => topic' \in BOOLEAN /\ announced' \subseteq Entries
      /\ Discovery!SendsNothing => topic' \in BOOLEAN /\ announced' \subseteq Entries
  BY DEF Discovery!Announces, Discovery!Clears, Discovery!SendsNothing
<1>3. CASE Discovery!PollFilters(e)
  <2>1. mem' \in [Entries -> Discovery!Flags] /\ stored' \in [Entries -> Discovery!Flags]
    <3>1. mem' = mem \/ mem' = [mem EXCEPT ![e] = [mem[e] EXCEPT !.history = TRUE]]
      BY <1>3 DEF Discovery!PollFilters
    <3>2. \/ stored' = stored
          \/ stored' = [stored EXCEPT ![e] = [Discovery!Nothing EXCEPT !.history = TRUE]]
      BY <1>3 DEF Discovery!PollFilters
    <3> QED
      BY <1>1, <3>1, <3>2
  <2>2. topic' \in BOOLEAN /\ announced' \subseteq Entries
    BY <1>2, <1>3 DEF Discovery!PollFilters
  <2> QED
    BY <1>3, <2>1, <2>2 DEF Discovery!PollFilters
<1>4. CASE Discovery!PollSaves(e)
  <2>1. mem' \in [Entries -> Discovery!Flags] /\ stored' \in [Entries -> Discovery!Flags]
    BY <1>1, <1>4 DEF Discovery!PollSaves
  <2>2. started' \subseteq Entries /\ loops' \subseteq Entries \X {"start", "clean"}
    BY <1>4 DEF Discovery!PollSaves
  <2> QED
    BY <1>4, <2>1, <2>2 DEF Discovery!PollSaves
<1>5. CASE Discovery!LoopStarts(e)
  <2>1. topic' \in BOOLEAN /\ announced' \subseteq Entries
    BY <1>2, <1>5 DEF Discovery!LoopStarts
  <2> QED
    BY <1>5, <2>1 DEF Discovery!LoopStarts
<1>6. CASE Discovery!LoopCleans(e)
  <2>1. mem' \in [Entries -> Discovery!Flags] /\ stored' \in [Entries -> Discovery!Flags]
    BY <1>1, <1>6 DEF Discovery!LoopCleans
  <2>2. topic' \in BOOLEAN /\ announced' \subseteq Entries
    BY <1>2, <1>6 DEF Discovery!LoopCleans, Discovery!ClearsHistory
  <2>3. interrupted' \in BOOLEAN
    BY <1>6 DEF Discovery!LoopCleans
  <2> QED
    BY <1>6, <2>1, <2>2, <2>3 DEF Discovery!LoopCleans
<1> QED
  BY <1>3, <1>4, <1>5, <1>6 DEF Discovery!Steps

\* Every step of it.
LEMMA DiscoveryNextTypes ==
    Discovery!TypeOK /\ [Discovery!Next]_discoveryVars => Discovery!TypeOK'
<1> SUFFICES ASSUME Discovery!TypeOK, [Discovery!Next]_discoveryVars
             PROVE  Discovery!TypeOK'
  OBVIOUS
<1>1. CASE UNCHANGED discoveryVars
  BY <1>1 DEF discoveryVars, Discovery!TypeOK
<1>2. ASSUME NEW e \in Entries, Discovery!Steps(e) PROVE Discovery!TypeOK'
  BY <1>2, DiscoveryStepsTypes
<1>3. ASSUME NEW e \in Entries, Discovery!Unload(e) PROVE Discovery!TypeOK'
  BY <1>3 DEF Discovery!Unload, Discovery!TypeOK, Discovery!options
<1>4. ASSUME NEW e \in Entries, Discovery!Setup(e) PROVE Discovery!TypeOK'
  <2>1. mem' \in [Entries -> Discovery!Flags]
    BY <1>4 DEF Discovery!Setup, Discovery!TypeOK, Discovery!Loads
  <2> QED
    BY <1>4, <2>1 DEF Discovery!Setup, Discovery!TypeOK
<1>5. CASE Discovery!Stop
  BY <1>5 DEF Discovery!Stop, Discovery!TypeOK, Discovery!options
<1>6. CASE Discovery!BrokerChanges
  BY <1>6 DEF Discovery!BrokerChanges, Discovery!TypeOK, Discovery!options
<1> QED
  BY <1>1, <1>2, <1>3, <1>4, <1>5, <1>6 DEF Discovery!Next

\* Life!TypeOK in three parts: what is true or false,
LifeFlags ==
    /\ up \in BOOLEAN /\ accepts \in BOOLEAN /\ gps \in BOOLEAN /\ connected \in BOOLEAN
    /\ hasData \in BOOLEAN /\ lastOk \in BOOLEAN /\ lostIssue \in BOOLEAN
    /\ authIssue \in BOOLEAN /\ flag \in BOOLEAN /\ contact \in BOOLEAN
    /\ rebooted \in BOOLEAN

\* what is counted,
LifeCounts ==
    /\ interval \in 1..3600
    /\ failures \in 0..MaxFailures
    /\ outages \in 0..MaxOutages
    /\ installs \in 0..MaxInstalls

\* and where an entry, its poll and its installation are.
LifePhases ==
    /\ client \in EntryTransports
    /\ entry \in {"setup", "first", "loaded", "retry", "reauth"}
    /\ poll \in {"idle", "connecting", "fetching", "again", "reconnecting",
                 "refetching", "processing"}
    /\ install \in {"idle", "backup", "build", "ready", "flashing"}
    /\ poll # "idle" => entry \in {"first", "loaded"}
    /\ install # "idle" => entry = "loaded"

LifeTypes == LifeFlags /\ LifeCounts /\ LifePhases

\* Nothing more and nothing less.
LEMMA LifeTypesAreTypeOK == LifeTypes <=> Life!TypeOK
BY DEF LifeTypes, LifeFlags, LifeCounts, LifePhases, Life!TypeOK

\* An entry at the start.
LEMMA LifeInitTypes ==
    ASSUME Life!CoordinatorConstants
    PROVE  Life!Init => LifeTypes
<1>1. Life!Init => LifeFlags
  BY DEF Life!Init, LifeFlags
<1>2. Life!Init => LifeCounts
  BY DEF Life!Init, LifeCounts, Life!CoordinatorConstants
<1>3. Life!Init => LifePhases
  BY DEF Life!Init, LifePhases
<1> QED
  BY <1>1, <1>2, <1>3 DEF LifeTypes

\* Every step of an entry keeps what is true or false so.
LEMMA LifeNextFlags ==
    ASSUME Life!CoordinatorConstants, LifeFlags, [Life!Next]_lifeVars
    PROVE  LifeFlags'
<1> USE DEF Life!router, Life!client, Life!coord, Life!update
<1>1. GpsAvailable \in BOOLEAN
  BY DEF Life!CoordinatorConstants
<1>2. CASE UNCHANGED lifeVars
  BY <1>2 DEF lifeVars, LifeFlags
<1>3. CASE Life!SetupStep
  <2>1. CASE Life!SetupConnects
    BY <2>1, <1>1 DEF Life!SetupConnects, LifeFlags
  <2>2. CASE Life!SetupFails
    BY <2>2, <1>1 DEF Life!SetupFails, LifeFlags
  <2>3. CASE Life!HassRetriesSetup
    BY <2>3, <1>1 DEF Life!HassRetriesSetup, LifeFlags
  <2> QED
    BY <1>3, <2>1, <2>2, <2>3 DEF Life!SetupStep
<1>4. CASE Life!PollStep
  <2>1. CASE Life!PollConnects
    BY <2>1, <1>1 DEF Life!PollConnects, LifeFlags
  <2>2. CASE Life!PollConnectFails
    BY <2>2, <1>1 DEF Life!PollConnectFails, Life!PollFailed, LifeFlags
  <2>3. CASE Life!FetchAnswered
    BY <2>3, <1>1 DEF Life!FetchAnswered, Life!Fetched, LifeFlags
  <2>4. CASE Life!CoreMissing
    BY <2>4, <1>1 DEF Life!CoreMissing, LifeFlags
  <2>5. CASE Life!FetchSwallows
    BY <2>5, <1>1 DEF Life!FetchSwallows, Life!Fetched, LifeFlags
  <2>6. CASE Life!FetchRaises
    BY <2>6, <1>1 DEF Life!FetchRaises, LifeFlags
  <2>7. CASE Life!FetchRefused
    BY <2>7, <1>1 DEF Life!FetchRefused, Life!PollFailed, LifeFlags
  <2>8. CASE Life!FetchUnexpected
    BY <2>8, <1>1 DEF Life!FetchUnexpected, Life!PollFailed, LifeFlags
  <2>9. CASE Life!Reconnects
    BY <2>9, <1>1 DEF Life!Reconnects, LifeFlags
  <2>10. CASE Life!RefetchAnswered
    BY <2>10, <1>1 DEF Life!RefetchAnswered, Life!Fetched, LifeFlags
  <2>11. CASE Life!RetryFails
    BY <2>11, <1>1 DEF Life!RetryFails, Life!PollFailed, LifeFlags
  <2>12. CASE Life!PollDone
    BY <2>12, <1>1 DEF Life!PollDone, LifeFlags
  <2>13. CASE Life!GpsImportFails
    BY <2>13, <1>1 DEF Life!GpsImportFails, LifeFlags
  <2> QED
    BY <1>4, <2>1, <2>2, <2>3, <2>4, <2>5, <2>6, <2>7, <2>8, <2>9, <2>10, <2>11,
       <2>12, <2>13 DEF Life!PollStep
<1>5. CASE Life!Reload
  BY <1>5, <1>1 DEF Life!Reload, LifeFlags
<1>6. CASE Life!Reauthenticated
  BY <1>6 DEF Life!Reauthenticated, LifeFlags
<1>7. CASE Life!PollStart
  BY <1>7 DEF Life!PollStart, LifeFlags
<1>8. CASE Life!InstallStart
  BY <1>8, <1>1 DEF Life!InstallStart, LifeFlags
<1>9. CASE Life!InstallStep
  <2>1. CASE Life!BackupDone
    BY <2>1, <1>1 DEF Life!BackupDone, LifeFlags
  <2>2. CASE Life!ImageReady
    BY <2>2, <1>1 DEF Life!ImageReady, LifeFlags
  <2>3. CASE Life!InstallFails
    BY <2>3, <1>1 DEF Life!InstallFails, LifeFlags
  <2>4. CASE Life!FlashStart
    BY <2>4, <1>1 DEF Life!FlashStart, LifeFlags
  <2>5. CASE Life!FlashAccepted
    BY <2>5, <1>1 DEF Life!FlashAccepted, LifeFlags
  <2> QED
    BY <1>9, <2>1, <2>2, <2>3, <2>4, <2>5 DEF Life!InstallStep
<1>10. CASE Life!GoesDown \/ Life!ComesUp \/ Life!PasswordChanged
  <2>1. CASE Life!GoesDown
    BY <2>1, <1>1 DEF Life!GoesDown, LifeFlags
  <2>2. CASE Life!ComesUp
    BY <2>2, <1>1 DEF Life!ComesUp, LifeFlags
  <2>3. CASE Life!PasswordChanged
    BY <2>3, <1>1 DEF Life!PasswordChanged, LifeFlags
  <2> QED
    BY <1>10, <2>1, <2>2, <2>3
<1> QED
  BY <1>2, <1>3, <1>4, <1>5, <1>6, <1>7, <1>8, <1>9, <1>10 DEF Life!Next

\* And the counts within their bounds: the backoff doubles up to its limit.
LEMMA LifeNextCounts ==
    ASSUME Life!CoordinatorConstants, LifeCounts, [Life!Next]_lifeVars
    PROVE  LifeCounts'
<1> USE DEF Life!router, Life!client, Life!coord, Life!update
<1>1. /\ Configured \in 1..3600 /\ MaxBackoff \in 1..3600
      /\ MaxFailures \in Nat /\ MaxOutages \in Nat /\ MaxInstalls \in Nat
  BY DEF Life!CoordinatorConstants
<1>11. ASSUME Life!PollFailed
       PROVE  interval' \in 1..3600 /\ failures' \in 0..MaxFailures
  BY <1>1, <1>11 DEF Life!PollFailed, Life!Smaller, LifeCounts
<1>2. CASE UNCHANGED lifeVars
  BY <1>2 DEF lifeVars, LifeCounts
<1>3. CASE Life!SetupStep
  <2>1. CASE Life!SetupConnects
    BY <2>1, <1>1 DEF Life!SetupConnects, LifeCounts
  <2>2. CASE Life!SetupFails
    BY <2>2, <1>1 DEF Life!SetupFails, LifeCounts
  <2>3. CASE Life!HassRetriesSetup
    BY <2>3, <1>1 DEF Life!HassRetriesSetup, LifeCounts
  <2> QED
    BY <1>3, <2>1, <2>2, <2>3 DEF Life!SetupStep
<1>4. CASE Life!PollStep
  <2>1. CASE Life!PollConnects
    BY <2>1, <1>1 DEF Life!PollConnects, LifeCounts
  <2>2. CASE Life!PollConnectFails
    BY <2>2, <1>11, <1>1 DEF Life!PollConnectFails, LifeCounts
  <2>3. CASE Life!FetchAnswered
    BY <2>3, <1>1 DEF Life!FetchAnswered, Life!Fetched, LifeCounts
  <2>4. CASE Life!CoreMissing
    BY <2>4, <1>1 DEF Life!CoreMissing, LifeCounts
  <2>5. CASE Life!FetchSwallows
    BY <2>5, <1>1 DEF Life!FetchSwallows, Life!Fetched, LifeCounts
  <2>6. CASE Life!FetchRaises
    BY <2>6, <1>1 DEF Life!FetchRaises, LifeCounts
  <2>7. CASE Life!FetchRefused
    BY <2>7, <1>11, <1>1 DEF Life!FetchRefused, LifeCounts
  <2>8. CASE Life!FetchUnexpected
    BY <2>8, <1>11, <1>1 DEF Life!FetchUnexpected, LifeCounts
  <2>9. CASE Life!Reconnects
    BY <2>9, <1>1 DEF Life!Reconnects, LifeCounts
  <2>10. CASE Life!RefetchAnswered
    BY <2>10, <1>1 DEF Life!RefetchAnswered, Life!Fetched, LifeCounts
  <2>11. CASE Life!RetryFails
    BY <2>11, <1>11, <1>1 DEF Life!RetryFails, LifeCounts
  <2>12. CASE Life!PollDone
    BY <2>12, <1>1 DEF Life!PollDone, LifeCounts
  <2>13. CASE Life!GpsImportFails
    BY <2>13, <1>1 DEF Life!GpsImportFails, LifeCounts
  <2> QED
    BY <1>4, <2>1, <2>2, <2>3, <2>4, <2>5, <2>6, <2>7, <2>8, <2>9, <2>10, <2>11,
       <2>12, <2>13 DEF Life!PollStep
<1>5. CASE Life!Reload
  BY <1>5, <1>1 DEF Life!Reload, LifeCounts
<1>6. CASE Life!Reauthenticated
  BY <1>6 DEF Life!Reauthenticated, LifeCounts
<1>7. CASE Life!PollStart
  BY <1>7 DEF Life!PollStart, LifeCounts
<1>8. CASE Life!InstallStart
  BY <1>8, <1>1 DEF Life!InstallStart, LifeCounts
<1>9. CASE Life!InstallStep
  <2>1. CASE Life!BackupDone
    BY <2>1, <1>1 DEF Life!BackupDone, LifeCounts
  <2>2. CASE Life!ImageReady
    BY <2>2, <1>1 DEF Life!ImageReady, LifeCounts
  <2>3. CASE Life!InstallFails
    BY <2>3, <1>1 DEF Life!InstallFails, LifeCounts
  <2>4. CASE Life!FlashStart
    BY <2>4, <1>1 DEF Life!FlashStart, LifeCounts
  <2>5. CASE Life!FlashAccepted
    BY <2>5, <1>1 DEF Life!FlashAccepted, LifeCounts
  <2> QED
    BY <1>9, <2>1, <2>2, <2>3, <2>4, <2>5 DEF Life!InstallStep
<1>10. CASE Life!GoesDown \/ Life!ComesUp \/ Life!PasswordChanged
  <2>1. CASE Life!GoesDown
    BY <2>1, <1>1 DEF Life!GoesDown, LifeCounts
  <2>2. CASE Life!ComesUp
    BY <2>2, <1>1 DEF Life!ComesUp, LifeCounts
  <2>3. CASE Life!PasswordChanged
    BY <2>3, <1>1 DEF Life!PasswordChanged, LifeCounts
  <2> QED
    BY <1>10, <2>1, <2>2, <2>3
<1> QED
  BY <1>2, <1>3, <1>4, <1>5, <1>6, <1>7, <1>8, <1>9, <1>10 DEF Life!Next

\* And a poll runs only for an entry that is there, an installation only for a loaded one.
LEMMA LifeNextPhases ==
    ASSUME Life!CoordinatorConstants, LifePhases, [Life!Next]_lifeVars
    PROVE  LifePhases'
<1> USE DEF Life!router, Life!client, Life!coord, Life!update
<1>2. CASE UNCHANGED lifeVars
  BY <1>2 DEF lifeVars, LifePhases
<1>3. CASE Life!SetupStep
  <2>1. CASE Life!SetupConnects
    BY <2>1 DEF Life!SetupConnects, LifePhases
  <2>2. CASE Life!SetupFails
    BY <2>2 DEF Life!SetupFails, LifePhases
  <2>3. CASE Life!HassRetriesSetup
    BY <2>3 DEF Life!HassRetriesSetup, LifePhases
  <2> QED
    BY <1>3, <2>1, <2>2, <2>3 DEF Life!SetupStep
<1>4. CASE Life!PollStep
  <2>1. CASE Life!PollConnects
    BY <2>1 DEF Life!PollConnects, LifePhases
  <2>2. CASE Life!PollConnectFails
    BY <2>2 DEF Life!PollConnectFails, Life!PollFailed, LifePhases
  <2>3. CASE Life!FetchAnswered
    BY <2>3 DEF Life!FetchAnswered, Life!Fetched, LifePhases
  <2>4. CASE Life!CoreMissing
    BY <2>4 DEF Life!CoreMissing, LifePhases
  <2>5. CASE Life!FetchSwallows
    BY <2>5 DEF Life!FetchSwallows, Life!Fetched, LifePhases
  <2>6. CASE Life!FetchRaises
    BY <2>6 DEF Life!FetchRaises, LifePhases
  <2>7. CASE Life!FetchRefused
    BY <2>7 DEF Life!FetchRefused, Life!PollFailed, LifePhases
  <2>8. CASE Life!FetchUnexpected
    BY <2>8 DEF Life!FetchUnexpected, Life!PollFailed, LifePhases
  <2>9. CASE Life!Reconnects
    BY <2>9 DEF Life!Reconnects, LifePhases
  <2>10. CASE Life!RefetchAnswered
    BY <2>10 DEF Life!RefetchAnswered, Life!Fetched, LifePhases
  <2>11. CASE Life!RetryFails
    BY <2>11 DEF Life!RetryFails, Life!PollFailed, LifePhases
  <2>12. CASE Life!PollDone
    BY <2>12 DEF Life!PollDone, LifePhases
  <2>13. CASE Life!GpsImportFails
    BY <2>13 DEF Life!GpsImportFails, LifePhases
  <2> QED
    BY <1>4, <2>1, <2>2, <2>3, <2>4, <2>5, <2>6, <2>7, <2>8, <2>9, <2>10, <2>11,
       <2>12, <2>13 DEF Life!PollStep
<1>5. CASE Life!Reload
  BY <1>5 DEF Life!Reload, LifePhases
<1>6. CASE Life!Reauthenticated
  BY <1>6 DEF Life!Reauthenticated, LifePhases
<1>7. CASE Life!PollStart
  BY <1>7 DEF Life!PollStart, LifePhases
<1>8. CASE Life!InstallStart
  BY <1>8 DEF Life!InstallStart, LifePhases
<1>9. CASE Life!InstallStep
  <2>1. CASE Life!BackupDone
    BY <2>1 DEF Life!BackupDone, LifePhases
  <2>2. CASE Life!ImageReady
    BY <2>2 DEF Life!ImageReady, LifePhases
  <2>3. CASE Life!InstallFails
    BY <2>3 DEF Life!InstallFails, LifePhases
  <2>4. CASE Life!FlashStart
    BY <2>4 DEF Life!FlashStart, LifePhases
  <2>5. CASE Life!FlashAccepted
    BY <2>5 DEF Life!FlashAccepted, LifePhases
  <2> QED
    BY <1>9, <2>1, <2>2, <2>3, <2>4, <2>5 DEF Life!InstallStep
<1>10. CASE Life!GoesDown \/ Life!ComesUp \/ Life!PasswordChanged
  <2>1. CASE Life!GoesDown
    BY <2>1 DEF Life!GoesDown, LifePhases
  <2>2. CASE Life!ComesUp
    BY <2>2 DEF Life!ComesUp, LifePhases
  <2>3. CASE Life!PasswordChanged
    BY <2>3 DEF Life!PasswordChanged, LifePhases
  <2> QED
    BY <1>10, <2>1, <2>2, <2>3
<1> QED
  BY <1>2, <1>3, <1>4, <1>5, <1>6, <1>7, <1>8, <1>9, <1>10 DEF Life!Next

\* Every step of an entry.
LEMMA LifeNextTypes ==
    ASSUME Life!CoordinatorConstants
    PROVE  LifeTypes /\ [Life!Next]_lifeVars => LifeTypes'
BY LifeNextFlags, LifeNextCounts, LifeNextPhases DEF LifeTypes

-----------------------------------------------------------------------------
(* The four together.                                                      *)

\* A step of the four is a step of one of them.
LEMMA PartSteps ==
    ASSUME [PartNext]_partVars
    PROVE  /\ [Next]_vars /\ [Scans!Next]_scanVars
           /\ [Discovery!Next]_discoveryVars /\ [Life!Next]_lifeVars
BY DEF PartNext, ScriptStep, ScanStep, DiscoveryStep, LifeStep, partVars

ScanPresenceIInv == PresenceIInv /\ ScanTypes /\ Discovery!TypeOK /\ LifeTypes

\* The inductive invariant of the four models: the scripts of presence, which do
\* not overlap, the list of the last poll, and the types of the other two.
THEOREM ScanPresenceInvariant == PartSpec => []ScanPresenceIInv
<1>1. PartInit => ScanPresenceIInv
  BY PollsValues, LifeValues, PresenceInitIInv, ScanInitTypes, DiscoveryInitTypes,
     LifeInitTypes
     DEF PartInit, ScanPresenceIInv
<1>2. ScanPresenceIInv /\ [PartNext]_partVars => ScanPresenceIInv'
  BY PollsValues, LifeValues, PartSteps, PresenceNextIInv, ScanNextTypes,
     DiscoveryNextTypes, LifeNextTypes
     DEF ScanPresenceIInv
<1> QED
  BY <1>1, <1>2, PTL DEF PartSpec

\* The types of the four models: those of the scripts and their queues, of the
\* list of a poll, of the flags of an announcement, and of the phases of an entry.
THEOREM ScanPresenceTypes == PartSpec => []TypesOK
<1>1. ScanPresenceIInv => TypesOK
  BY PresenceTypeOK, LifeTypesAreTypeOK
     DEF ScanPresenceIInv, TypesOK, ScanTypes, ScanSound, Scans!TypeOK
<1> QED
  BY <1>1, ScanPresenceInvariant, PTL

\* When the scripts have come to an end, and no two of them overlapped, what is
\* retained about the device is right, however it went between the access points.
THEOREM SettledPresenceIsRight == PartSpec => []SettledRight
<1>1. ScanPresenceIInv => SettledRight
  BY PresenceSettled DEF ScanPresenceIInv
<1> QED
  BY <1>1, ScanPresenceInvariant, PTL

\* The sources of a poll overrule each other, but over no transport and after no
\* previous list does one more sign of the device disconnect it.
THEOREM MoreEvidenceKeepsConnected == PartSpec => MoreEvidenceNeverDisconnects
<1>1. ScanPresenceIInv /\ [PartNext]_partVars
         => [\A b \in Scans!Stronger(answer') :
                listed'.connected /\ ~Scans!HostapdAlone(b)
                   => Scans!ScanOver(transport, b, others', listed).connected]_(Scans!vars)
  BY PollsValues, PartSteps, ScanStepEvidence DEF ScanPresenceIInv
<1> QED
  BY <1>1, ScanPresenceInvariant, PTL
     DEF PartSpec, MoreEvidenceNeverDisconnects, Scans!MoreEvidenceNeverDisconnects

=============================================================================
