------------------------------ MODULE PollTiers ------------------------------
(***************************************************************************)
(* The three polling tiers of get_all_data (api/client/aggregator.py) and  *)
(* their race with the actions a user takes on the router.                 *)
(*                                                                         *)
(* Every poll reads the fast tier; the medium and the slow tier are read   *)
(* only when their last poll is old enough.  An action that changed the    *)
(* router forces the next poll to read the slow tier again: it zeroes      *)
(* _last_slow_poll_time and bumps _slow_poll_generation, so that a slow    *)
(* poll already in flight, whose reads may predate the action, does not    *)
(* count as that re-read.                                                  *)
(*                                                                         *)
(* Data.  An item of router state is a version number: every change on the *)
(* router makes a new version, so "stale" is "smaller".  get_all_data      *)
(* updates coordinator.data in place and stores the very same objects in   *)
(* _cached_slow_data / _cached_medium_data before its next await, so the   *)
(* data object and the caches agree at every await: one variable, `data',  *)
(* stands for both, and restoring the cache on a fast poll is a stutter.   *)
(*                                                                         *)
(* Time.  time.time() is only ever compared with the instant of an earlier *)
(* poll, so the model keeps the AGES of those instants, saturating at the  *)
(* interval they are compared with; setting an instant to 0.0 makes it     *)
(* SlowInterval old.                                                       *)
(***************************************************************************)
EXTENDS Integers

CONSTANTS
    FastItems,      \* read by every poll: wireless interfaces, resources, ...
    MediumItems,    \* adblock, ban-ip, WireGuard, ...: every 180 s
    SlowItems,      \* services, LEDs, firewall rules, SQM, ...: every 900 s
    NoItem,         \* "no item", for an actor that is not acting
    CapturedItems,  \* items whose entity looks its object up BEFORE the await
    Actors,         \* concurrent Home Assistant service calls
    SlowInterval,   \* 900 s, in ticks
    MediumInterval, \* 180 s, in ticks
    MaxWrites       \* bound: versions of one item

Items == FastItems \cup MediumItems \cup SlowItems

ASSUME Tiers ==
    /\ FastItems \cap MediumItems = {}
    /\ FastItems \cap SlowItems = {}
    /\ MediumItems \cap SlowItems = {}
    /\ CapturedItems \subseteq Items
    /\ NoItem \notin Items

ASSUME Intervals ==
    /\ SlowInterval \in Nat \ {0}
    /\ MediumInterval \in 1..SlowInterval
    /\ MaxWrites \in Nat

VARIABLES
    router,     \* router[x]: the version of x on the router
    data,       \* data[x]: the version coordinator.data (and the cache) shows
    slowAge,    \* now - _last_slow_poll_time, at most SlowInterval
    mediumAge,  \* now - _last_medium_poll_time, at most MediumInterval
    generation, \* _slow_poll_generation
    poll,       \* the locals of the running get_all_data
    got,        \* items whose fetch of the current gather has answered
    missed,     \* items whose fetch of the current gather has failed
    buf,        \* buf[x]: what the fetch of x returned
    action,     \* action[a]: the service call a is executing
    acked,      \* ghost: the newest version an action reported as done
    failed,     \* ghost: items whose latest fetch failed
    seenAge,    \* ghost: how long ago data[x] was read from the router
    bufAge      \* ghost: how long ago buf[x] was read from the router

pollVars  == <<slowAge, mediumAge, poll, got, missed, buf, failed, bufAge>>
vars == <<router, data, slowAge, mediumAge, generation, poll, got, missed, buf,
          action, acked, failed, seenAge, bufAge>>

-----------------------------------------------------------------------------

Phases == {"idle", "core", "slow", "medium"}

\* The items one gather fetches.
Tier(phase) ==
    CASE phase = "core"   -> FastItems
      [] phase = "slow"   -> SlowItems
      [] phase = "medium" -> MediumItems
      [] OTHER            -> {}

NoAction ==
    [phase |-> "none", item |-> NoItem, attached |-> FALSE, version |-> 0]

ActionStates ==
    {s \in [phase : {"none", "sent", "applied"}, item : Items \cup {NoItem},
            attached : BOOLEAN, version : Nat] :
        s.phase # "none" => s.item \in Items}

TypeOK ==
    /\ router \in [Items -> Nat]
    /\ data \in [Items -> Nat]
    /\ slowAge \in 0..SlowInterval
    /\ mediumAge \in 0..MediumInterval
    /\ generation \in Nat
    /\ poll \in [phase : Phases, slow : BOOLEAN, medium : BOOLEAN,
                 generation : Nat, age : 0..SlowInterval]
    /\ got \subseteq Items
    /\ missed \subseteq Items
    /\ buf \in [Items -> Nat]
    /\ action \in [Actors -> ActionStates]
    /\ acked \in [Items -> Nat]
    /\ failed \subseteq Items
    /\ seenAge \in [Items -> 0..SlowInterval]
    /\ bufAge \in [Items -> 0..SlowInterval]

IdlePoll ==
    [phase |-> "idle", slow |-> FALSE, medium |-> FALSE, generation |-> 0,
     age |-> 0]

Init ==
    /\ router = [x \in Items |-> 0]
    /\ data = [x \in Items |-> 0]
    /\ slowAge = SlowInterval
    /\ mediumAge = MediumInterval
    /\ generation = 0
    /\ poll = IdlePoll
    /\ got = {}
    /\ missed = {}
    /\ buf = [x \in Items |-> 0]
    /\ action = [a \in Actors |-> NoAction]
    /\ acked = [x \in Items |-> 0]
    /\ failed = {}
    /\ seenAge = [x \in Items |-> SlowInterval]
    /\ bufAge = [x \in Items |-> 0]

-----------------------------------------------------------------------------
(* The poll. *)

\* A poll takes its decisions and the generation before its first await.
PollStart ==
    /\ poll.phase = "idle"
    /\ LET isSlow == slowAge >= SlowInterval
           isMedium == isSlow \/ mediumAge >= MediumInterval
       IN  poll' = [phase |-> "core", slow |-> isSlow, medium |-> isMedium,
                    generation |-> generation, age |-> 0]
    /\ got' = {}
    /\ missed' = {}
    /\ UNCHANGED <<router, data, slowAge, mediumAge, generation, buf, action,
                   acked, failed, seenAge, bufAge>>

Pending(x) == x \in Tier(poll.phase) \ (got \cup missed)

\* One fetch of the running gather is answered with what the router holds now.
FetchAnswered(x) ==
    /\ Pending(x)
    /\ buf' = [buf EXCEPT ![x] = router[x]]
    /\ bufAge' = [bufAge EXCEPT ![x] = 0]
    /\ got' = got \cup {x}
    /\ UNCHANGED <<router, data, slowAge, mediumAge, generation, poll, missed,
                   action, acked, failed, seenAge>>

\* return_exceptions=True: a failing fetch is a result like any other.
FetchFailed(x) ==
    /\ Pending(x)
    /\ missed' = missed \cup {x}
    /\ UNCHANGED <<router, data, slowAge, mediumAge, generation, poll, got, buf,
                   action, acked, failed, seenAge, bufAge>>

GatherDone == \A x \in Tier(poll.phase) : x \in got \cup missed

\* The result list of a gather is dropped once it has been stored.
ForgetResults ==
    /\ got' = {}
    /\ missed' = {}
    /\ buf' = [x \in Items |-> 0]
    /\ bufAge' = [x \in Items |-> 0]

\* get_val: a failed fetch keeps the previous value; an answered one REPLACES
\* the object, which detaches the entities that captured the old one.  Items stay
\* listed: elements that get_val keeps although an answer no longer lists them (of
\* the network interfaces and of SQM) are left out.
StoreResults ==
    /\ data' = [x \in Items |-> IF x \in got THEN buf[x] ELSE data[x]]
    /\ seenAge' = [x \in Items |-> IF x \in got THEN bufAge[x] ELSE seenAge[x]]
    /\ failed' = (failed \ got) \cup missed
    /\ action' = [a \in Actors |->
          IF action[a].item \in got \cap CapturedItems
          THEN [action[a] EXCEPT !.attached = FALSE]
          ELSE action[a]]
    /\ ForgetResults

\* Bugs the properties are tested against: a lost generation check, a
\* timestamp taken at the end, an interval read off the wrong tier, and a
\* timestamp moved by polls that did not read the tier.
StoreSlowIgnoringGeneration ==
    /\ poll.phase = "slow"
    /\ GatherDone
    /\ StoreResults
    /\ slowAge' = poll.age
    /\ poll' = [poll EXCEPT !.phase = "medium"]
    /\ UNCHANGED <<router, mediumAge, generation, acked>>

StoreSlowStampingTheEnd ==
    /\ poll.phase = "slow"
    /\ GatherDone
    /\ StoreResults
    /\ slowAge' = IF generation = poll.generation THEN 0 ELSE slowAge
    /\ poll' = [poll EXCEPT !.phase = "medium"]
    /\ UNCHANGED <<router, mediumAge, generation, acked>>

StoreMediumUncapped ==
    /\ poll.phase = "medium"
    /\ GatherDone
    /\ StoreResults
    /\ mediumAge' = poll.age
    /\ poll' = IdlePoll
    /\ UNCHANGED <<router, slowAge, generation, acked>>

StoreCoreStampingEveryPoll ==
    /\ poll.phase = "core"
    /\ GatherDone
    /\ StoreResults
    /\ slowAge' = poll.age
    /\ poll' = IF poll.slow THEN [poll EXCEPT !.phase = "slow"]
               ELSE IF poll.medium THEN [poll EXCEPT !.phase = "medium"]
               ELSE IdlePoll
    /\ UNCHANGED <<router, mediumAge, generation, acked>>

\* The core gather; the slow and medium blocks are skipped when not due.
StoreCore ==
    /\ poll.phase = "core"
    /\ GatherDone
    /\ StoreResults
    /\ poll' = IF poll.slow THEN [poll EXCEPT !.phase = "slow"]
               ELSE IF poll.medium THEN [poll EXCEPT !.phase = "medium"]
               ELSE IdlePoll
    /\ UNCHANGED <<router, slowAge, mediumAge, generation, acked>>

\* The slow block: the timestamp moves to the poll's START, and only if no
\* action has invalidated the tier since then.
StoreSlow ==
    /\ poll.phase = "slow"
    /\ GatherDone
    /\ StoreResults
    /\ slowAge' = IF generation = poll.generation THEN poll.age ELSE slowAge
    /\ poll' = [poll EXCEPT !.phase = "medium"]
    /\ UNCHANGED <<router, mediumAge, generation, acked>>

\* The medium block.
StoreMedium ==
    /\ poll.phase = "medium"
    /\ GatherDone
    /\ StoreResults
    /\ mediumAge' = IF poll.age < MediumInterval THEN poll.age
                    ELSE MediumInterval
    /\ poll' = IdlePoll
    /\ UNCHANGED <<router, slowAge, generation, acked>>

\* _fetch_conntrack runs unprotected right after the core gather: over SSH and
\* LuCI RPC it raises when the router is gone, and the poll is abandoned.  (The
\* resource sample stored before it is no item of the model.)
PollAbort ==
    /\ poll.phase = "core"
    /\ GatherDone
    /\ poll' = IdlePoll
    /\ ForgetResults
    /\ UNCHANGED <<router, data, slowAge, mediumAge, generation, action, acked,
                   failed, seenAge>>

-----------------------------------------------------------------------------
(* Actions on the router, each an await point wide. *)

\* A switch or light starts its request.
ActionSent(a, x) ==
    /\ action[a].phase = "none"
    /\ action' = [action EXCEPT ![a] = [phase |-> "sent", item |-> x,
                                        attached |-> TRUE, version |-> 0]]
    /\ UNCHANGED <<router, data, generation, acked, seenAge, pollVars>>

\* The router executes it.
ActionApplied(a) ==
    /\ action[a].phase = "sent"
    /\ router[action[a].item] < MaxWrites
    /\ router' = [router EXCEPT ![action[a].item] = @ + 1]
    /\ action' = [action EXCEPT ![a].phase = "applied",
                                ![a].version = router[action[a].item] + 1]
    /\ UNCHANGED <<data, generation, acked, seenAge, pollVars>>

\* _invalidate_slow_poll
InvalidateSlowPoll ==
    /\ slowAge' = SlowInterval
    /\ generation' = generation + 1

\* The reply arrives: invalidate, return True, update the entity's object.  The
\* object may have been replaced meanwhile; then the write reaches nobody.
ActionDone(a) ==
    /\ action[a].phase = "applied"
    /\ InvalidateSlowPoll
    /\ LET x == action[a].item
           v == action[a].version
       IN  /\ data' = [data EXCEPT ![x] = IF action[a].attached THEN v ELSE @]
           /\ acked' = [acked EXCEPT ![x] = IF @ < v THEN v ELSE @]
    /\ action' = [action EXCEPT ![a] = NoAction]
    /\ UNCHANGED <<router, mediumAge, poll, got, missed, buf, failed, seenAge,
                   bufAge>>

\* The reply is lost, or a later step of the action fails after an earlier one
\* took effect: the call raises and nothing is invalidated.
ActionRaises(a) ==
    /\ action[a].phase # "none"
    /\ action' = [action EXCEPT ![a] = NoAction]
    /\ UNCHANGED <<router, data, generation, acked, seenAge, pollVars>>

-----------------------------------------------------------------------------
(* The environment. *)

\* Somebody changes the router behind the integration's back.
ExternalChange(x) ==
    /\ router[x] < MaxWrites
    /\ router' = [router EXCEPT ![x] = @ + 1]
    /\ UNCHANGED <<data, slowAge, mediumAge, generation, poll, got, missed, buf,
                   action, acked, failed, seenAge, bufAge>>

Older(age, cap) == IF age < cap THEN age + 1 ELSE age

Tick ==
    /\ slowAge' = Older(slowAge, SlowInterval)
    /\ mediumAge' = Older(mediumAge, MediumInterval)
    /\ poll' = [poll EXCEPT !.age = IF poll.phase = "idle" THEN 0
                                    ELSE Older(@, SlowInterval)]
    /\ seenAge' = [x \in Items |-> Older(seenAge[x], SlowInterval)]
    /\ bufAge' = [x \in Items |-> IF x \in got
                                  THEN Older(bufAge[x], SlowInterval)
                                  ELSE bufAge[x]]
    /\ UNCHANGED <<router, data, generation, got, missed, buf, action, acked,
                   failed>>

PollStep == PollStart \/ StoreCore \/ StoreSlow \/ StoreMedium

Next ==
    \/ PollStep
    \/ PollAbort
    \/ \E x \in Items : FetchAnswered(x) \/ FetchFailed(x) \/ ExternalChange(x)
    \/ \E a \in Actors : \E x \in Items : ActionSent(a, x)
    \/ \E a \in Actors : ActionApplied(a) \/ ActionDone(a) \/ ActionRaises(a)
    \/ Tick

Spec == Init /\ [][Next]_vars

(***************************************************************************)
(* Fairness.  The poll loop is driven by Home Assistant's timer and by the *)
(* event loop: its own steps are weakly fair.  Of the router we assume     *)
(* that it answers every query again and again (strong fairness of an      *)
(* answered fetch) and that a poll is not abandoned every time.  Nothing   *)
(* is assumed of users or of external changes.                             *)
(***************************************************************************)
Fairness ==
    /\ WF_vars(Tick)
    /\ WF_vars(PollStart)
    /\ WF_vars(StoreSlow)
    /\ WF_vars(StoreMedium)
    /\ SF_vars(StoreCore)
    /\ \A x \in Items : SF_vars(FetchAnswered(x))
    /\ \A x \in Items : WF_vars(FetchAnswered(x) \/ FetchFailed(x))
    /\ \A a \in Actors : WF_vars(ActionDone(a) \/ ActionRaises(a))

FairSpec == Spec /\ Fairness

-----------------------------------------------------------------------------
(* Properties. *)

SlowDue == slowAge = SlowInterval

\* The running poll will still store a read of x made after every acknowledged
\* change of x.
WillStore(x) ==
    /\ poll.phase = "medium"
    /\ x \in MediumItems
    /\ x \in got => buf[x] >= acked[x]

\* An action that reported success is never forgotten: as long as the data
\* shows something older than the action's result, a re-read of the slow (and
\* with it the medium) tier is still due or in progress -- unless the latest
\* fetch of that item failed, which keeps the old value by design.  This is
\* what the generation check in get_all_data is for.
AckedChangeNotForgotten ==
    \A x \in SlowItems \cup MediumItems :
        data[x] >= acked[x] \/ x \in failed \/ SlowDue \/ WillStore(x)

\* The data of a tier is never older than the tier's timestamp says (again
\* unless its latest fetch failed): a change made behind the integration's
\* back is shown after at most one interval.  It holds because the timestamp
\* is the poll's start, not its end.
NoOlderThanTimestamp ==
    /\ \A x \in SlowItems \ failed : seenAge[x] <= slowAge
    /\ \A x \in MediumItems \ failed : seenAge[x] <= mediumAge
                                         \/ mediumAge = MediumInterval

\* When the router stops changing, the data converges to it, including the
\* changes of actions that raised and of other administrators.
DataConverges ==
    <>[](\A x \in Items : data[x] = router[x])

=============================================================================
