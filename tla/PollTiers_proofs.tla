-------------------------- MODULE PollTiers_proofs --------------------------
(***************************************************************************)
(* Proofs that an acknowledged change is never forgotten by the poll tiers *)
(* and that no data is older than its timestamp says, for every set of     *)
(* items and actors and every pair of intervals.                           *)
(***************************************************************************)
EXTENDS PollTiers, TLAPS

\* The version an actor made is on the router.
ActionSound ==
    \A a \in Actors :
        action[a].phase = "applied" =>
            action[a].version <= router[action[a].item]

\* Reports never run ahead of the router.
AckedOnRouter == \A x \in Items : acked[x] <= router[x]

\* The results being collected belong to the running gather.
ResultsOfGather == got \cup missed \subseteq Tier(poll.phase)

\* As long as no action was acknowledged since the poll started, everything it
\* has read is at least as new as everything acknowledged.
ReadsCoverAcked ==
    /\ poll.generation <= generation
    /\ poll.generation = generation => \A x \in got : buf[x] >= acked[x]

\* The slow tier stays due until the slow block of a poll that started after
\* the last acknowledgement.
DueUntilRead ==
    poll.phase # "idle" =>
        /\ poll.generation # generation => SlowDue
        /\ poll.phase \in {"core", "slow"} /\ poll.slow => SlowDue
        /\ poll.phase = "slow" => poll.slow

IInv ==
    /\ TypeOK
    /\ ActionSound
    /\ AckedOnRouter
    /\ ResultsOfGather
    /\ ReadsCoverAcked
    /\ DueUntilRead
    /\ AckedChangeNotForgotten

-----------------------------------------------------------------------------

\* Storing the results of a gather keeps every variable it writes well typed.
LEMMA StoreResultsType ==
    ASSUME TypeOK, StoreResults
    PROVE  /\ data' \in [Items -> Nat]
           /\ seenAge' \in [Items -> 0..SlowInterval]
           /\ bufAge' \in [Items -> 0..SlowInterval]
           /\ buf' \in [Items -> Nat]
           /\ failed' \subseteq Items
           /\ got' \subseteq Items
           /\ missed' \subseteq Items
           /\ action' \in [Actors -> ActionStates]
<1>1. \A a \in Actors : [action[a] EXCEPT !.attached = FALSE] \in ActionStates
  <2> SUFFICES ASSUME NEW a \in Actors
               PROVE  [action[a] EXCEPT !.attached = FALSE] \in ActionStates
    OBVIOUS
  <2>1. action[a] \in ActionStates
    BY DEF TypeOK
  <2> QED
    BY <2>1 DEF ActionStates
<1>2. action' \in [Actors -> ActionStates]
  BY <1>1 DEF StoreResults, TypeOK
<1>3. /\ data' \in [Items -> Nat] /\ seenAge' \in [Items -> 0..SlowInterval]
      /\ failed' \subseteq Items
  BY DEF StoreResults, TypeOK
<1>4. /\ buf' \in [Items -> Nat] /\ bufAge' \in [Items -> 0..SlowInterval]
      /\ got' \subseteq Items /\ missed' \subseteq Items
  BY Intervals DEF StoreResults, ForgetResults, TypeOK
<1> QED
  BY <1>2, <1>3, <1>4

\* Every step keeps the state well typed.
LEMMA TypeStep == TypeOK /\ [Next]_vars => TypeOK'
<1> SUFFICES ASSUME TypeOK, [Next]_vars PROVE TypeOK'
  OBVIOUS
<1> USE Tiers, Intervals
<1> USE DEF TypeOK, Phases
<1>1. CASE PollStart
  BY <1>1 DEF PollStart
<1>2. CASE StoreCore
  <2>1. StoreResults
    BY <1>2 DEF StoreCore
  <2> QED
    BY <1>2, <2>1, StoreResultsType DEF StoreCore, IdlePoll
<1>3. CASE StoreSlow
  <2>1. StoreResults
    BY <1>3 DEF StoreSlow
  <2> QED
    BY <1>3, <2>1, StoreResultsType DEF StoreSlow, IdlePoll
<1>4. CASE StoreMedium
  <2>1. StoreResults
    BY <1>4 DEF StoreMedium
  <2> QED
    BY <1>4, <2>1, StoreResultsType DEF StoreMedium, IdlePoll
<1>5. CASE PollAbort
  BY <1>5 DEF PollAbort, ForgetResults, IdlePoll
<1>6. ASSUME NEW x \in Items,
             FetchAnswered(x) \/ FetchFailed(x) \/ ExternalChange(x)
      PROVE  TypeOK'
  BY <1>6 DEF FetchAnswered, FetchFailed, ExternalChange
<1>7. ASSUME NEW a \in Actors, NEW x \in Items, ActionSent(a, x)
      PROVE  TypeOK'
  BY <1>7 DEF ActionSent, ActionStates, pollVars
<1>8. ASSUME NEW a \in Actors, ActionApplied(a)
      PROVE  TypeOK'
  <2> DEFINE v == router[action[a].item] + 1
  <2>1. action[a] \in ActionStates /\ action[a].item \in Items
    BY <1>8 DEF ActionApplied, ActionStates
  <2>2. v \in Nat
    BY <2>1
  <2>3. router' \in [Items -> Nat]
    BY <1>8, <2>1, <2>2 DEF ActionApplied
  <2>4. [action[a] EXCEPT !.phase = "applied", !.version = v] \in ActionStates
    <3> HIDE DEF v
    <3> QED
      BY <2>1, <2>2 DEF ActionStates
  <2>5. action' \in [Actors -> ActionStates]
    BY <1>8, <2>4 DEF ActionApplied
  <2> QED
    BY <1>8, <2>3, <2>5 DEF ActionApplied, pollVars
<1>9. ASSUME NEW a \in Actors, ActionDone(a)
      PROVE  TypeOK'
  <2>1. action[a].item \in Items /\ action[a].version \in Nat
    BY <1>9 DEF ActionDone, ActionStates
  <2>2. NoAction \in ActionStates
    BY DEF ActionStates, NoAction
  <2>3. data' \in [Items -> Nat] /\ acked' \in [Items -> Nat]
    BY <1>9, <2>1 DEF ActionDone
  <2>4. slowAge' \in 0..SlowInterval /\ generation' \in Nat
    BY <1>9 DEF ActionDone, InvalidateSlowPoll
  <2> QED
    BY <1>9, <2>2, <2>3, <2>4 DEF ActionDone
<1>10. ASSUME NEW a \in Actors, ActionRaises(a)
       PROVE  TypeOK'
  <2>1. NoAction \in ActionStates
    BY DEF ActionStates, NoAction
  <2> QED
    BY <1>10, <2>1 DEF ActionRaises, pollVars
<1>11. CASE Tick
  BY <1>11 DEF Tick, Older
<1>12. CASE UNCHANGED vars
  BY <1>12 DEF vars
<1> QED
  BY <1>1, <1>2, <1>3, <1>4, <1>5, <1>6, <1>7, <1>8, <1>9, <1>10, <1>11,
     <1>12 DEF Next, PollStep

-----------------------------------------------------------------------------

\* It holds at the start.
LEMMA InitIInv == Init => IInv
<1> SUFFICES ASSUME Init PROVE IInv
  OBVIOUS
<1>1. TypeOK
  BY Tiers, Intervals
  DEF Init, TypeOK, IdlePoll, Phases, NoAction, ActionStates
<1>2. ActionSound /\ AckedOnRouter /\ ResultsOfGather /\ ReadsCoverAcked
  BY DEF Init, ActionSound, AckedOnRouter, ResultsOfGather, ReadsCoverAcked,
         NoAction, IdlePoll
<1>3. DueUntilRead /\ AckedChangeNotForgotten
  BY DEF Init, DueUntilRead, AckedChangeNotForgotten, IdlePoll, SlowDue
<1> QED
  BY <1>1, <1>2, <1>3 DEF IInv

\* A gather that stores its results leaves no acknowledged change of one of its
\* items behind: the item was read in time, or its fetch failed.
LEMMA StoredCoversAcked ==
    ASSUME IInv, StoreResults, GatherDone, acked' = acked,
           poll.generation = generation,
           NEW x \in Tier(poll.phase)
    PROVE  x \in Items => data'[x] >= acked'[x] \/ x \in failed'
<1> USE DEF IInv
<1>1. x \in got \/ x \in missed
  BY DEF GatherDone
<1>2. CASE x \in missed
  BY <1>2 DEF StoreResults
<1>3. CASE x \in got
  BY <1>3 DEF StoreResults, ReadsCoverAcked
<1> QED
  BY <1>1, <1>2, <1>3

\* Storing a gather does not disturb the items it did not fetch.
LEMMA StoredKeepsOthers ==
    ASSUME IInv, StoreResults, NEW x \in Items, x \notin Tier(poll.phase)
    PROVE  /\ data'[x] = data[x]
           /\ x \in failed <=> x \in failed'
BY DEF IInv, StoreResults, ResultsOfGather

\* Storing never gives an actor a version of its own.
LEMMA StoreKeepsActionSound ==
    ASSUME IInv, StoreResults, router' = router
    PROVE  ActionSound'
<1> SUFFICES ASSUME NEW a \in Actors, action'[a].phase = "applied"
             PROVE  action'[a].version <= router'[action'[a].item]
  BY DEF ActionSound
<1>1. action[a] \in ActionStates
  BY DEF IInv, TypeOK
<1>2. /\ action'[a].phase = action[a].phase
      /\ action'[a].version = action[a].version
      /\ action'[a].item = action[a].item
  BY <1>1 DEF StoreResults, ActionStates
<1> QED
  BY <1>2 DEF IInv, ActionSound

\* Every step keeps it.
LEMMA NextIInv == IInv /\ [Next]_vars => IInv'
<1> SUFFICES ASSUME IInv, [Next]_vars PROVE IInv'
  OBVIOUS
<1> USE Tiers, Intervals
<1>type. TypeOK /\ TypeOK'
  BY TypeStep DEF IInv
<1>1. CASE PollStart
  <2>1. ActionSound' /\ AckedOnRouter' /\ ResultsOfGather' /\ ReadsCoverAcked'
    BY <1>1, <1>type DEF IInv, PollStart, ActionSound, AckedOnRouter,
                         ResultsOfGather, ReadsCoverAcked, TypeOK
  <2>2. DueUntilRead'
    <3>1. slowAge >= SlowInterval => slowAge = SlowInterval
      BY <1>type DEF TypeOK
    <3>2. /\ poll'.phase = "core" /\ poll'.generation = generation'
          /\ poll'.slow = (slowAge >= SlowInterval) /\ slowAge' = slowAge
      BY <1>1 DEF PollStart
    <3> QED
      BY <3>1, <3>2 DEF DueUntilRead, SlowDue
  <2>3. AckedChangeNotForgotten'
    BY <1>1 DEF IInv, PollStart, AckedChangeNotForgotten, SlowDue, WillStore
  <2> QED
    BY <1>type, <2>1, <2>2, <2>3 DEF IInv
<1>2. CASE StoreCore
  <2>1. StoreResults /\ GatherDone
    BY <1>2 DEF StoreCore
  <2>2. ActionSound'
    BY <1>2, <2>1, StoreKeepsActionSound DEF StoreCore
  <2>3. AckedOnRouter' /\ ResultsOfGather' /\ ReadsCoverAcked'
    BY <1>2, <2>1, <1>type DEF IInv, StoreCore, StoreResults, ForgetResults,
        AckedOnRouter, ResultsOfGather, ReadsCoverAcked, IdlePoll, TypeOK
  <2>4. DueUntilRead'
    BY <1>2, <1>type DEF IInv, StoreCore, DueUntilRead, SlowDue, TypeOK,
                         IdlePoll
  <2>5. AckedChangeNotForgotten'
    <3> SUFFICES ASSUME NEW x \in SlowItems \cup MediumItems
                 PROVE  \/ data'[x] >= acked'[x] \/ x \in failed'
                        \/ SlowDue'
                        \/ WillStore(x)'
      BY DEF AckedChangeNotForgotten
    <3>1. x \in Items /\ x \notin Tier(poll.phase)
      BY <1>2 DEF StoreCore, Tier, Items
    <3>2. data'[x] = data[x] /\ (x \in failed <=> x \in failed')
      BY <2>1, <3>1, StoredKeepsOthers
    <3> QED
      BY <1>2, <3>2 DEF IInv, StoreCore, AckedChangeNotForgotten, SlowDue,
                        WillStore
  <2> QED
    BY <1>type, <2>2, <2>3, <2>4, <2>5 DEF IInv
<1>3. CASE StoreSlow
  <2>1. StoreResults /\ GatherDone
    BY <1>3 DEF StoreSlow
  <2>2. ActionSound'
    BY <1>3, <2>1, StoreKeepsActionSound DEF StoreSlow
  <2>3. AckedOnRouter' /\ ResultsOfGather' /\ ReadsCoverAcked'
    BY <1>3, <2>1 DEF IInv, StoreSlow, StoreResults, ForgetResults,
                      AckedOnRouter, ResultsOfGather, ReadsCoverAcked
  <2>4. DueUntilRead'
    BY <1>3, <1>type DEF IInv, StoreSlow, DueUntilRead, SlowDue, TypeOK
  <2>5. AckedChangeNotForgotten'
    <3> SUFFICES ASSUME NEW x \in SlowItems \cup MediumItems
                 PROVE  \/ data'[x] >= acked'[x] \/ x \in failed'
                        \/ SlowDue'
                        \/ WillStore(x)'
      BY DEF AckedChangeNotForgotten
    <3>1. CASE poll.generation # generation
      BY <1>3, <3>1 DEF IInv, StoreSlow, DueUntilRead, SlowDue
    <3>2. CASE poll.generation = generation /\ x \in SlowItems
      <4>1. x \in Tier(poll.phase) /\ x \in Items
        BY <1>3, <3>2 DEF StoreSlow, Tier, Items
      <4> QED
        BY <1>3, <2>1, <3>2, <4>1, StoredCoversAcked DEF StoreSlow
    <3>3. CASE x \in MediumItems
      BY <1>3, <2>1, <1>type, <3>3
      DEF StoreSlow, StoreResults, ForgetResults, WillStore, TypeOK
    <3> QED
      BY <3>1, <3>2, <3>3
  <2> QED
    BY <1>type, <2>2, <2>3, <2>4, <2>5 DEF IInv
<1>4. CASE StoreMedium
  <2>1. StoreResults /\ GatherDone
    BY <1>4 DEF StoreMedium
  <2>2. ActionSound'
    BY <1>4, <2>1, StoreKeepsActionSound DEF StoreMedium
  <2>3. AckedOnRouter' /\ ResultsOfGather' /\ ReadsCoverAcked'
    BY <1>4, <2>1, <1>type DEF IInv, StoreMedium, StoreResults, ForgetResults,
        AckedOnRouter, ResultsOfGather, ReadsCoverAcked, IdlePoll, TypeOK
  <2>4. DueUntilRead'
    BY <1>4 DEF StoreMedium, DueUntilRead, IdlePoll
  <2>5. AckedChangeNotForgotten'
    <3> SUFFICES ASSUME NEW x \in SlowItems \cup MediumItems
                 PROVE  \/ data'[x] >= acked'[x] \/ x \in failed'
                        \/ SlowDue'
                        \/ WillStore(x)'
      BY DEF AckedChangeNotForgotten
    <3>1. CASE poll.generation # generation
      BY <1>4, <3>1 DEF IInv, StoreMedium, DueUntilRead, SlowDue
    <3>2. CASE poll.generation = generation /\ x \in MediumItems
      <4>1. x \in Tier(poll.phase) /\ x \in Items
        BY <1>4, <3>2 DEF StoreMedium, Tier, Items
      <4> QED
        BY <1>4, <2>1, <3>2, <4>1, StoredCoversAcked DEF StoreMedium
    <3>3. CASE x \in SlowItems
      <4>1. x \in Items /\ x \notin Tier(poll.phase) /\ x \notin MediumItems
        BY <1>4, <3>3 DEF StoreMedium, Tier, Items
      <4>2. data'[x] = data[x] /\ (x \in failed <=> x \in failed')
        BY <2>1, <4>1, StoredKeepsOthers
      <4> QED
        BY <1>4, <4>1, <4>2 DEF IInv, StoreMedium, AckedChangeNotForgotten,
                                SlowDue, WillStore
    <3> QED
      BY <3>1, <3>2, <3>3
  <2> QED
    BY <1>type, <2>2, <2>3, <2>4, <2>5 DEF IInv
<1>5. CASE PollAbort
  <2>1. /\ ActionSound' /\ AckedOnRouter' /\ ResultsOfGather'
        /\ ReadsCoverAcked' /\ DueUntilRead'
    BY <1>5, <1>type DEF IInv, PollAbort, ForgetResults, ActionSound,
        AckedOnRouter, ResultsOfGather, ReadsCoverAcked, DueUntilRead, IdlePoll,
        TypeOK
  <2>2. AckedChangeNotForgotten'
    BY <1>5 DEF IInv, PollAbort, AckedChangeNotForgotten, SlowDue, WillStore
  <2> QED
    BY <1>type, <2>1, <2>2 DEF IInv
<1>6. ASSUME NEW x \in Items, FetchAnswered(x)
      PROVE  IInv'
  <2>1. ActionSound' /\ AckedOnRouter' /\ ResultsOfGather' /\ DueUntilRead'
    BY <1>6 DEF IInv, FetchAnswered, Pending, ActionSound, AckedOnRouter,
                ResultsOfGather, DueUntilRead, SlowDue
  <2>2. buf'[x] >= acked'[x]
    BY <1>6, <1>type DEF IInv, FetchAnswered, AckedOnRouter, TypeOK
  <2>3. ReadsCoverAcked'
    BY <1>6, <1>type, <2>2 DEF IInv, FetchAnswered, ReadsCoverAcked, TypeOK
  <2>4. AckedChangeNotForgotten'
    BY <1>6, <1>type, <2>2 DEF IInv, FetchAnswered, AckedChangeNotForgotten,
                               SlowDue, WillStore, TypeOK
  <2> QED
    BY <1>type, <2>1, <2>3, <2>4 DEF IInv
<1>7. ASSUME NEW x \in Items, FetchFailed(x)
      PROVE  IInv'
  <2>1. /\ ActionSound' /\ AckedOnRouter' /\ ResultsOfGather'
        /\ ReadsCoverAcked' /\ DueUntilRead'
    BY <1>7 DEF IInv, FetchFailed, Pending, ActionSound, AckedOnRouter,
                ResultsOfGather, ReadsCoverAcked, DueUntilRead, SlowDue
  <2>2. AckedChangeNotForgotten'
    BY <1>7 DEF IInv, FetchFailed, AckedChangeNotForgotten, SlowDue, WillStore
  <2> QED
    BY <1>type, <2>1, <2>2 DEF IInv
<1>8. ASSUME NEW x \in Items, ExternalChange(x)
      PROVE  IInv'
  <2>1. ActionSound' /\ AckedOnRouter'
    BY <1>8, <1>type DEF IInv, ExternalChange, ActionSound, AckedOnRouter,
                         TypeOK, ActionStates
  <2>2. /\ ResultsOfGather' /\ ReadsCoverAcked' /\ DueUntilRead'
        /\ AckedChangeNotForgotten'
    BY <1>8 DEF IInv, ExternalChange, ResultsOfGather, ReadsCoverAcked,
                DueUntilRead, AckedChangeNotForgotten, SlowDue, WillStore
  <2> QED
    BY <1>type, <2>1, <2>2 DEF IInv
<1>9. ASSUME NEW a \in Actors, NEW x \in Items, ActionSent(a, x)
      PROVE  IInv'
  <2>1. ActionSound'
    BY <1>9, <1>type DEF IInv, ActionSent, ActionSound, TypeOK
  <2>2. /\ AckedOnRouter' /\ ResultsOfGather' /\ ReadsCoverAcked'
        /\ DueUntilRead' /\ AckedChangeNotForgotten'
    BY <1>9 DEF IInv, ActionSent, pollVars, AckedOnRouter, ResultsOfGather,
                ReadsCoverAcked, DueUntilRead, AckedChangeNotForgotten,
                SlowDue, WillStore
  <2> QED
    BY <1>type, <2>1, <2>2 DEF IInv
<1>10. ASSUME NEW a \in Actors, ActionApplied(a)
       PROVE  IInv'
  <2>1. action[a].item \in Items
    BY <1>10, <1>type DEF ActionApplied, TypeOK, ActionStates
  <2>2. \A x \in Items : router'[x] >= router[x]
    BY <1>10, <1>type, <2>1 DEF ActionApplied, TypeOK
  <2>3. AckedOnRouter'
    BY <1>10, <1>type, <2>2 DEF IInv, ActionApplied, AckedOnRouter, TypeOK
  <2>4. ActionSound'
    <3> SUFFICES ASSUME NEW b \in Actors, action'[b].phase = "applied"
                 PROVE  action'[b].version <= router'[action'[b].item]
      BY DEF ActionSound
    <3>1. CASE b = a
      <4>1. /\ action'[a].version = router[action[a].item] + 1
            /\ action'[a].item = action[a].item
        BY <1>10, <1>type DEF ActionApplied, TypeOK, ActionStates
      <4>2. router'[action[a].item] = router[action[a].item] + 1
        BY <1>10, <1>type, <2>1 DEF ActionApplied, TypeOK
      <4> QED
        BY <1>type, <2>1, <3>1, <4>1, <4>2 DEF TypeOK
    <3>2. CASE b # a
      <4>1. action'[b] = action[b] /\ action[b].item \in Items
            /\ action[b].version \in Nat
        BY <1>10, <1>type, <3>2 DEF ActionApplied, TypeOK, ActionStates
      <4> QED
        BY <1>type, <2>2, <4>1 DEF IInv, ActionSound, TypeOK
    <3> QED
      BY <3>1, <3>2
  <2>5. /\ ResultsOfGather' /\ ReadsCoverAcked' /\ DueUntilRead'
        /\ AckedChangeNotForgotten'
    BY <1>10 DEF IInv, ActionApplied, pollVars, ResultsOfGather,
                 ReadsCoverAcked, DueUntilRead, AckedChangeNotForgotten,
                 SlowDue, WillStore
  <2> QED
    BY <1>type, <2>3, <2>4, <2>5 DEF IInv
<1>11. ASSUME NEW a \in Actors, ActionDone(a)
       PROVE  IInv'
  <2>1. action[a].item \in Items /\ action[a].version \in Nat
    BY <1>11, <1>type DEF ActionDone, TypeOK, ActionStates
  <2>2. action[a].version <= router[action[a].item]
    BY <1>11 DEF IInv, ActionSound, ActionDone
  <2>3. AckedOnRouter'
    BY <1>11, <1>type, <2>1, <2>2 DEF IInv, ActionDone, AckedOnRouter, TypeOK
  <2>4. ActionSound'
    BY <1>11, <1>type DEF IInv, ActionDone, ActionSound, TypeOK, NoAction
  <2>5. SlowDue'
    BY <1>11 DEF ActionDone, InvalidateSlowPoll, SlowDue
  <2>6. ResultsOfGather'
    BY <1>11 DEF IInv, ActionDone, ResultsOfGather
  <2>7. ReadsCoverAcked'
    BY <1>11, <1>type
    DEF IInv, ActionDone, InvalidateSlowPoll, ReadsCoverAcked, TypeOK
  <2>8. DueUntilRead' /\ AckedChangeNotForgotten'
    BY <1>11, <2>5 DEF IInv, ActionDone, DueUntilRead, AckedChangeNotForgotten
  <2> QED
    BY <1>type, <2>3, <2>4, <2>6, <2>7, <2>8 DEF IInv
<1>12. ASSUME NEW a \in Actors, ActionRaises(a)
       PROVE  IInv'
  <2>1. ActionSound'
    BY <1>12, <1>type DEF IInv, ActionRaises, ActionSound, TypeOK, NoAction
  <2>2. /\ AckedOnRouter' /\ ResultsOfGather' /\ ReadsCoverAcked'
        /\ DueUntilRead' /\ AckedChangeNotForgotten'
    BY <1>12 DEF IInv, ActionRaises, pollVars, AckedOnRouter, ResultsOfGather,
                 ReadsCoverAcked, DueUntilRead, AckedChangeNotForgotten,
                 SlowDue, WillStore
  <2> QED
    BY <1>type, <2>1, <2>2 DEF IInv
<1>13. CASE Tick
  <2>1. ActionSound' /\ AckedOnRouter'
    BY <1>13 DEF IInv, Tick, ActionSound, AckedOnRouter
  <2>2. poll'.phase = poll.phase /\ poll'.slow = poll.slow
        /\ poll'.generation = poll.generation
    BY <1>13, <1>type DEF Tick, TypeOK
  <2>3. SlowDue => SlowDue'
    BY <1>13 DEF Tick, Older, SlowDue
  <2>4. /\ ResultsOfGather' /\ ReadsCoverAcked' /\ DueUntilRead'
        /\ AckedChangeNotForgotten'
    BY <1>13, <2>2, <2>3 DEF IInv, Tick, ResultsOfGather, ReadsCoverAcked,
                             DueUntilRead, AckedChangeNotForgotten, WillStore
  <2> QED
    BY <1>type, <2>1, <2>4 DEF IInv
<1>14. CASE UNCHANGED vars
  BY <1>14, <1>type DEF vars, IInv, ActionSound, AckedOnRouter, ResultsOfGather,
      ReadsCoverAcked, DueUntilRead, AckedChangeNotForgotten, SlowDue, WillStore
<1> QED
  BY <1>1, <1>2, <1>3, <1>4, <1>5, <1>6, <1>7, <1>8, <1>9, <1>10, <1>11, <1>12,
     <1>13, <1>14 DEF Next, PollStep

\* Every reachable state is well typed.
THEOREM TypeCorrect == Spec => []TypeOK
<1>1. Init => TypeOK
  BY InitIInv DEF IInv
<1>2. QED
  BY <1>1, TypeStep, PTL DEF Spec

\* AckedChangeNotForgotten holds for every set of items and actors, any number
\* of concurrent actions and any pair of intervals.
THEOREM AckedChangeNeverForgotten == Spec => []AckedChangeNotForgotten
<1>1. Init => IInv
  BY InitIInv
<1>2. IInv /\ [Next]_vars => IInv'
  BY NextIInv
<1>3. IInv => AckedChangeNotForgotten
  BY DEF IInv
<1> QED
  BY <1>1, <1>2, <1>3, PTL DEF Spec

-----------------------------------------------------------------------------
(* The age of the data. *)

\* What the running poll has read is no older than the poll.
ReadDuringPoll == \A x \in got : bufAge[x] <= poll.age

AgeInv == ReadDuringPoll /\ NoOlderThanTimestamp

\* Before the first poll nothing is kept that could be old.
LEMMA InitAgeInv == Init => AgeInv
BY Intervals DEF Init, AgeInv, ReadDuringPoll, NoOlderThanTimestamp, Items

\* A step that changes neither the timestamps nor what is known of the data.
LEMMA UnreadKeepsAges ==
    ASSUME AgeInv, UNCHANGED <<slowAge, mediumAge, seenAge, failed>>
    PROVE  NoOlderThanTimestamp'
BY DEF AgeInv, NoOlderThanTimestamp

\* Storing a gather leaves the ages of the items it did not fetch alone, and
\* gives the others the age of their read.
LEMMA StoredAges ==
    ASSUME IInv, AgeInv, StoreResults, GatherDone, NEW x \in Items
    PROVE  /\ x \notin Tier(poll.phase) =>
                 seenAge'[x] = seenAge[x] /\ (x \in failed' <=> x \in failed)
           /\ x \in Tier(poll.phase) /\ x \notin failed' =>
                 seenAge'[x] <= poll.age
<1>1. got \cup missed \subseteq Tier(poll.phase)
  BY DEF IInv, ResultsOfGather
<1>2. seenAge'[x] = IF x \in got THEN bufAge[x] ELSE seenAge[x]
  BY DEF StoreResults
<1>3. failed' = (failed \ got) \cup missed
  BY DEF StoreResults
<1> QED
  BY <1>1, <1>2, <1>3 DEF AgeInv, ReadDuringPoll, GatherDone

\* Every step keeps the bounds on the ages.
LEMMA NextAgeInv == IInv /\ AgeInv /\ [Next]_vars => AgeInv'
<1> SUFFICES ASSUME IInv, AgeInv, [Next]_vars PROVE AgeInv'
  OBVIOUS
<1> USE Tiers, Intervals
<1>type. TypeOK /\ TypeOK'
  BY TypeStep DEF IInv
<1>1. CASE PollStart
  BY <1>1, UnreadKeepsAges DEF PollStart, AgeInv, ReadDuringPoll
<1>2. CASE StoreCore
  <2>1. StoreResults /\ GatherDone
    BY <1>2 DEF StoreCore
  <2>2. ReadDuringPoll'
    BY <2>1 DEF StoreResults, ForgetResults, ReadDuringPoll
  <2>3. ASSUME NEW x \in SlowItems \cup MediumItems
        PROVE  seenAge'[x] = seenAge[x] /\ (x \in failed' <=> x \in failed)
    <3>1. x \in Items /\ x \notin Tier(poll.phase)
      BY <1>2 DEF StoreCore, Tier, Items
    <3> QED
      BY <2>1, <3>1, StoredAges
  <2> QED
    BY <1>2, <2>2, <2>3 DEF StoreCore, AgeInv, NoOlderThanTimestamp
<1>3. CASE StoreSlow
  <2>1. StoreResults /\ GatherDone
    BY <1>3 DEF StoreSlow
  <2>2. ReadDuringPoll'
    BY <2>1 DEF StoreResults, ForgetResults, ReadDuringPoll
  <2>3. ASSUME NEW x \in SlowItems, x \notin failed'
        PROVE  seenAge'[x] <= slowAge'
    <3>1. x \in Items /\ x \in Tier(poll.phase)
      BY <1>3 DEF StoreSlow, Tier, Items
    <3>2. CASE generation = poll.generation
      BY <1>3, <2>1, <2>3, <3>1, <3>2, StoredAges DEF StoreSlow
    <3>3. CASE generation # poll.generation
      <4>1. slowAge' = SlowInterval
        BY <1>3, <3>3 DEF StoreSlow, IInv, DueUntilRead, SlowDue
      <4> QED
        BY <1>type, <3>1, <4>1 DEF TypeOK
    <3> QED
      BY <3>2, <3>3
  <2>4. ASSUME NEW x \in MediumItems
        PROVE  seenAge'[x] = seenAge[x] /\ (x \in failed' <=> x \in failed)
    <3>1. x \in Items /\ x \notin Tier(poll.phase)
      BY <1>3 DEF StoreSlow, Tier, Items
    <3> QED
      BY <2>1, <3>1, StoredAges
  <2> QED
    BY <1>3, <2>2, <2>3, <2>4 DEF StoreSlow, AgeInv, NoOlderThanTimestamp
<1>4. CASE StoreMedium
  <2>1. StoreResults /\ GatherDone
    BY <1>4 DEF StoreMedium
  <2>2. ReadDuringPoll'
    BY <2>1 DEF StoreResults, ForgetResults, ReadDuringPoll
  <2>3. ASSUME NEW x \in MediumItems, x \notin failed'
        PROVE  seenAge'[x] <= mediumAge' \/ mediumAge' = MediumInterval
    <3>1. x \in Items /\ x \in Tier(poll.phase)
      BY <1>4 DEF StoreMedium, Tier, Items
    <3> QED
      BY <1>4, <2>1, <2>3, <3>1, StoredAges DEF StoreMedium
  <2>4. ASSUME NEW x \in SlowItems
        PROVE  seenAge'[x] = seenAge[x] /\ (x \in failed' <=> x \in failed)
    <3>1. x \in Items /\ x \notin Tier(poll.phase)
      BY <1>4 DEF StoreMedium, Tier, Items
    <3> QED
      BY <2>1, <3>1, StoredAges
  <2> QED
    BY <1>4, <2>2, <2>3, <2>4 DEF StoreMedium, AgeInv, NoOlderThanTimestamp
<1>5. CASE PollAbort
  BY <1>5, UnreadKeepsAges DEF PollAbort, ForgetResults, AgeInv, ReadDuringPoll
<1>6. ASSUME NEW x \in Items, FetchAnswered(x)
      PROVE  AgeInv'
  <2>1. ReadDuringPoll'
    BY <1>6, <1>type DEF FetchAnswered, AgeInv, ReadDuringPoll, TypeOK
  <2> QED
    BY <1>6, <2>1, UnreadKeepsAges DEF FetchAnswered, AgeInv
<1>7. ASSUME NEW x \in Items, FetchFailed(x) \/ ExternalChange(x)
      PROVE  AgeInv'
  BY <1>7, UnreadKeepsAges DEF FetchFailed, ExternalChange, AgeInv,
                               ReadDuringPoll
<1>8. ASSUME NEW a \in Actors, NEW x \in Items, ActionSent(a, x)
      PROVE  AgeInv'
  BY <1>8, UnreadKeepsAges DEF ActionSent, pollVars, AgeInv, ReadDuringPoll
<1>9. ASSUME NEW a \in Actors, ActionApplied(a) \/ ActionRaises(a)
      PROVE  AgeInv'
  BY <1>9, UnreadKeepsAges DEF ActionApplied, ActionRaises, pollVars, AgeInv,
                               ReadDuringPoll
<1>10. ASSUME NEW a \in Actors, ActionDone(a)
       PROVE  AgeInv'
  <2>1. slowAge' = SlowInterval /\ UNCHANGED <<mediumAge, seenAge, failed, poll,
                                               got, bufAge>>
    BY <1>10 DEF ActionDone, InvalidateSlowPoll
  <2>2. \A x \in Items : seenAge[x] <= SlowInterval
    BY <1>type DEF TypeOK
  <2> QED
    BY <2>1, <2>2 DEF AgeInv, ReadDuringPoll, NoOlderThanTimestamp, Items
<1>11. CASE Tick
  <2>1. ReadDuringPoll'
    <3>1. got # {} => poll.phase # "idle"
      BY DEF IInv, ResultsOfGather, Tier
    <3>2. ASSUME NEW x \in got
          PROVE  bufAge'[x] <= poll'.age
      <4>1. x \in Items /\ bufAge[x] \in 0..SlowInterval
            /\ poll.age \in 0..SlowInterval /\ bufAge[x] <= poll.age
        BY <1>type DEF TypeOK, AgeInv, ReadDuringPoll
      <4>2. bufAge'[x] = Older(bufAge[x], SlowInterval)
        BY <1>11, <4>1 DEF Tick
      <4>3. poll'.age = Older(poll.age, SlowInterval)
        BY <1>11, <1>type, <3>1 DEF Tick, TypeOK
      <4> QED
        BY <4>1, <4>2, <4>3 DEF Older
    <3> QED
      BY <1>11, <3>2 DEF Tick, ReadDuringPoll
  <2>2. \A x \in Items : /\ seenAge'[x] = Older(seenAge[x], SlowInterval)
                         /\ seenAge[x] \in 0..SlowInterval
    BY <1>11, <1>type DEF Tick, TypeOK
  <2>3. /\ slowAge' = Older(slowAge, SlowInterval) /\ failed' = failed
        /\ mediumAge' = Older(mediumAge, MediumInterval)
        /\ slowAge \in 0..SlowInterval /\ mediumAge \in 0..MediumInterval
    BY <1>11, <1>type DEF Tick, TypeOK
  <2>4. NoOlderThanTimestamp'
    BY <2>2, <2>3 DEF AgeInv, NoOlderThanTimestamp, Older, Items
  <2> QED
    BY <2>1, <2>4 DEF AgeInv
<1>12. CASE UNCHANGED vars
  BY <1>12 DEF vars, AgeInv, ReadDuringPoll, NoOlderThanTimestamp
<1> QED
  BY <1>1, <1>2, <1>3, <1>4, <1>5, <1>6, <1>7, <1>8, <1>9, <1>10, <1>11, <1>12
  DEF Next, PollStep

\* NoOlderThanTimestamp holds for every set of items and any pair of intervals,
\* however long a poll and the fetches in it take.
THEOREM NeverOlderThanTimestamp == Spec => []NoOlderThanTimestamp
<1>1. Init => IInv /\ AgeInv
  BY InitIInv, InitAgeInv
<1>2. IInv /\ AgeInv /\ [Next]_vars => (IInv /\ AgeInv)'
  BY NextIInv, NextAgeInv
<1>3. IInv /\ AgeInv => NoOlderThanTimestamp
  BY DEF AgeInv
<1> QED
  BY <1>1, <1>2, <1>3, PTL DEF Spec
=============================================================================
