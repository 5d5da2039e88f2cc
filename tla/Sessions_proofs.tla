---------------------------- MODULE Sessions_proofs ----------------------------
(***************************************************************************)
(* Proofs about the LuCI and the ubus client, for any number of calls,     *)
(* slots, sessions and tokens: both keep the promise of CallService, and   *)
(* a dead LuCI token costs one login.                                      *)
(***************************************************************************)
EXTENDS MC_Sessions, SshClient_proofs, FiniteSetTheorems

LuciRecords == [phase : Luci!Phases, retried : BOOLEAN, token : Luci!Tokens]

\* A call logs in exactly while it holds the lock, and only in its first attempt.
LuciLoginLocked ==
    \A c \in Calls :
        /\ luciCall[c].phase = "login" <=> luciLock = c
        /\ luciCall[c].phase \in {"locking", "login"} => ~luciCall[c].retried

\* Tokens only grow, so a call never carries one newer than the client's, and a
\* token that calls have replaced is older than it.
LuciTokensGrow ==
    /\ \A c \in Calls : luciCall[c].token <= authToken
    /\ \A t \in Luci!Tokens : renewals[t] # 0 => t < authToken

\* Nobody has replaced the token of a call that is logging in.
LuciLoginNeeded ==
    \A c \in Calls : luciCall[c].phase = "login" => renewals[luciCall[c].token] = 0

LuciIInv ==
    /\ Luci!TypeOK
    /\ LuciLoginLocked
    /\ LuciTokensGrow
    /\ LuciLoginNeeded
    /\ OneLoginPerDeadToken

-----------------------------------------------------------------------------
(* The LuCI client. *)

\* The instances count with the same operators.
LEMMA LuciCounts ==
    /\ \A S : Luci!IsFiniteSet(S) <=> IsFiniteSet(S)
    /\ \A S : Luci!Cardinality(S) = Cardinality(S)
    /\ \A S : Luci!Service!Cardinality(S) = Cardinality(S)
<1>1. \A S : Luci!IsFiniteSet(S) <=> IsFiniteSet(S)
  BY DEF Luci!IsFiniteSet, IsFiniteSet
<1>2. \A S : Luci!Cardinality(S) = Cardinality(S)
  BY DEF Luci!Cardinality, Cardinality
<1>3. \A S : Luci!Service!Cardinality(S) = Cardinality(S)
  BY DEF Luci!Service!Cardinality, Cardinality
<1> QED
  BY <1>1, <1>2, <1>3

\* At the start nobody has a request and the only token is fresh.
LEMMA LuciInitIInv == Luci!Init => LuciIInv
<1> SUFFICES ASSUME Luci!Init PROVE LuciIInv
  OBVIOUS
<1> USE LuciValues DEF Luci!LuciConstants
<1>1. Luci!Posted = {} /\ Cardinality(Luci!Posted) = 0
  BY FS_EmptySet DEF Luci!Init, Luci!Posted, Luci!Idle, Luci!Clients
<1>2. Luci!TypeOK
  <2>1. 1 \in Luci!Tokens
    BY DEF Luci!Tokens
  <2>2. Luci!Idle \in LuciRecords
    BY <2>1 DEF Luci!Idle, Luci!Phases, LuciRecords
  <2>3. /\ luciCall \in [Luci!Clients -> LuciRecords]
        /\ renewals \in [Luci!Tokens -> Nat]
        /\ luciValid \subseteq 1..issued
        /\ Luci!Cardinality(Luci!Posted) <= Slots
    BY <1>1, <2>1, <2>2, LuciCounts DEF Luci!Init
  <2>4. /\ authToken \in Luci!Tokens /\ issued \in Luci!Tokens /\ authToken <= issued
    BY <2>1 DEF Luci!Init
  <2>5. /\ luciConnected \in BOOLEAN /\ failed \in BOOLEAN
        /\ luciLock \in Calls \cup {NoOne}
    BY Zenon DEF Luci!Init
  <2> QED
    BY <2>3, <2>4, <2>5 DEF Luci!TypeOK, LuciRecords
<1>3. LuciLoginLocked /\ LuciTokensGrow /\ LuciLoginNeeded /\ OneLoginPerDeadToken
  BY DEF Luci!Init, Luci!Idle, Luci!Clients, Luci!Tokens, LuciLoginLocked,
         LuciTokensGrow, LuciLoginNeeded, OneLoginPerDeadToken,
         Luci!OneLoginPerDeadToken
<1> QED
  BY <1>2, <1>3 DEF LuciIInv

\* One call moves on: what becomes of the slots and of what the caller sees.
LEMMA LuciMove ==
    ASSUME Luci!TypeOK, NEW c \in Calls, NEW r \in LuciRecords,
           luciCall' = [luciCall EXCEPT ![c] = r]
    PROVE  /\ luciCall' \in [Luci!Clients -> LuciRecords]
           /\ luciCall'[c] = r
           /\ \A d \in Luci!Clients \ {c} : luciCall'[d] = luciCall[d]
           /\ r.phase # "posted" \/ Cardinality(Luci!Posted) < Slots
                 => Cardinality(Luci!Posted)' <= Slots
           /\ Luci!Request' = [Luci!Request EXCEPT ![c] = Luci!AsSeen(r)]
<1> USE LuciValues DEF Luci!LuciConstants, Luci!Clients
<1>1. luciCall \in [Luci!Clients -> LuciRecords]
  BY DEF Luci!TypeOK, LuciRecords
<1>2. /\ luciCall' \in [Luci!Clients -> LuciRecords]
      /\ luciCall'[c] = r
      /\ \A d \in Luci!Clients \ {c} : luciCall'[d] = luciCall[d]
  BY <1>1
<1>3. IsFiniteSet(Luci!Posted) /\ Cardinality(Luci!Posted) \in Nat
      /\ Cardinality(Luci!Posted) <= Slots
  <2>1. IsFiniteSet(Calls) /\ Luci!Posted \in SUBSET Calls
    BY LuciCounts DEF Luci!Posted
  <2>2. Cardinality(Luci!Posted) <= Slots
    BY LuciCounts DEF Luci!TypeOK
  <2> QED
    BY <2>1, <2>2, FS_Subset, FS_CardinalityType
<1>4. r.phase # "posted" => Cardinality(Luci!Posted)' <= Slots
  <2> SUFFICES ASSUME r.phase # "posted" PROVE Cardinality(Luci!Posted)' <= Slots
    OBVIOUS
  <2>1. Luci!Posted' \in SUBSET Luci!Posted
    BY <1>2 DEF Luci!Posted
  <2>2. IsFiniteSet(Luci!Posted') /\ Cardinality(Luci!Posted') <= Cardinality(Luci!Posted)
    BY <1>3, <2>1, FS_Subset
  <2>3. Cardinality(Luci!Posted') \in Nat
    BY <2>2, FS_CardinalityType
  <2> QED
    BY <1>3, <2>2, <2>3
<1>5. Cardinality(Luci!Posted) < Slots => Cardinality(Luci!Posted)' <= Slots
  <2> SUFFICES ASSUME Cardinality(Luci!Posted) < Slots
               PROVE  Cardinality(Luci!Posted)' <= Slots
    OBVIOUS
  <2>1. Luci!Posted' \in SUBSET (Luci!Posted \cup {c})
    BY <1>2 DEF Luci!Posted
  <2>2. /\ IsFiniteSet(Luci!Posted \cup {c})
        /\ \/ Cardinality(Luci!Posted \cup {c}) = Cardinality(Luci!Posted)
           \/ Cardinality(Luci!Posted \cup {c}) = Cardinality(Luci!Posted) + 1
    BY <1>3, FS_AddElement
  <2>3. IsFiniteSet(Luci!Posted')
        /\ Cardinality(Luci!Posted') <= Cardinality(Luci!Posted \cup {c})
    BY <2>1, <2>2, FS_Subset
  <2>4. Cardinality(Luci!Posted') \in Nat /\ Cardinality(Luci!Posted \cup {c}) \in Nat
    BY <2>2, <2>3, FS_CardinalityType
  <2> QED
    BY <1>3, <2>2, <2>3, <2>4
<1>6. Luci!Request' = [Luci!Request EXCEPT ![c] = Luci!AsSeen(r)]
  <2>1. \A d \in Calls : Luci!AsSeen(luciCall'[d])
             = IF d = c THEN Luci!AsSeen(r) ELSE Luci!AsSeen(luciCall[d])
    BY <1>2
  <2>2. Luci!Request' = [d \in Calls |-> Luci!AsSeen(luciCall'[d])]
    BY DEF Luci!Request, Luci!AsSeen
  <2> QED
    BY <2>1, <2>2 DEF Luci!Request
<1> QED
  BY <1>2, <1>4, <1>5, <1>6

\* A call moves on outside of the login.
LEMMA LuciOwnStep ==
    ASSUME LuciIInv, NEW c \in Calls, NEW r \in LuciRecords,
           luciCall' = [luciCall EXCEPT ![c] = r],
           luciCall[c].phase # "login", r.phase # "login",
           r.phase = "locking" => ~r.retried,
           r.token <= authToken,
           r.phase = "posted" => Cardinality(Luci!Posted) < Slots,
           luciConnected' \in BOOLEAN, failed' \in BOOLEAN,
           UNCHANGED <<authToken, luciLock, issued, luciValid, renewals>>
    PROVE  LuciIInv'
<1> USE DEF LuciIInv
<1>1. /\ luciCall' \in [Luci!Clients -> LuciRecords]
      /\ luciCall'[c] = r
      /\ \A d \in Luci!Clients \ {c} : luciCall'[d] = luciCall[d]
      /\ Cardinality(Luci!Posted)' <= Slots
  BY LuciMove
<1>2. Luci!TypeOK'
  BY <1>1, LuciCounts DEF Luci!TypeOK, LuciRecords
<1>3. \A d \in Calls : luciCall'[d] = IF d = c THEN r ELSE luciCall[d]
  BY <1>1 DEF Luci!Clients
<1>4. LuciLoginLocked'
  BY <1>3 DEF LuciLoginLocked
<1>5. LuciTokensGrow' /\ LuciLoginNeeded' /\ OneLoginPerDeadToken'
  BY <1>3 DEF LuciTokensGrow, LuciLoginNeeded, OneLoginPerDeadToken,
              Luci!OneLoginPerDeadToken
<1> QED
  BY <1>2, <1>4, <1>5

\* The shapes a call's locals take.
LEMMA LuciShapes ==
    ASSUME LuciIInv, NEW c \in Calls
    PROVE  /\ luciCall[c] \in LuciRecords
           /\ luciCall[c].token \in Luci!Tokens /\ luciCall[c].retried \in BOOLEAN
           /\ luciCall[c].token <= authToken
           /\ authToken \in Luci!Tokens /\ authToken \in Nat
           /\ Luci!Idle \in LuciRecords /\ Luci!Idle.phase = "idle"
           /\ Luci!Idle.token <= authToken
           /\ \A p \in Luci!Phases, b \in BOOLEAN, t \in Luci!Tokens :
                  [phase |-> p, retried |-> b, token |-> t] \in LuciRecords
           /\ \A p \in Luci!Phases : [luciCall EXCEPT ![c].phase = p]
                = [luciCall EXCEPT ![c] = [phase |-> p, retried |-> luciCall[c].retried,
                                           token |-> luciCall[c].token]]
<1> USE LuciValues DEF Luci!LuciConstants, Luci!Clients
<1>1. luciCall \in [Luci!Clients -> LuciRecords]
  BY DEF LuciIInv, Luci!TypeOK, LuciRecords
<1>2. luciCall[c] \in LuciRecords /\ luciCall[c].token <= authToken
      /\ authToken \in Luci!Tokens /\ authToken \in Nat
  BY <1>1 DEF LuciIInv, LuciTokensGrow, Luci!TypeOK, Luci!Tokens
<1>3. Luci!Idle \in LuciRecords /\ Luci!Idle.phase = "idle" /\ Luci!Idle.token <= authToken
  BY <1>2 DEF Luci!Idle, Luci!Phases, LuciRecords, Luci!Tokens
<1>4. \A p \in Luci!Phases, b \in BOOLEAN, t \in Luci!Tokens :
          [phase |-> p, retried |-> b, token |-> t] \in LuciRecords
  BY DEF LuciRecords
<1>5. ASSUME NEW p \in Luci!Phases
      PROVE  [luciCall EXCEPT ![c].phase = p]
                = [luciCall EXCEPT ![c] = [phase |-> p, retried |-> luciCall[c].retried,
                                           token |-> luciCall[c].token]]
  <2>1. [luciCall[c] EXCEPT !.phase = p]
          = [phase |-> p, retried |-> luciCall[c].retried, token |-> luciCall[c].token]
    BY <1>2 DEF LuciRecords
  <2>2. [luciCall EXCEPT ![c].phase = p]
          = [luciCall EXCEPT ![c] = [luciCall[c] EXCEPT !.phase = p]]
    OBVIOUS
  <2> QED
    BY <2>1, <2>2
<1> QED
  BY <1>2, <1>3, <1>4, <1>5 DEF LuciRecords

\* The steps of a call that do not log in.
LEMMA LuciCallSteps ==
    ASSUME LuciIInv, NEW c \in Calls,
           \/ Luci!CallStart(c) \/ Luci!SlotTaken(c) \/ Luci!Answered(c)
           \/ Luci!Refused(c) \/ Luci!TransportError(c) \/ Luci!ConnectionReset(c)
           \/ Luci!DeniedSeen(c) \/ (Luci!LockTaken(c) /\ luciLock' = luciLock)
    PROVE  LuciIInv'
<1> USE DEF Luci!client, Luci!router
<1>1. luciConnected \in BOOLEAN /\ failed \in BOOLEAN
  BY DEF LuciIInv, Luci!TypeOK
<1> DEFINE with(p) == [phase |-> p, retried |-> luciCall[c].retried,
                       token |-> luciCall[c].token]
           again(b) == [phase |-> "queued", retried |-> b, token |-> authToken]
<1>2. /\ \A p \in Luci!Phases :
             /\ with(p) \in LuciRecords
             /\ [luciCall EXCEPT ![c].phase = p] = [luciCall EXCEPT ![c] = with(p)]
      /\ \A p : with(p).phase = p /\ with(p).token <= authToken
  BY LuciShapes
<1>3. \A b \in BOOLEAN : again(b) \in LuciRecords /\ again(b).token <= authToken
                         /\ again(b).phase = "queued"
  <2>1. authToken \in Luci!Tokens /\ authToken \in Nat
    BY LuciShapes
  <2>2. "queued" \in Luci!Phases /\ authToken <= authToken
    BY <2>1 DEF Luci!Phases
  <2> QED
    BY <2>1, <2>2, LuciShapes
<1>4. /\ Luci!Idle \in LuciRecords /\ Luci!Idle.phase = "idle"
      /\ Luci!Idle.token <= authToken
  BY LuciShapes
<1>5. with("posted").phase = "posted" /\ with("denied").phase = "denied"
      /\ with("locking").phase = "locking" /\ with("locking").retried = luciCall[c].retried
  OBVIOUS
<1>6. luciCall[c].retried \in BOOLEAN
  BY LuciShapes
<1> HIDE DEF with, again
<1>7. CASE Luci!CallStart(c)
  <2>1. luciCall' = [luciCall EXCEPT ![c] = again(FALSE)] /\ luciCall[c].phase = "idle"
        /\ UNCHANGED <<authToken, luciConnected, failed, luciLock, issued, luciValid,
                       renewals>>
    BY <1>7 DEF Luci!CallStart, again
  <2> QED
    BY <1>1, <1>3, <2>1, LuciOwnStep
<1>8. CASE Luci!SlotTaken(c)
  <2>1. luciCall' = [luciCall EXCEPT ![c] = with("posted")]
        /\ luciCall[c].phase = "queued" /\ Cardinality(Luci!Posted) < Slots
        /\ UNCHANGED <<authToken, luciConnected, failed, luciLock, issued, luciValid,
                       renewals>>
    BY <1>2, <1>8, LuciCounts DEF Luci!SlotTaken, Luci!Phases
  <2>2. with("posted") \in LuciRecords
    BY <1>2 DEF Luci!Phases
  <2> QED
    BY <1>1, <1>2, <1>5, <2>1, <2>2, LuciOwnStep
<1>9. CASE Luci!Answered(c) \/ Luci!DeniedSeen(c) \/ Luci!TransportError(c)
  <2>1. luciCall' = [luciCall EXCEPT ![c] = Luci!Idle]
        /\ luciCall[c].phase \in {"posted", "denied"} /\ failed' \in BOOLEAN
        /\ UNCHANGED <<authToken, luciConnected, luciLock, issued, luciValid, renewals>>
    BY <1>1, <1>9 DEF Luci!Answered, Luci!DeniedSeen, Luci!TransportError, Luci!Finish
  <2> QED
    BY <1>1, <1>4, <2>1, LuciOwnStep
<1>10. CASE Luci!Refused(c)
  <2>1. luciCall' = [luciCall EXCEPT ![c] =
                        with(IF luciCall[c].retried THEN "denied" ELSE "locking")]
        /\ luciCall[c].phase = "posted"
        /\ UNCHANGED <<authToken, luciConnected, failed, luciLock, issued, luciValid,
                       renewals>>
    BY <1>2, <1>10 DEF Luci!Refused, Luci!Phases
  <2>2. with("denied") \in LuciRecords /\ with("locking") \in LuciRecords
    BY <1>2 DEF Luci!Phases
  <2> QED
    BY <1>1, <1>2, <1>5, <2>1, <2>2, LuciOwnStep
<1>11. CASE Luci!ConnectionReset(c)
  <2>1. /\ luciCall[c].phase = "posted"
        /\ luciConnected' \in BOOLEAN
        /\ luciCall[c].retried => luciCall' = [luciCall EXCEPT ![c] = Luci!Idle]
        /\ ~luciCall[c].retried => luciCall' = [luciCall EXCEPT ![c] = again(TRUE)]
        /\ UNCHANGED <<authToken, failed, luciLock, issued, luciValid, renewals>>
    BY <1>11 DEF Luci!ConnectionReset, Luci!Finish, Luci!Retry, again
  <2>2. again(TRUE) \in LuciRecords /\ again(TRUE).token <= authToken
        /\ again(TRUE).phase = "queued"
    BY <1>3
  <2>3. CASE luciCall[c].retried
    BY <1>1, <1>4, <2>1, <2>3, LuciOwnStep
  <2>4. CASE ~luciCall[c].retried
    BY <1>1, <2>1, <2>2, <2>4, LuciOwnStep
  <2> QED
    BY <2>3, <2>4
<1>12. CASE Luci!LockTaken(c) /\ luciLock' = luciLock
  <2>1. c # NoOne
    BY LuciValues DEF Luci!LuciConstants, Luci!Clients
  <2>2. luciCall' = [luciCall EXCEPT ![c] = again(TRUE)] /\ luciCall[c].phase = "locking"
        /\ UNCHANGED <<authToken, luciConnected, failed, luciLock, issued, luciValid,
                       renewals>>
    BY <1>12, <2>1 DEF Luci!LockTaken, Luci!Retry, again
  <2>3. again(TRUE) \in LuciRecords /\ again(TRUE).token <= authToken
        /\ again(TRUE).phase = "queued"
    BY <1>3
  <2> QED
    BY <1>1, <2>2, <2>3, LuciOwnStep
<1> QED
  BY <1>7, <1>8, <1>9, <1>10, <1>11, <1>12

\* The first in line finds its own token still current: nobody has replaced it.
LEMMA LuciLoginStarts ==
    ASSUME LuciIInv, NEW c \in Calls, Luci!LockTaken(c), luciLock' # luciLock
    PROVE  LuciIInv'
<1> USE DEF LuciIInv
<1> DEFINE r == [phase |-> "login", retried |-> luciCall[c].retried,
                 token |-> luciCall[c].token]
<1>1. /\ luciCall[c].phase = "locking"
      /\ luciLock = NoOne
      /\ luciLock' = c
      /\ authToken = luciCall[c].token
      /\ luciCall' = [luciCall EXCEPT ![c] = r]
      /\ UNCHANGED <<authToken, luciConnected, failed, issued, luciValid, renewals>>
  BY LuciShapes DEF Luci!LockTaken, Luci!client, Luci!router, Luci!Phases
<1>2. r \in LuciRecords
  BY LuciShapes DEF Luci!Phases
<1>3. /\ luciCall' \in [Luci!Clients -> LuciRecords]
      /\ Cardinality(Luci!Posted)' <= Slots
      /\ \A d \in Calls : luciCall'[d] = IF d = c THEN r ELSE luciCall[d]
  BY <1>1, <1>2, LuciMove DEF Luci!Clients
<1>4. Luci!TypeOK'
  BY <1>1, <1>3, LuciCounts DEF Luci!TypeOK, LuciRecords
<1>5. LuciLoginLocked'
  <2>1. \A d \in Calls : d # NoOne
    BY LuciValues DEF Luci!LuciConstants, Luci!Clients
  <2> QED
    BY <1>1, <1>3, <2>1 DEF LuciLoginLocked
<1>6. renewals[authToken] = 0
  BY LuciShapes, LuciValues DEF LuciTokensGrow, Luci!Tokens
<1>7. LuciTokensGrow' /\ LuciLoginNeeded' /\ OneLoginPerDeadToken'
  BY <1>1, <1>3, <1>6 DEF LuciTokensGrow, LuciLoginNeeded, OneLoginPerDeadToken,
                          Luci!OneLoginPerDeadToken
<1> QED
  BY <1>4, <1>5, <1>7

\* Whoever logs in gets a token newer than all others.
LEMMA LuciNewToken ==
    ASSUME Luci!TypeOK, Luci!LoggedIn
    PROVE  /\ authToken' \in Luci!Tokens /\ issued' \in Luci!Tokens
           /\ authToken' = issued' /\ authToken < authToken'
           /\ luciValid' \subseteq 1..issued'
           /\ luciConnected' \in BOOLEAN
BY LuciValues DEF Luci!LoggedIn, Luci!TypeOK, Luci!Tokens, Luci!LuciConstants

\* A call that logs in replaces the token the client still has.
LEMMA LuciCallLoginDoneStep ==
    ASSUME LuciIInv, NEW c \in Calls, Luci!CallLoginDone(c)
    PROVE  LuciIInv'
<1> USE DEF LuciIInv
<1> DEFINE r == [phase |-> "queued", retried |-> TRUE, token |-> authToken']
           token == luciCall[c].token
<1>1. /\ luciCall[c].phase = "login"
      /\ luciLock' = NoOne /\ failed' = failed
      /\ luciCall' = [luciCall EXCEPT ![c] = r]
      /\ renewals' = [renewals EXCEPT ![token] = @ + 1]
  BY DEF Luci!CallLoginDone, Luci!Retry
<1>2. /\ authToken' \in Luci!Tokens /\ issued' \in Luci!Tokens
      /\ authToken' = issued' /\ authToken < authToken'
      /\ luciValid' \subseteq 1..issued'
      /\ luciConnected' \in BOOLEAN
  BY LuciNewToken DEF Luci!CallLoginDone
<1>3. r \in LuciRecords
  BY <1>2 DEF LuciRecords, Luci!Phases
<1>4. /\ luciCall' \in [Luci!Clients -> LuciRecords]
      /\ Cardinality(Luci!Posted)' <= Slots
      /\ \A d \in Calls : luciCall'[d] = IF d = c THEN r ELSE luciCall[d]
  BY <1>1, <1>3, LuciMove DEF Luci!Clients
<1>5. /\ token \in Luci!Tokens /\ token <= authToken
      /\ renewals \in [Luci!Tokens -> Nat]
      /\ renewals[token] = 0
  BY <1>1, LuciShapes DEF LuciLoginNeeded, Luci!TypeOK
<1>6. \A t \in Luci!Tokens : renewals'[t] = IF t = token THEN 1 ELSE renewals[t]
  BY <1>1, <1>5
<1>7. renewals' \in [Luci!Tokens -> Nat]
  BY <1>1, <1>5
<1>8. Luci!TypeOK'
  <2>1. authToken' <= issued'
    BY <1>2 DEF Luci!Tokens
  <2> QED
    BY <1>1, <1>2, <1>4, <1>7, <2>1, LuciCounts DEF Luci!TypeOK, LuciRecords
<1>9. LuciLoginLocked'
  <2>1. \A d \in Calls : d # NoOne
    BY LuciValues DEF Luci!LuciConstants, Luci!Clients
  <2>2. \A d \in Calls : d # c => luciCall[d].phase # "login"
    BY <1>1 DEF LuciLoginLocked
  <2> QED
    BY <1>1, <1>4, <2>1, <2>2 DEF LuciLoginLocked
<1>10. LuciTokensGrow'
  <2>1. \A t \in Luci!Tokens : t \in Nat
    BY DEF Luci!Tokens
  <2>2. \A d \in Calls : luciCall[d].token \in Luci!Tokens
                         /\ luciCall[d].token <= authToken
    BY LuciShapes
  <2>3. \A d \in Calls : luciCall'[d].token <= authToken'
    BY <1>2, <1>4, <2>1, <2>2 DEF Luci!TypeOK
  <2>4. \A t \in Luci!Tokens : renewals'[t] # 0 => t < authToken'
    BY <1>2, <1>5, <1>6, <2>1 DEF LuciTokensGrow, Luci!TypeOK
  <2> QED
    BY <2>3, <2>4 DEF LuciTokensGrow
<1>11. LuciLoginNeeded'
  BY <1>1, <1>4 DEF LuciLoginNeeded, LuciLoginLocked
<1>12. OneLoginPerDeadToken'
  BY <1>6 DEF OneLoginPerDeadToken, Luci!OneLoginPerDeadToken
<1> QED
  BY <1>8, <1>9, <1>10, <1>11, <1>12

\* A failed login gives the lock back and leaves the token.
LEMMA LuciCallLoginFailsStep ==
    ASSUME LuciIInv, NEW c \in Calls, Luci!CallLoginFails(c)
    PROVE  LuciIInv'
<1> USE DEF LuciIInv
<1>1. /\ luciCall[c].phase = "login"
      /\ luciLock' = NoOne
      /\ luciCall' = [luciCall EXCEPT ![c] = Luci!Idle]
      /\ UNCHANGED <<authToken, luciConnected, failed, issued, luciValid, renewals>>
  BY DEF Luci!CallLoginFails, Luci!Finish, Luci!client, Luci!router
<1>2. Luci!Idle \in LuciRecords /\ Luci!Idle.phase = "idle"
      /\ Luci!Idle.token <= authToken
  BY LuciShapes
<1>3. /\ luciCall' \in [Luci!Clients -> LuciRecords]
      /\ Cardinality(Luci!Posted)' <= Slots
      /\ \A d \in Calls : luciCall'[d] = IF d = c THEN Luci!Idle ELSE luciCall[d]
  BY <1>1, <1>2, LuciMove DEF Luci!Clients
<1>4. Luci!TypeOK'
  BY <1>1, <1>3, LuciCounts DEF Luci!TypeOK, LuciRecords
<1>5. LuciLoginLocked'
  <2>1. \A d \in Calls : d # NoOne
    BY LuciValues DEF Luci!LuciConstants, Luci!Clients
  <2> QED
    BY <1>1, <1>2, <1>3, <2>1 DEF LuciLoginLocked
<1>6. LuciTokensGrow' /\ LuciLoginNeeded' /\ OneLoginPerDeadToken'
  BY <1>1, <1>2, <1>3 DEF LuciTokensGrow, LuciLoginNeeded, OneLoginPerDeadToken,
                          Luci!OneLoginPerDeadToken
<1> QED
  BY <1>4, <1>5, <1>6

\* The coordinator's own connect(), which takes no lock and counts for no token.
LEMMA LuciCoordSteps ==
    ASSUME LuciIInv, Luci!CoordConnects \/ Luci!CoordLoginDone \/ Luci!CoordLoginFails
    PROVE  LuciIInv'
<1> USE DEF LuciIInv
<1>1. luciCall \in [Luci!Clients -> LuciRecords] /\ Coord \in Luci!Clients
      /\ Coord \notin Calls
  BY LuciValues DEF Luci!LuciConstants, Luci!Clients, Luci!TypeOK, LuciRecords
<1>2. PICK r \in LuciRecords : luciCall' = [luciCall EXCEPT ![Coord] = r]
  <2>1. CASE Luci!CoordConnects
    <3>1. [luciCall EXCEPT ![Coord].phase = "login"]
            = [luciCall EXCEPT ![Coord] = [luciCall[Coord] EXCEPT !.phase = "login"]]
      OBVIOUS
    <3>2. [luciCall[Coord] EXCEPT !.phase = "login"] \in LuciRecords
      BY <1>1 DEF LuciRecords, Luci!Phases
    <3> QED
      BY <2>1, <3>1, <3>2 DEF Luci!CoordConnects
  <2>2. CASE ~Luci!CoordConnects
    <3>1. Luci!Idle \in LuciRecords
      BY LuciValues DEF Luci!LuciConstants, Luci!Idle, Luci!Phases, Luci!Tokens,
                        LuciRecords
    <3> QED
      BY <2>2, <3>1 DEF Luci!CoordLoginDone, Luci!CoordLoginFails, Luci!Finish
  <2> QED
    BY <2>1, <2>2
<1>3. /\ luciCall' \in [Luci!Clients -> LuciRecords]
      /\ \A d \in Calls : luciCall'[d] = luciCall[d]
      /\ Luci!Posted' = Luci!Posted
  BY <1>1, <1>2 DEF Luci!Posted, Luci!Clients
<1>4. UNCHANGED <<luciLock, renewals>>
  BY DEF Luci!CoordConnects, Luci!CoordLoginDone, Luci!CoordLoginFails
<1>5. /\ authToken' \in Luci!Tokens /\ issued' \in Luci!Tokens
      /\ authToken' <= issued' /\ authToken <= authToken'
      /\ luciValid' \subseteq 1..issued'
      /\ luciConnected' \in BOOLEAN /\ failed' \in BOOLEAN
  <2>1. CASE Luci!CoordLoginDone
    BY <2>1, LuciNewToken DEF Luci!CoordLoginDone, Luci!TypeOK, Luci!Tokens
  <2>2. CASE Luci!CoordConnects \/ Luci!CoordLoginFails
    <3>1. UNCHANGED <<authToken, issued, luciValid>>
      BY <2>2 DEF Luci!CoordConnects, Luci!CoordLoginFails, Luci!router
    <3>2. luciConnected' \in BOOLEAN /\ failed' \in BOOLEAN
      BY <2>2 DEF Luci!CoordConnects, Luci!CoordLoginFails, Luci!TypeOK
    <3> QED
      BY <3>1, <3>2 DEF Luci!TypeOK, Luci!Tokens
  <2> QED
    BY <2>1, <2>2
<1>6. Luci!TypeOK'
  BY <1>3, <1>4, <1>5, LuciCounts DEF Luci!TypeOK, LuciRecords
<1>7. LuciTokensGrow'
  BY <1>3, <1>4, <1>5, LuciShapes DEF LuciTokensGrow, Luci!TypeOK, Luci!Tokens
<1>8. LuciLoginLocked' /\ LuciLoginNeeded' /\ OneLoginPerDeadToken'
  BY <1>3, <1>4 DEF LuciLoginLocked, LuciLoginNeeded, OneLoginPerDeadToken,
                    Luci!OneLoginPerDeadToken
<1> QED
  BY <1>6, <1>7, <1>8

\* One step per action; the router only takes tokens away.
LEMMA LuciNextIInv == LuciIInv /\ [Luci!Next]_luciVars => LuciIInv'
<1> SUFFICES ASSUME LuciIInv, [Luci!Next]_luciVars PROVE LuciIInv'
  OBVIOUS
<1>1. ASSUME NEW c \in Calls,
             Luci!CallStart(c) \/ Luci!CallStep(c) \/ Luci!DeniedSeen(c)
      PROVE  LuciIInv'
  BY <1>1, LuciCallSteps, LuciLoginStarts, LuciCallLoginDoneStep, LuciCallLoginFailsStep
     DEF Luci!CallStep
<1>2. ASSUME NEW t \in Luci!Tokens, Luci!TokenExpires(t)
      PROVE  LuciIInv'
  <2>1. /\ luciValid' \subseteq luciValid
        /\ UNCHANGED <<authToken, luciConnected, failed, luciLock, luciCall, issued,
                       renewals>>
    BY <1>2 DEF Luci!TokenExpires, Luci!client
  <2> QED
    BY <2>1 DEF LuciIInv, Luci!TypeOK, Luci!Posted, LuciLoginLocked, LuciTokensGrow,
                LuciLoginNeeded, OneLoginPerDeadToken, Luci!OneLoginPerDeadToken
<1>3. CASE UNCHANGED luciVars
  BY <1>3 DEF luciVars, LuciIInv, Luci!TypeOK, Luci!Posted, LuciLoginLocked,
              LuciTokensGrow, LuciLoginNeeded, OneLoginPerDeadToken,
              Luci!OneLoginPerDeadToken
<1> QED
  BY <1>1, <1>2, <1>3, LuciCoordSteps DEF Luci!Next

-----------------------------------------------------------------------------
(* The LuCI client implements CallService: every step of a call is a step  *)
(* of its request, and nobody else touches it.                             *)

\* At the start no request is on its way.
LEMMA LuciRefinesInit == Luci!Init => Luci!Service!Init
BY DEF Luci!Init, Luci!Service!Init, Luci!Request, Luci!AsSeen, Luci!Idle, Luci!Clients

\* The requests on their way are the posted ones.
LEMMA LuciSentIsPosted ==
    Luci!Service!Sent = Luci!Posted
<1>1. ASSUME NEW c \in Calls
      PROVE  Luci!Request[c].at = "sent" <=> luciCall[c].phase = "posted"
  BY DEF Luci!Request, Luci!AsSeen
<1> QED
  BY <1>1 DEF Luci!Service!Sent, Luci!Posted

\* Every step of a call is one step of its request, or none while it takes the lock.
LEMMA LuciCallRefines ==
    ASSUME LuciIInv, LuciIInv', NEW c \in Calls,
           Luci!CallStart(c) \/ Luci!CallStep(c) \/ Luci!DeniedSeen(c)
    PROVE  [Luci!Service!Next]_(Luci!Request)
<1> DEFINE l == luciCall[c]
           request == Luci!Request
           count == IF l.retried THEN 2 ELSE 1
           with(p) == [phase |-> p, retried |-> l.retried, token |-> l.token]
           again(b) == [phase |-> "queued", retried |-> b, token |-> authToken']
           becomes(r) == luciCall' = [luciCall EXCEPT ![c] = r]
           moves(m, at) == request' = [request EXCEPT ![c] = [made |-> m, at |-> at]]
<1>1. l \in LuciRecords /\ l.retried \in BOOLEAN /\ request[c] = Luci!AsSeen(l)
  BY LuciShapes DEF Luci!Request
<1>2. /\ l.phase = "idle" => request[c] = [made |-> 0, at |-> "idle"]
      /\ l.phase = "denied" => request[c] = [made |-> 0, at |-> "refused"]
      /\ l.phase = "posted" => request[c] = [made |-> count, at |-> "sent"]
      /\ l.phase \in {"queued", "locking", "login"}
            => request[c] = [made |-> count, at |-> "waiting"]
  BY <1>1 DEF Luci!AsSeen
<1>3. ASSUME NEW r \in LuciRecords, becomes(r)
      PROVE  request' = [request EXCEPT ![c] = Luci!AsSeen(r)]
  BY <1>3, LuciMove DEF LuciIInv
<1>4. ASSUME NEW p \in Luci!Phases
      PROVE  /\ with(p) \in LuciRecords
             /\ [luciCall EXCEPT ![c].phase = p] = [luciCall EXCEPT ![c] = with(p)]
  BY LuciShapes
<1>5. \A b \in BOOLEAN : again(b) \in LuciRecords
  BY DEF LuciIInv, Luci!TypeOK, LuciRecords, Luci!Phases
<1>6. Luci!Idle \in LuciRecords
  BY LuciShapes
\* what each of the locals a call can get looks like to its caller
<1>7. becomes(Luci!Idle) => moves(0, "idle")
  <2>1. Luci!AsSeen(Luci!Idle) = [made |-> 0, at |-> "idle"]
    BY DEF Luci!AsSeen, Luci!Idle
  <2> QED
    BY <1>3, <1>6, <2>1
<1>8. /\ becomes(again(FALSE)) => moves(1, "waiting")
      /\ becomes(again(TRUE)) => moves(2, "waiting")
  <2>1. /\ Luci!AsSeen(again(FALSE)) = [made |-> 1, at |-> "waiting"]
        /\ Luci!AsSeen(again(TRUE)) = [made |-> 2, at |-> "waiting"]
    BY DEF Luci!AsSeen
  <2> HIDE DEF again
  <2> QED
    BY <1>3, <1>5, <2>1
<1>9. /\ becomes(with("posted")) => moves(count, "sent")
      /\ becomes(with("denied")) => moves(0, "refused")
      /\ becomes(with("locking")) => moves(count, "waiting")
      /\ becomes(with("login")) => moves(count, "waiting")
  <2>1. /\ Luci!AsSeen(with("posted")) = [made |-> count, at |-> "sent"]
        /\ Luci!AsSeen(with("denied")) = [made |-> 0, at |-> "refused"]
        /\ Luci!AsSeen(with("locking")) = [made |-> count, at |-> "waiting"]
        /\ Luci!AsSeen(with("login")) = [made |-> count, at |-> "waiting"]
    BY DEF Luci!AsSeen
  <2>2. \A p \in {"posted", "denied", "locking", "login"} : with(p) \in LuciRecords
    BY <1>4 DEF Luci!Phases
  <2> HIDE DEF with, count
  <2> QED
    BY <1>3, <2>1, <2>2
<1>10. /\ \A p \in {"posted", "denied", "locking", "login"} :
             luciCall' = [luciCall EXCEPT ![c].phase = p] => becomes(with(p))
  BY <1>4 DEF Luci!Phases
<1> HIDE DEF becomes, with, again
<1> DEFINE step == Luci!Service!Ask(c) \/ Luci!Service!Send(c) \/ Luci!Service!Renew(c)
                     \/ Luci!Service!Repeat(c) \/ Luci!Service!Return(c)
                     \/ Luci!Service!Refuse(c)
<1> USE DEF Luci!Service!Becomes
<1>11. CASE Luci!CallStart(c)
  <2>1. l.phase = "idle" /\ becomes(again(FALSE))
    BY <1>11 DEF Luci!CallStart, Luci!client, becomes, again
  <2>2. Luci!Service!Ask(c)
    BY <1>2, <1>8, <2>1 DEF Luci!Service!Ask
  <2> QED
    BY <2>2 DEF Luci!Service!Next
<1>12. CASE Luci!SlotTaken(c)
  <2>1. l.phase = "queued" /\ becomes(with("posted"))
        /\ Cardinality(Luci!Posted) < Slots
    BY <1>10, <1>12, LuciCounts DEF Luci!SlotTaken
  <2>2. Luci!Service!Cardinality(Luci!Service!Sent) < Slots
    BY <2>1, LuciSentIsPosted, LuciCounts
  <2>3. Luci!Service!Send(c)
    BY <1>2, <1>9, <2>1, <2>2 DEF Luci!Service!Send
  <2> QED
    BY <2>3 DEF Luci!Service!Next
<1>13. CASE Luci!Answered(c) \/ Luci!TransportError(c) \/ Luci!DeniedSeen(c)
              \/ Luci!CallLoginFails(c)
  <2>1. l.phase \in {"posted", "denied", "login"} /\ becomes(Luci!Idle)
    BY <1>13 DEF Luci!Answered, Luci!TransportError, Luci!DeniedSeen,
                 Luci!CallLoginFails, Luci!Finish, becomes
  <2>2. Luci!Service!Return(c)
    BY <1>2, <1>7, <2>1 DEF Luci!Service!Return
  <2> QED
    BY <2>2 DEF Luci!Service!Next
<1>14. CASE Luci!Refused(c)
  <2>1. l.phase = "posted"
        /\ (l.retried => becomes(with("denied")))
        /\ (~l.retried => becomes(with("locking")))
    BY <1>10, <1>14 DEF Luci!Refused
  <2>2. Luci!Service!Refuse(c) \/ Luci!Service!Renew(c)
    BY <1>1, <1>2, <1>9, <2>1 DEF Luci!Service!Refuse, Luci!Service!Renew
  <2> QED
    BY <2>2 DEF Luci!Service!Next
<1>15. CASE Luci!ConnectionReset(c)
  <2>1. l.phase = "posted"
        /\ (l.retried => becomes(Luci!Idle))
        /\ (~l.retried => becomes(again(TRUE)))
    BY <1>15 DEF Luci!ConnectionReset, Luci!Finish, Luci!Retry, becomes, again
  <2>2. l.retried => Luci!Service!Return(c)
    BY <1>2, <1>7, <2>1 DEF Luci!Service!Return
  <2>3. ~l.retried => Luci!Service!Repeat(c)
    <3> SUFFICES ASSUME ~l.retried PROVE Luci!Service!Repeat(c)
      OBVIOUS
    <3>1. request[c].made = 1
      BY <1>2, <2>1
    <3> QED
      BY <1>8, <2>1, <3>1 DEF Luci!Service!Repeat
  <2> QED
    BY <2>2, <2>3 DEF Luci!Service!Next
<1>16. CASE Luci!LockTaken(c)
  <2>1. l.phase = "locking" /\ ~l.retried
    BY <1>16 DEF Luci!LockTaken, LuciIInv, LuciLoginLocked
  <2>2. becomes(with("login")) \/ becomes(again(TRUE))
    BY <1>10, <1>16 DEF Luci!LockTaken, Luci!Retry, becomes, again
  <2>3. CASE becomes(again(TRUE))
    <3>1. Luci!Service!Repeat(c)
      BY <1>2, <1>8, <2>1, <2>3 DEF Luci!Service!Repeat
    <3> QED
      BY <3>1 DEF Luci!Service!Next
  <2>4. CASE becomes(with("login"))
    <3>1. request' = [request EXCEPT ![c] = request[c]]
      BY <1>2, <1>9, <2>1, <2>4
    <3>2. request' = request
      BY <3>1 DEF Luci!Request
    <3> QED
      BY <3>2
  <2> QED
    BY <2>2, <2>3, <2>4
<1>17. CASE Luci!CallLoginDone(c)
  <2>1. l.phase = "login" /\ ~l.retried /\ becomes(again(TRUE))
    BY <1>17 DEF Luci!CallLoginDone, Luci!Retry, becomes, again, LuciIInv,
                 LuciLoginLocked
  <2>2. Luci!Service!Repeat(c)
    BY <1>2, <1>8, <2>1 DEF Luci!Service!Repeat
  <2> QED
    BY <2>2 DEF Luci!Service!Next
<1> QED
  BY <1>11, <1>12, <1>13, <1>14, <1>15, <1>16, <1>17 DEF Luci!CallStep

\* The coordinator and the router do not touch the requests.
LEMMA LuciRefinesNext ==
    LuciIInv /\ LuciIInv' /\ [Luci!Next]_luciVars => [Luci!Service!Next]_(Luci!Request)
<1> SUFFICES ASSUME LuciIInv, LuciIInv', [Luci!Next]_luciVars
             PROVE  [Luci!Service!Next]_(Luci!Request)
  OBVIOUS
<1>1. CASE \E c \in Calls : Luci!CallStart(c) \/ Luci!CallStep(c) \/ Luci!DeniedSeen(c)
  BY <1>1, LuciCallRefines
<1>2. ASSUME \A c \in Calls : luciCall'[c] = luciCall[c]
      PROVE  UNCHANGED Luci!Request
  BY <1>2 DEF Luci!Request, Luci!AsSeen
<1>3. CASE Luci!CoordConnects \/ Luci!CoordLoginDone \/ Luci!CoordLoginFails
  <2>1. \A c \in Calls : luciCall'[c] = luciCall[c]
    BY <1>3, LuciValues
       DEF Luci!CoordConnects, Luci!CoordLoginDone, Luci!CoordLoginFails, Luci!Finish,
           Luci!LuciConstants, LuciIInv, Luci!TypeOK, Luci!Clients
  <2> QED
    BY <1>2, <2>1
<1>4. CASE (\E t \in Luci!Tokens : Luci!TokenExpires(t)) \/ UNCHANGED luciVars
  <2>1. luciCall' = luciCall
    BY <1>4 DEF Luci!TokenExpires, luciVars
  <2> QED
    BY <1>2, <2>1
<1> QED
  BY <1>1, <1>3, <1>4 DEF Luci!Next

-----------------------------------------------------------------------------
(* The ubus client.                                                        *)

UbusRecords == [phase : Ubus!Phases, retried : BOOLEAN, token : Ubus!Sessions,
                probe : Ubus!Sessions]

InSlot == {"posted", "probing"}

\* Only a first attempt looks into a refusal and logs in.
UbusFirstAttempt ==
    \A c \in Calls :
        ubusCall[c].phase \in {"probing", "locking", "login"} => ~ubusCall[c].retried

UbusIInv == Ubus!TypeOK /\ UbusFirstAttempt

\* A client goes on with the locals r: its slot and the lock go with them.
UbusBecomes(c, r) ==
    /\ r \in UbusRecords
    /\ ubusCall' = [ubusCall EXCEPT ![c] = r]
    /\ holding' = IF c \in Calls /\ r.phase \in InSlot THEN holding \cup {c}
                  ELSE holding \ {c}
    /\ r.phase = "login" => ubusLock = NoOne
    /\ ubusLock' = IF r.phase = "login" THEN c
                   ELSE IF ubusCall[c].phase = "login" THEN NoOne ELSE ubusLock
    /\ c \in Calls /\ r.phase \in {"probing", "locking", "login"} => ~r.retried
    /\ session' \in Ubus!Sessions /\ ubusValid' \subseteq Ubus!Sessions
    /\ ubusConnected' \in BOOLEAN /\ recent' \in BOOLEAN

\* The ways a call gets from the locals l to the locals r.
UbusKind(l, r) ==
    \/ l.phase = "idle" /\ r.phase = "queued" /\ ~r.retried
    \/ /\ l.phase = "queued" /\ r.phase = "posted" /\ r.retried = l.retried
       /\ Cardinality(holding) < Slots
    \/ l.phase # "idle" /\ r.phase = "idle"
    \/ l.phase \in InSlot /\ r.phase = "denied"
    \/ l.phase \in InSlot /\ ~l.retried /\ r.phase = "locking" /\ ~r.retried
    \/ l.phase \notin {"idle", "denied"} /\ ~l.retried /\ r.phase = "queued" /\ r.retried
    \/ l.phase \in InSlot /\ r.phase \in InSlot /\ r.retried = l.retried
    \/ l.phase = "locking" /\ r.phase = "login" /\ r.retried = l.retried

\* The instances count with the same operator.
LEMMA UbusCounts ==
    /\ \A S : Ubus!Cardinality(S) = Cardinality(S)
    /\ \A S : Ubus!Service!Cardinality(S) = Cardinality(S)
<1>1. \A S : Ubus!Cardinality(S) = Cardinality(S)
  BY DEF Ubus!Cardinality, Cardinality
<1>2. \A S : Ubus!Service!Cardinality(S) = Cardinality(S)
  BY DEF Ubus!Service!Cardinality, Cardinality
<1> QED
  BY <1>1, <1>2

\* The locals of a call that is not running.
LEMMA UbusIdle == Ubus!Idle \in UbusRecords /\ Ubus!Idle.phase = "idle"
                  /\ Ubus!Idle.retried = FALSE
<1>1. 1 \in Ubus!Sessions
  BY UbusValues DEF Ubus!UbusConstants, Ubus!Sessions
<1> QED
  BY <1>1 DEF Ubus!Idle, Ubus!Phases, UbusRecords

\* At the start nobody holds a slot or the lock.
LEMMA UbusInitIInv == Ubus!Init => UbusIInv
<1> SUFFICES ASSUME Ubus!Init PROVE UbusIInv
  OBVIOUS
<1>1. /\ ubusCall \in [Ubus!Clients -> UbusRecords]
      /\ \A c \in Ubus!Clients : ubusCall[c].phase = "idle"
  BY UbusIdle DEF Ubus!Init
<1>2. session \in Ubus!Sessions /\ ubusValid \subseteq Ubus!Sessions
  BY UbusValues DEF Ubus!Init, Ubus!UbusConstants, Ubus!Sessions
<1>3. \A c \in Ubus!Clients : c # NoOne
  BY UbusValues DEF Ubus!UbusConstants
<1>4. ubusLock = NoOne /\ holding = {} /\ ubusConnected \in BOOLEAN /\ recent \in BOOLEAN
  BY Zenon DEF Ubus!Init
<1>5. Ubus!TypeOK
  BY <1>1, <1>2, <1>3, <1>4 DEF Ubus!TypeOK, UbusRecords, Ubus!Clients
<1>6. UbusFirstAttempt
  BY <1>1 DEF UbusFirstAttempt, Ubus!Clients
<1> QED
  BY <1>5, <1>6 DEF UbusIInv

\* A client that goes on, with its slot and the lock, keeps the invariant.
LEMMA UbusStep ==
    ASSUME UbusIInv, NEW c \in Ubus!Clients, NEW r, UbusBecomes(c, r)
    PROVE  /\ UbusIInv'
           /\ \A d \in Ubus!Clients : ubusCall'[d] = IF d = c THEN r ELSE ubusCall[d]
<1> USE DEF UbusIInv, UbusBecomes
<1>1. /\ ubusCall \in [Ubus!Clients -> UbusRecords]
      /\ Calls \subseteq Ubus!Clients
      /\ \A d \in Ubus!Clients : d # NoOne
  BY UbusValues DEF Ubus!TypeOK, UbusRecords, Ubus!Clients, Ubus!UbusConstants
<1>2. /\ ubusCall' \in [Ubus!Clients -> UbusRecords]
      /\ \A d \in Ubus!Clients : ubusCall'[d] = IF d = c THEN r ELSE ubusCall[d]
  BY <1>1
<1>3. \A d \in Ubus!Clients : ubusLock' = d <=> ubusCall'[d].phase = "login"
  BY <1>1, <1>2 DEF Ubus!TypeOK
<1>4. \A d \in Calls : d \in holding' <=> ubusCall'[d].phase \in InSlot
  BY <1>1, <1>2 DEF Ubus!TypeOK, InSlot
<1>5. Ubus!TypeOK'
  <2>1. holding' \subseteq Calls /\ ubusLock' \in Ubus!Clients \cup {NoOne}
    BY DEF Ubus!TypeOK
  <2> QED
    BY <1>2, <1>3, <1>4, <2>1 DEF Ubus!TypeOK, UbusRecords, InSlot
<1>6. UbusFirstAttempt'
  BY <1>1, <1>2 DEF UbusFirstAttempt
<1> QED
  BY <1>2, <1>5, <1>6

\* What is known of a client's locals, its slot and the lock.
LEMMA UbusShapes ==
    ASSUME UbusIInv, NEW c \in Ubus!Clients
    PROVE  /\ ubusCall[c] \in UbusRecords /\ ubusCall[c].retried \in BOOLEAN
           /\ session \in Ubus!Sessions /\ ubusValid \subseteq Ubus!Sessions
           /\ ubusConnected \in BOOLEAN /\ recent \in BOOLEAN
           /\ c # NoOne
           /\ ubusLock = c <=> ubusCall[c].phase = "login"
           /\ c \in holding <=> c \in Calls /\ ubusCall[c].phase \in InSlot
           /\ c \in Calls /\ ubusCall[c].phase \in {"probing", "locking", "login"}
                 => ~ubusCall[c].retried
<1>1. ubusCall[c] \in UbusRecords /\ ubusCall[c].retried \in BOOLEAN
  BY DEF UbusIInv, Ubus!TypeOK, UbusRecords
<1>2. /\ session \in Ubus!Sessions /\ ubusValid \subseteq Ubus!Sessions
      /\ ubusConnected \in BOOLEAN /\ recent \in BOOLEAN
      /\ ubusLock = c <=> ubusCall[c].phase = "login"
      /\ c \in holding <=> c \in Calls /\ ubusCall[c].phase \in InSlot
  BY DEF UbusIInv, Ubus!TypeOK, InSlot
<1>3. c # NoOne
  BY UbusValues DEF Ubus!UbusConstants
<1>4. c \in Calls /\ ubusCall[c].phase \in {"probing", "locking", "login"}
         => ~ubusCall[c].retried
  BY DEF UbusIInv, UbusFirstAttempt
<1> QED
  BY <1>1, <1>2, <1>3, <1>4

\* Only the phase changes.
LEMMA UbusPhase ==
    ASSUME UbusIInv, NEW c \in Ubus!Clients, NEW p \in Ubus!Phases
    PROVE  LET l == ubusCall[c]
               r == [phase |-> p, retried |-> l.retried, token |-> l.token,
                     probe |-> l.probe]
           IN /\ r \in UbusRecords
              /\ [ubusCall EXCEPT ![c].phase = p] = [ubusCall EXCEPT ![c] = r]
<1> DEFINE l == ubusCall[c]
           r == [phase |-> p, retried |-> l.retried, token |-> l.token, probe |-> l.probe]
<1>1. l \in UbusRecords
  BY UbusShapes
<1>2. [l EXCEPT !.phase = p] = r /\ r \in UbusRecords
  BY <1>1 DEF UbusRecords
<1>3. [ubusCall EXCEPT ![c].phase = p] = [ubusCall EXCEPT ![c] = [l EXCEPT !.phase = p]]
  OBVIOUS
<1> QED
  BY <1>2, <1>3

\* Changing one field of a client's locals changes that field.
LEMMA UbusField ==
    ASSUME NEW l \in UbusRecords
    PROVE  /\ \A p \in Ubus!Phases :
                 /\ [l EXCEPT !.phase = p] = [phase |-> p, retried |-> l.retried,
                                              token |-> l.token, probe |-> l.probe]
                 /\ [l EXCEPT !.phase = p] \in UbusRecords
           /\ \A b \in BOOLEAN :
                 /\ [l EXCEPT !.retried = b] = [phase |-> l.phase, retried |-> b,
                                                token |-> l.token, probe |-> l.probe]
                 /\ [l EXCEPT !.retried = b] \in UbusRecords
           /\ \A s \in Ubus!Sessions :
                 /\ [l EXCEPT !.token = s] = [phase |-> l.phase, retried |-> l.retried,
                                              token |-> s, probe |-> l.probe]
                 /\ [l EXCEPT !.probe = s] = [phase |-> l.phase, retried |-> l.retried,
                                              token |-> l.token, probe |-> s]
BY DEF UbusRecords

\* A call that starts, or tries again, is queued with the current session.
Queued(b, s) == [phase |-> "queued", retried |-> b, token |-> s, probe |-> 1]

\* What the three ways to be queued write are the same locals.
LEMMA UbusQueued ==
    ASSUME NEW b \in BOOLEAN, NEW s \in Ubus!Sessions
    PROVE  /\ Queued(b, s) \in UbusRecords
           /\ Queued(b, s).phase = "queued" /\ Queued(b, s).retried = b
           /\ [Ubus!Idle EXCEPT !.phase = "queued", !.retried = b, !.token = s]
                 = Queued(b, s)
           /\ b = FALSE => [Ubus!Idle EXCEPT !.phase = "queued", !.token = s]
                              = Queued(b, s)
<1> DEFINE idle == Ubus!Idle
           i1 == [idle EXCEPT !.phase = "queued"]
           i2 == [i1 EXCEPT !.retried = b]
<1>1. 1 \in Ubus!Sessions /\ "queued" \in Ubus!Phases
  BY UbusValues DEF Ubus!UbusConstants, Ubus!Sessions, Ubus!Phases
<1>2. Queued(b, s) \in UbusRecords
  BY <1>1 DEF Queued, UbusRecords
<1>3. Queued(b, s).phase = "queued" /\ Queued(b, s).retried = b
  BY DEF Queued
<1>4. /\ [Ubus!Idle EXCEPT !.phase = "queued", !.retried = b, !.token = s]
            = [i2 EXCEPT !.token = s]
      /\ [Ubus!Idle EXCEPT !.phase = "queued", !.token = s] = [i1 EXCEPT !.token = s]
  OBVIOUS
<1>5. /\ idle \in UbusRecords /\ idle.retried = FALSE /\ idle.token = 1
      /\ idle.probe = 1
  BY UbusIdle DEF Ubus!Idle
<1> HIDE DEF idle
<1>6. /\ i1 \in UbusRecords
      /\ i1 = [phase |-> "queued", retried |-> idle.retried, token |-> idle.token,
               probe |-> idle.probe]
  BY <1>1, <1>5, UbusField
<1> HIDE DEF i1
<1>7. /\ i2 \in UbusRecords
      /\ i2 = [phase |-> i1.phase, retried |-> b, token |-> i1.token, probe |-> i1.probe]
  BY <1>6, UbusField
<1> HIDE DEF i2
<1>8. [i2 EXCEPT !.token = s] = Queued(b, s)
  <2>1. [i2 EXCEPT !.token = s] = [phase |-> i2.phase, retried |-> i2.retried,
                                   token |-> s, probe |-> i2.probe]
    BY <1>7, UbusField
  <2>2. i2.phase = "queued" /\ i2.retried = b /\ i2.probe = 1
    BY <1>5, <1>6, <1>7
  <2> QED
    BY <2>1, <2>2 DEF Queued
<1>9. b = FALSE => [i1 EXCEPT !.token = s] = Queued(b, s)
  <2>1. [i1 EXCEPT !.token = s] = [phase |-> i1.phase, retried |-> i1.retried,
                                   token |-> s, probe |-> i1.probe]
    BY <1>6, UbusField
  <2>2. i1.phase = "queued" /\ i1.retried = FALSE /\ i1.probe = 1
    BY <1>5, <1>6
  <2> QED
    BY <2>1, <2>2 DEF Queued
<1> QED
  BY <1>2, <1>3, <1>4, <1>8, <1>9

\* A refused call, as its caller will see it.
Refusal == [phase |-> "denied", retried |-> FALSE, token |-> 1, probe |-> 1]

\* What a refused call writes.
LEMMA UbusRefusal ==
    /\ [Ubus!Idle EXCEPT !.phase = "denied"] = Refusal
    /\ Refusal \in UbusRecords /\ Refusal.phase = "denied" /\ Refusal.retried = FALSE
<1> DEFINE idle == Ubus!Idle
<1>1. 1 \in Ubus!Sessions /\ "denied" \in Ubus!Phases /\ FALSE \in BOOLEAN
  BY UbusValues DEF Ubus!UbusConstants, Ubus!Sessions, Ubus!Phases
<1>2. /\ idle \in UbusRecords /\ idle.retried = FALSE /\ idle.token = 1
      /\ idle.probe = 1
  BY UbusIdle DEF Ubus!Idle
<1>3. Refusal \in UbusRecords /\ Refusal.phase = "denied" /\ Refusal.retried = FALSE
  BY <1>1 DEF Refusal, UbusRecords
<1> HIDE DEF idle
<1>4. [idle EXCEPT !.phase = "denied"] = Refusal
  <2>1. [idle EXCEPT !.phase = "denied"] = [phase |-> "denied", retried |-> idle.retried,
                                            token |-> idle.token, probe |-> idle.probe]
    BY <1>1, <1>2, UbusField
  <2> QED
    BY <1>2, <2>1 DEF Refusal
<1> QED
  BY <1>3, <1>4 DEF idle

\* Every step of a call is of one of the kinds.
LEMMA UbusCallKinds ==
    ASSUME UbusIInv, NEW c \in Calls,
           Ubus!CallStart(c) \/ Ubus!CallStep(c) \/ Ubus!DeniedSeen(c)
    PROVE  \E r : UbusBecomes(c, r) /\ UbusKind(ubusCall[c], r)
<1> DEFINE l == ubusCall[c]
           with(p) == [phase |-> p, retried |-> l.retried, token |-> l.token,
                       probe |-> l.probe]
           becomes(r) ==
               /\ ubusCall' = [ubusCall EXCEPT ![c] = r]
               /\ holding' = IF r.phase \in InSlot THEN holding \cup {c}
                             ELSE holding \ {c}
           others == /\ UNCHANGED <<session, recent, ubusLock, ubusValid>>
                     /\ ubusConnected' \in BOOLEAN
           Goal == \E r : UbusBecomes(c, r) /\ UbusKind(l, r)
<1> SUFFICES Goal
  OBVIOUS
<1>1. c \in Ubus!Clients
  BY DEF Ubus!Clients
<1>2. /\ l \in UbusRecords /\ l.retried \in BOOLEAN
      /\ session \in Ubus!Sessions /\ ubusValid \subseteq Ubus!Sessions
      /\ ubusConnected \in BOOLEAN /\ recent \in BOOLEAN
      /\ c # NoOne
      /\ ubusLock = c <=> l.phase = "login"
      /\ c \in holding <=> l.phase \in InSlot
      /\ l.phase \in {"probing", "locking", "login"} => ~l.retried
  BY <1>1, UbusShapes
<1>3. ASSUME NEW r \in UbusRecords, becomes(r), others,
             l.phase # "login", r.phase # "login",
             r.phase \in {"probing", "locking"} => ~r.retried,
             UbusKind(l, r)
      PROVE  Goal
  <2>1. UbusBecomes(c, r)
    BY <1>2, <1>3 DEF UbusBecomes
  <2> QED
    BY <1>3, <2>1
<1>4. ASSUME NEW p \in Ubus!Phases
      PROVE  /\ with(p) \in UbusRecords
             /\ [ubusCall EXCEPT ![c].phase = p] = [ubusCall EXCEPT ![c] = with(p)]
             /\ with(p).phase = p /\ with(p).retried = l.retried
  BY <1>1, UbusPhase
<1>5. l.phase # "login" /\ becomes(Ubus!Idle) /\ others /\ l.phase # "idle" => Goal
  <2> SUFFICES ASSUME l.phase # "login", becomes(Ubus!Idle), others, l.phase # "idle"
               PROVE  Goal
    OBVIOUS
  <2>1. UbusKind(l, Ubus!Idle)
    BY UbusIdle DEF UbusKind
  <2> HIDE DEF becomes, others, Goal, l
  <2> QED
    BY <1>3, <2>1, UbusIdle
<1>6. l.phase \in InSlot /\ becomes(Refusal) /\ others => Goal
  <2> SUFFICES ASSUME l.phase \in InSlot, becomes(Refusal), others
               PROVE  Goal
    OBVIOUS
  <2>1. UbusKind(l, Refusal)
    BY UbusRefusal DEF UbusKind
  <2>2. l.phase # "login"
    BY DEF InSlot
  <2> HIDE DEF becomes, others, Goal, l
  <2> QED
    BY <1>3, <2>1, <2>2, UbusRefusal
<1>7. ASSUME NEW b \in BOOLEAN, NEW s \in Ubus!Sessions,
             IF b THEN l.phase \in InSlot /\ ~l.retried ELSE l.phase = "idle",
             becomes(Queued(b, s)), others
      PROVE  Goal
  <2>1. UbusKind(l, Queued(b, s))
    BY <1>7, UbusQueued DEF UbusKind, InSlot
  <2>2. l.phase # "login"
    BY <1>7 DEF InSlot
  <2> HIDE DEF becomes, others, Goal, l
  <2> QED
    BY <1>3, <1>7, <2>1, <2>2, UbusQueued
<1>8. /\ becomes(Ubus!Idle) <=> Ubus!Finish(c)
      /\ becomes(Refusal) <=> Ubus!Denied(c)
      /\ session' = session => (becomes(Queued(TRUE, session)) <=> Ubus!Retry(c))
  <2>1. becomes(Ubus!Idle) <=> Ubus!Finish(c)
    BY UbusIdle DEF Ubus!Finish, InSlot
  <2>2. becomes(Refusal) <=> Ubus!Denied(c)
    BY UbusRefusal DEF Ubus!Denied, InSlot
  <2>3. ASSUME session' = session
        PROVE  becomes(Queued(TRUE, session)) <=> Ubus!Retry(c)
    <3> DEFINE yes == TRUE
    <3>1. yes \in BOOLEAN
      OBVIOUS
    <3> HIDE DEF yes
    <3>2. /\ Queued(yes, session).phase = "queued"
          /\ [Ubus!Idle EXCEPT !.phase = "queued", !.retried = yes, !.token = session]
                = Queued(yes, session)
      BY <1>2, <3>1, UbusQueued
    <3>3. /\ Queued(TRUE, session).phase = "queued"
          /\ [Ubus!Idle EXCEPT !.phase = "queued", !.retried = TRUE, !.token = session]
                = Queued(TRUE, session)
      BY <3>2 DEF yes
    <3> QED
      BY <2>3, <3>3 DEF Ubus!Retry, InSlot
  <2> QED
    BY <2>1, <2>2, <2>3
<1>9. CASE Ubus!CallStart(c)
  <2> DEFINE no == FALSE
  <2>1. no \in BOOLEAN
    OBVIOUS
  <2>2. no = FALSE
    OBVIOUS
  <2> HIDE DEF no
  <2>3. /\ [Ubus!Idle EXCEPT !.phase = "queued", !.token = session] = Queued(no, session)
        /\ Queued(no, session).phase = "queued"
    BY <1>2, <2>1, <2>2, UbusQueued
  <2>4. l.phase = "idle" /\ becomes(Queued(no, session)) /\ others
    <3>1. l.phase = "idle" /\ UNCHANGED holding /\ others
      BY <1>2, <1>9 DEF Ubus!CallStart
    <3>2. ubusCall' = [ubusCall EXCEPT ![c] = Queued(no, session)]
      BY <1>9, <2>3 DEF Ubus!CallStart
    <3>3. holding' = IF Queued(no, session).phase \in InSlot THEN holding \cup {c}
                     ELSE holding \ {c}
      BY <1>2, <2>3, <3>1 DEF InSlot
    <3> QED
      BY <3>1, <3>2, <3>3
  <2> HIDE DEF becomes, others, Goal, l
  <2> QED
    BY <1>2, <1>7, <2>1, <2>2, <2>4
<1>10. CASE Ubus!SlotTaken(c)
  <2>1. "posted" \in Ubus!Phases
    BY DEF Ubus!Phases
  <2>2. l.phase = "queued" /\ becomes(with("posted")) /\ others
        /\ Cardinality(holding) < Slots
    BY <1>2, <1>4, <1>10, <2>1, UbusCounts DEF Ubus!SlotTaken, InSlot
  <2>3. with("posted") \in UbusRecords
        /\ with("posted").phase = "posted" /\ with("posted").retried = l.retried
    BY <1>4, <2>1
  <2>4. UbusKind(l, with("posted"))
    BY <2>2, <2>3 DEF UbusKind
  <2> HIDE DEF becomes, others, Goal, l, with
  <2> QED
    BY <1>3, <2>2, <2>3, <2>4
<1>11. CASE Ubus!Answered(c) \/ Ubus!TransportError(c) \/ Ubus!DeniedSeen(c)
  <2>1. l.phase \in {"posted", "denied"} /\ others
    BY <1>2, <1>11 DEF Ubus!Answered, Ubus!TransportError, Ubus!DeniedSeen
  <2>2. becomes(Ubus!Idle)
    BY <1>2, <1>8, <1>11, UbusIdle
       DEF Ubus!Answered, Ubus!TransportError, Ubus!DeniedSeen, InSlot
  <2> QED
    BY <1>5, <2>1, <2>2
<1>12. CASE Ubus!Refused(c)
  <2>1. l.phase = "posted" /\ others
    BY <1>2, <1>12 DEF Ubus!Refused
  <2>2. CASE l.retried
    <3>1. becomes(Refusal)
      BY <1>8, <1>12, <2>2 DEF Ubus!Refused
    <3> QED
      BY <1>6, <2>1, <3>1 DEF InSlot
  <2>3. CASE ~l.retried
    <3> DEFINE r == [phase |-> "probing", retried |-> l.retried, token |-> l.token,
                     probe |-> session]
    <3>1. r \in UbusRecords /\ r.phase = "probing" /\ r.retried = l.retried
      BY <1>2 DEF UbusRecords, Ubus!Phases
    <3>2. [ubusCall EXCEPT ![c].phase = "probing", ![c].probe = session]
            = [ubusCall EXCEPT ![c] = r]
      <4>1. [l EXCEPT !.phase = "probing", !.probe = session] = r
        <5> DEFINE l1 == [l EXCEPT !.phase = "probing"]
        <5>1. [l EXCEPT !.phase = "probing", !.probe = session]
                = [l1 EXCEPT !.probe = session]
          OBVIOUS
        <5>2. /\ l1 \in UbusRecords
              /\ l1 = [phase |-> "probing", retried |-> l.retried, token |-> l.token,
                       probe |-> l.probe]
          BY <1>2, UbusField, "probing" \in Ubus!Phases DEF Ubus!Phases
        <5> HIDE DEF l1
        <5>3. [l1 EXCEPT !.probe = session] = r
          <6>1. [l1 EXCEPT !.probe = session]
                  = [phase |-> l1.phase, retried |-> l1.retried, token |-> l1.token,
                     probe |-> session]
            BY <1>2, <5>2, UbusField
          <6> QED
            BY <5>2, <6>1
        <5> QED
          BY <5>1, <5>3
      <4>2. [ubusCall EXCEPT ![c].phase = "probing", ![c].probe = session]
              = [ubusCall EXCEPT ![c] = [l EXCEPT !.phase = "probing", !.probe = session]]
        BY <1>1 DEF UbusIInv, Ubus!TypeOK
      <4> QED
        BY <4>1, <4>2
    <3>3. becomes(r)
      BY <1>2, <1>12, <2>1, <2>3, <3>1, <3>2 DEF Ubus!Refused, InSlot
    <3>4. UbusKind(l, r)
      BY <2>1, <3>1 DEF UbusKind, InSlot
    <3> HIDE DEF becomes, others, Goal, l, r
    <3> QED
      BY <1>3, <2>1, <2>3, <3>1, <3>3, <3>4
  <2> QED
    BY <2>2, <2>3
<1>13. CASE Ubus!SessionStillValid(c)
  BY <1>2, <1>6, <1>8, <1>13 DEF Ubus!SessionStillValid, InSlot
<1>14. CASE Ubus!SessionNotValid(c) \/ Ubus!ProbeFails(c)
  <2>1. l.phase = "probing" /\ others /\ Ubus!Reauthenticate(c)
    BY <1>2, <1>14 DEF Ubus!SessionNotValid, Ubus!ProbeFails
  <2>2. CASE session = l.token
    <3>1. "locking" \in Ubus!Phases
      BY DEF Ubus!Phases
    <3>2. /\ with("locking") \in UbusRecords
          /\ with("locking").phase = "locking" /\ with("locking").retried = l.retried
      BY <1>4, <3>1
    <3>3. becomes(with("locking"))
      BY <1>4, <2>1, <2>2, <3>1, <3>2 DEF Ubus!Reauthenticate, InSlot
    <3>4. UbusKind(l, with("locking"))
      BY <1>2, <2>1, <3>2 DEF UbusKind, InSlot
    <3> HIDE DEF becomes, others, Goal, l, with
    <3> QED
      BY <1>2, <1>3, <2>1, <3>2, <3>3, <3>4
  <2>3. CASE session # l.token
    <3> DEFINE yes == TRUE
    <3>1. becomes(Queued(yes, session))
      BY <1>8, <2>1, <2>3 DEF Ubus!Reauthenticate
    <3>2. l.phase \in InSlot /\ ~l.retried /\ yes \in BOOLEAN /\ yes
      BY <1>2, <2>1 DEF InSlot
    <3> HIDE DEF becomes, others, Goal, l, yes
    <3> QED
      BY <1>2, <1>7, <2>1, <3>1, <3>2
  <2> QED
    BY <2>2, <2>3
<1>15. CASE Ubus!ConnectionReset(c)
  <2>1. l.phase = "posted" /\ others
    BY <1>15 DEF Ubus!ConnectionReset
  <2>2. CASE l.retried
    <3>1. becomes(Ubus!Idle)
      BY <1>8, <1>15, <2>2 DEF Ubus!ConnectionReset
    <3> QED
      BY <1>5, <2>1, <3>1
  <2>3. CASE ~l.retried
    <3> DEFINE yes == TRUE
    <3>1. becomes(Queued(yes, session))
      BY <1>8, <1>15, <2>3 DEF Ubus!ConnectionReset
    <3>2. l.phase \in InSlot /\ ~l.retried /\ yes \in BOOLEAN /\ yes
      BY <1>2, <2>1, <2>3 DEF InSlot
    <3> HIDE DEF becomes, others, Goal, l, yes
    <3> QED
      BY <1>2, <1>7, <2>1, <3>1, <3>2
  <2> QED
    BY <2>2, <2>3
<1> HIDE DEF Goal
<1> QED
  BY <1>9, <1>10, <1>11, <1>12, <1>13, <1>14, <1>15 DEF Ubus!CallStep

\* A step of whoever connects is of one of the kinds too, when a call connects.
LEMMA UbusConnectKinds ==
    ASSUME UbusIInv, NEW c \in Ubus!Clients, Ubus!ConnectStep(c)
    PROVE  \E r : UbusBecomes(c, r) /\ (c \in Calls => UbusKind(ubusCall[c], r))
<1> DEFINE l == ubusCall[c]
           with(p) == [phase |-> p, retried |-> l.retried, token |-> l.token,
                       probe |-> l.probe]
           Goal == \E r : UbusBecomes(c, r) /\ (c \in Calls => UbusKind(l, r))
           others == /\ ubusConnected' \in BOOLEAN /\ recent' \in BOOLEAN
                     /\ session' \in Ubus!Sessions /\ ubusValid' \subseteq Ubus!Sessions
<1> SUFFICES Goal
  OBVIOUS
<1>1. /\ l \in UbusRecords /\ l.retried \in BOOLEAN
      /\ session \in Ubus!Sessions /\ ubusValid \subseteq Ubus!Sessions
      /\ ubusConnected \in BOOLEAN /\ recent \in BOOLEAN
      /\ c # NoOne
      /\ ubusLock = c <=> l.phase = "login"
      /\ c \in holding <=> c \in Calls /\ l.phase \in InSlot
      /\ c \in Calls /\ l.phase \in {"probing", "locking", "login"} => ~l.retried
  BY UbusShapes
<1>2. c # Coord => c \in Calls
  BY DEF Ubus!Clients
<1>3. ASSUME l.phase \in {"locking", "login"}, others,
             ubusLock' = IF l.phase = "login" THEN NoOne ELSE ubusLock
      PROVE  Ubus!Resume(c) => Goal
  <2>1. CASE Ubus!Finish(c)
    <3>1. UbusBecomes(c, Ubus!Idle)
      BY <1>1, <1>3, <2>1, UbusIdle DEF Ubus!Finish, UbusBecomes, InSlot
    <3>2. UbusKind(l, Ubus!Idle)
      BY <1>3, UbusIdle DEF UbusKind
    <3> HIDE DEF l
    <3> QED
      BY <3>1, <3>2
  <2>2. CASE c \in Calls /\ Ubus!Retry(c)
    <3> DEFINE yes == TRUE
               r == Queued(yes, session')
    <3>1. yes \in BOOLEAN /\ yes
      OBVIOUS
    <3>2. ubusCall' = [ubusCall EXCEPT ![c] = [Ubus!Idle EXCEPT !.phase = "queued",
                                                  !.retried = yes, !.token = session']]
          /\ holding' = holding \ {c}
      BY <2>2 DEF Ubus!Retry
    <3> HIDE DEF yes
    <3>3. /\ r \in UbusRecords /\ r.phase = "queued" /\ r.retried = yes
          /\ [Ubus!Idle EXCEPT !.phase = "queued", !.retried = yes, !.token = session'] = r
      BY <1>3, <3>1, UbusQueued
    <3> HIDE DEF r
    <3>4. UbusBecomes(c, r)
      BY <1>1, <1>3, <3>2, <3>3 DEF UbusBecomes, InSlot
    <3>5. UbusKind(l, r)
      BY <1>1, <1>3, <2>2, <3>1, <3>3 DEF UbusKind
    <3> QED
      BY <3>4, <3>5
  <2> QED
    BY <1>2, <2>1, <2>2 DEF Ubus!Resume
<1>4. CASE Ubus!LockTaken(c)
  <2>1. l.phase = "locking" /\ ubusLock = NoOne /\ others
    BY <1>1, <1>4 DEF Ubus!LockTaken
  <2>2. CASE ubusConnected /\ recent
    BY <1>3, <1>4, <2>1, <2>2 DEF Ubus!LockTaken
  <2>3. CASE ~(ubusConnected /\ recent)
    <3> DEFINE r == with("login")
    <3>1. "login" \in Ubus!Phases
      BY DEF Ubus!Phases
    <3>2. /\ r \in UbusRecords /\ r.phase = "login" /\ r.retried = l.retried
          /\ [ubusCall EXCEPT ![c].phase = "login"] = [ubusCall EXCEPT ![c] = r]
      BY <3>1, UbusPhase
    <3> HIDE DEF r
    <3>3. /\ ubusCall' = [ubusCall EXCEPT ![c] = r] /\ holding' = holding
          /\ ubusLock' = c
      BY <1>4, <2>3, <3>2 DEF Ubus!LockTaken
    <3>4. UbusBecomes(c, r)
      BY <1>1, <2>1, <3>2, <3>3 DEF UbusBecomes, InSlot
    <3>5. UbusKind(l, r)
      BY <2>1, <3>2 DEF UbusKind
    <3> QED
      BY <3>4, <3>5
  <2> QED
    BY <2>2, <2>3
<1>5. CASE Ubus!LoginDone(c)
  <2>1. session + 1 \in Ubus!Sessions
    BY <1>1, <1>5, UbusValues DEF Ubus!LoginDone, Ubus!Sessions, Ubus!UbusConstants
  <2>2. l.phase = "login" /\ ubusLock' = NoOne /\ others
    BY <1>1, <1>5, <2>1 DEF Ubus!LoginDone
  <2> QED
    BY <1>3, <1>5, <2>2 DEF Ubus!LoginDone
<1>6. CASE Ubus!LoginFails(c)
  <2>1. l.phase = "login" /\ ubusLock' = NoOne /\ others /\ Ubus!Finish(c)
    BY <1>1, <1>6 DEF Ubus!LoginFails
  <2>2. UbusBecomes(c, Ubus!Idle)
    BY <1>1, <2>1, UbusIdle DEF Ubus!Finish, UbusBecomes, InSlot
  <2>3. UbusKind(l, Ubus!Idle)
    BY <2>1, UbusIdle DEF UbusKind
  <2> HIDE DEF l
  <2> QED
    BY <2>2, <2>3
<1> QED
  BY <1>4, <1>5, <1>6 DEF Ubus!ConnectStep

\* The coordinator finds the client disconnected and waits for the lock.
LEMMA UbusCoordConnects ==
    UbusIInv /\ Ubus!CoordConnects => \E r : UbusBecomes(Coord, r)
<1> SUFFICES ASSUME UbusIInv, Ubus!CoordConnects PROVE \E r : UbusBecomes(Coord, r)
  OBVIOUS
<1> DEFINE l == ubusCall[Coord]
           r == [phase |-> "locking", retried |-> l.retried, token |-> l.token,
                 probe |-> l.probe]
<1>1. Coord \in Ubus!Clients /\ Coord \notin Calls /\ "locking" \in Ubus!Phases
  BY UbusValues DEF Ubus!Clients, Ubus!UbusConstants, Ubus!Phases
<1>2. /\ r \in UbusRecords
      /\ [ubusCall EXCEPT ![Coord].phase = "locking"] = [ubusCall EXCEPT ![Coord] = r]
  BY <1>1, UbusPhase
<1>3. /\ session \in Ubus!Sessions /\ ubusValid \subseteq Ubus!Sessions
      /\ ubusConnected \in BOOLEAN /\ recent \in BOOLEAN
      /\ Coord \notin holding
  BY <1>1, UbusShapes
<1>4. /\ ubusCall' = [ubusCall EXCEPT ![Coord] = r] /\ l.phase = "idle"
      /\ UNCHANGED <<session, ubusConnected, recent, ubusLock, holding, ubusValid>>
  BY <1>2 DEF Ubus!CoordConnects
<1>5. UbusBecomes(Coord, r)
  <2>1. r.phase = "locking"
    OBVIOUS
  <2> HIDE DEF r
  <2> QED
    BY <1>1, <1>2, <1>3, <1>4, <2>1 DEF UbusBecomes
<1> QED
  BY <1>5

\* A session that expires, or the five seconds, leave the calls alone.
LEMMA UbusElsewhere ==
    ASSUME UbusIInv,
           \/ \E s \in Ubus!Sessions : Ubus!SessionExpires(s)
           \/ Ubus!FiveSecondsPass
           \/ UNCHANGED ubusVars
    PROVE  UbusIInv' /\ UNCHANGED <<ubusCall, holding>>
<1>1. /\ ubusValid' \subseteq ubusValid /\ recent' \in BOOLEAN
      /\ UNCHANGED <<session, ubusConnected, ubusLock, holding, ubusCall>>
  BY DEF Ubus!SessionExpires, Ubus!FiveSecondsPass, ubusVars, UbusIInv, Ubus!TypeOK
<1>2. Ubus!TypeOK'
  BY <1>1 DEF UbusIInv, Ubus!TypeOK
<1>3. UbusFirstAttempt'
  BY <1>1 DEF UbusIInv, UbusFirstAttempt
<1> QED
  BY <1>1, <1>2, <1>3 DEF UbusIInv

\* One step per kind of step.
LEMMA UbusNextIInv == UbusIInv /\ [Ubus!Next]_ubusVars => UbusIInv'
<1> SUFFICES ASSUME UbusIInv, [Ubus!Next]_ubusVars PROVE UbusIInv'
  OBVIOUS
<1>1. ASSUME NEW c \in Calls,
             Ubus!CallStart(c) \/ Ubus!CallStep(c) \/ Ubus!DeniedSeen(c)
      PROVE  UbusIInv'
  BY <1>1, UbusCallKinds, UbusStep DEF Ubus!Clients
<1>2. ASSUME NEW c \in Ubus!Clients, Ubus!ConnectStep(c)
      PROVE  UbusIInv'
  BY <1>2, UbusConnectKinds, UbusStep
<1>3. CASE Ubus!CoordConnects
  BY <1>3, UbusCoordConnects, UbusStep DEF Ubus!Clients
<1> QED
  BY <1>1, <1>2, <1>3, UbusElsewhere DEF Ubus!Next

-----------------------------------------------------------------------------
(* The ubus client implements CallService.                                 *)

\* At the start no request is on its way.
LEMMA UbusRefinesInit == Ubus!Init => Ubus!Service!Init
BY UbusIdle DEF Ubus!Init, Ubus!Service!Init, Ubus!Request, Ubus!Clients

\* What the caller of a call with the locals l sees of it.
UbusSeen(l) ==
    [made |-> IF l.phase \in {"idle", "denied"} THEN 0 ELSE IF l.retried THEN 2 ELSE 1,
     at |-> IF l.phase = "idle" THEN "idle"
            ELSE IF l.phase = "denied" THEN "refused"
            ELSE IF l.phase \in InSlot THEN "sent" ELSE "waiting"]

\* The slots say which requests are on their way, and so do the phases.
LEMMA UbusRequest ==
    ASSUME UbusIInv
    PROVE  Ubus!Request = [c \in Calls |-> UbusSeen(ubusCall[c])]
<1>1. ASSUME NEW c \in Calls
      PROVE  Ubus!Request[c] = UbusSeen(ubusCall[c])
  <2>1. c \in holding <=> ubusCall[c].phase \in InSlot
    BY DEF UbusIInv, Ubus!TypeOK, InSlot
  <2> QED
    BY <2>1 DEF Ubus!Request, UbusSeen, InSlot
<1> QED
  BY <1>1 DEF Ubus!Request

\* The requests on their way are those that hold a slot.
LEMMA UbusSentIsHolding ==
    ASSUME UbusIInv
    PROVE  Ubus!Service!Sent = holding
<1>1. ASSUME NEW c \in Calls
      PROVE  Ubus!Request[c].at = "sent" <=> c \in holding
  BY UbusRequest DEF UbusSeen, UbusIInv, Ubus!TypeOK, InSlot
<1>2. holding \subseteq Calls
  BY DEF UbusIInv, Ubus!TypeOK
<1> QED
  BY <1>1, <1>2 DEF Ubus!Service!Sent

\* A step of one of the kinds is a step of the request, or none.
LEMMA UbusKindRefines ==
    ASSUME UbusIInv, UbusIInv', NEW c \in Calls, NEW r,
           UbusBecomes(c, r), UbusKind(ubusCall[c], r)
    PROVE  [Ubus!Service!Next]_(Ubus!Request)
<1> DEFINE l == ubusCall[c]
           request == Ubus!Request
           count == IF l.retried THEN 2 ELSE 1
<1>1. c \in Ubus!Clients
  BY DEF Ubus!Clients
<1>2. request[c] = UbusSeen(l)
  BY UbusRequest
<1>3. request' = [request EXCEPT ![c] = UbusSeen(r)]
  <2>1. \A d \in Calls : ubusCall'[d] = IF d = c THEN r ELSE ubusCall[d]
    BY <1>1, UbusStep DEF Ubus!Clients
  <2>2. request = [d \in Calls |-> UbusSeen(ubusCall[d])]
    BY UbusRequest
  <2>3. request' = [d \in Calls |-> UbusSeen(ubusCall'[d])]
    <3>1. ASSUME NEW d \in Calls
          PROVE  request'[d] = UbusSeen(ubusCall'[d])
      <4>1. d \in holding' <=> ubusCall'[d].phase \in InSlot
        BY DEF UbusIInv, Ubus!TypeOK, InSlot
      <4> QED
        BY <4>1 DEF Ubus!Request, UbusSeen, InSlot
    <3> QED
      BY <3>1 DEF Ubus!Request
  <2> QED
    BY <2>1, <2>2, <2>3
<1>4. l.retried \in BOOLEAN /\ r.retried \in BOOLEAN
  BY <1>1, UbusShapes DEF UbusBecomes, UbusRecords
<1>5. Ubus!Service!Cardinality(Ubus!Service!Sent) = Cardinality(holding)
  BY UbusSentIsHolding, UbusCounts
<1> HIDE DEF request, l
<1> DEFINE becomes(m, at) == request' = [request EXCEPT ![c] = [made |-> m, at |-> at]]
<1>6. CASE l.phase = "idle" /\ r.phase = "queued" /\ ~r.retried
  <2>1. request[c].at = "idle" /\ becomes(1, "waiting")
    BY <1>2, <1>3, <1>6 DEF UbusSeen, InSlot
  <2>2. Ubus!Service!Ask(c)
    BY <2>1 DEF Ubus!Service!Ask, Ubus!Service!Becomes, request
  <2> QED
    BY <2>2 DEF Ubus!Service!Next
<1>7. CASE /\ l.phase = "queued" /\ r.phase = "posted" /\ r.retried = l.retried
           /\ Cardinality(holding) < Slots
  <2>1. request[c].at = "waiting" /\ becomes(request[c].made, "sent")
    BY <1>2, <1>3, <1>7 DEF UbusSeen, InSlot
  <2>2. Ubus!Service!Send(c)
    BY <1>5, <1>7, <2>1 DEF Ubus!Service!Send, Ubus!Service!Becomes, request
  <2> QED
    BY <2>2 DEF Ubus!Service!Next
<1>8. CASE l.phase # "idle" /\ r.phase = "idle"
  <2>1. request[c].at \in {"waiting", "sent", "refused"} /\ becomes(0, "idle")
    BY <1>2, <1>3, <1>8 DEF UbusSeen
  <2>2. Ubus!Service!Return(c)
    BY <2>1 DEF Ubus!Service!Return, Ubus!Service!Becomes, request
  <2> QED
    BY <2>2 DEF Ubus!Service!Next
<1>9. CASE l.phase \in InSlot /\ r.phase = "denied"
  <2>1. request[c].at = "sent" /\ becomes(0, "refused")
    BY <1>2, <1>3, <1>9 DEF UbusSeen, InSlot
  <2>2. Ubus!Service!Refuse(c)
    BY <2>1 DEF Ubus!Service!Refuse, Ubus!Service!Becomes, request
  <2> QED
    BY <2>2 DEF Ubus!Service!Next
<1>10. CASE l.phase \in InSlot /\ ~l.retried /\ r.phase = "locking" /\ ~r.retried
  <2>1. request[c].at = "sent" /\ request[c].made = 1 /\ becomes(1, "waiting")
    BY <1>2, <1>3, <1>10 DEF UbusSeen, InSlot
  <2>2. Ubus!Service!Renew(c)
    BY <2>1 DEF Ubus!Service!Renew, Ubus!Service!Becomes, request
  <2> QED
    BY <2>2 DEF Ubus!Service!Next
<1>11. CASE /\ l.phase \notin {"idle", "denied"} /\ ~l.retried
            /\ r.phase = "queued" /\ r.retried
  <2>1. request[c].made = 1 /\ becomes(2, "waiting")
    BY <1>2, <1>3, <1>11 DEF UbusSeen, InSlot
  <2>2. Ubus!Service!Repeat(c)
    BY <2>1 DEF Ubus!Service!Repeat, Ubus!Service!Becomes, request
  <2> QED
    BY <2>2 DEF Ubus!Service!Next
<1>12. CASE \/ l.phase \in InSlot /\ r.phase \in InSlot /\ r.retried = l.retried
            \/ l.phase = "locking" /\ r.phase = "login" /\ r.retried = l.retried
  <2>1. UbusSeen(r) = UbusSeen(l)
    BY <1>12 DEF UbusSeen, InSlot
  <2>2. request' = [request EXCEPT ![c] = request[c]]
    BY <1>2, <1>3, <2>1
  <2>3. request' = request
    BY <2>2 DEF request, Ubus!Request
  <2> QED
    BY <2>3 DEF request
<1> QED
  BY <1>6, <1>7, <1>8, <1>9, <1>10, <1>11, <1>12 DEF UbusKind, l

\* The coordinator and the router do not touch the requests.
LEMMA UbusRefinesNext ==
    UbusIInv /\ UbusIInv' /\ [Ubus!Next]_ubusVars => [Ubus!Service!Next]_(Ubus!Request)
<1> SUFFICES ASSUME UbusIInv, UbusIInv', [Ubus!Next]_ubusVars
             PROVE  [Ubus!Service!Next]_(Ubus!Request)
  OBVIOUS
<1>1. ASSUME NEW c \in Calls,
             Ubus!CallStart(c) \/ Ubus!CallStep(c) \/ Ubus!DeniedSeen(c)
      PROVE  [Ubus!Service!Next]_(Ubus!Request)
  BY <1>1, UbusCallKinds, UbusKindRefines
<1>2. ASSUME NEW c \in Calls, Ubus!ConnectStep(c)
      PROVE  [Ubus!Service!Next]_(Ubus!Request)
  BY <1>2, UbusConnectKinds, UbusKindRefines DEF Ubus!Clients
<1>3. Coord \in Ubus!Clients /\ Coord \notin Calls
  BY UbusValues DEF Ubus!Clients, Ubus!UbusConstants
<1>4. ASSUME NEW r, UbusBecomes(Coord, r)
      PROVE  UNCHANGED Ubus!Request
  <2>1. \A d \in Calls : ubusCall'[d] = ubusCall[d]
    BY <1>3, <1>4, UbusStep DEF Ubus!Clients
  <2>2. \A d \in Calls : d \in holding' <=> d \in holding
    BY <1>3, <1>4 DEF UbusBecomes
  <2> QED
    BY <2>1, <2>2 DEF Ubus!Request
<1>5. CASE Ubus!CoordConnects \/ Ubus!ConnectStep(Coord)
  BY <1>3, <1>4, <1>5, UbusCoordConnects, UbusConnectKinds
<1>6. CASE \/ \E s \in Ubus!Sessions : Ubus!SessionExpires(s)
           \/ Ubus!FiveSecondsPass
           \/ UNCHANGED ubusVars
  BY <1>6, UbusElsewhere DEF Ubus!Request
<1> QED
  BY <1>1, <1>2, <1>5, <1>6 DEF Ubus!Next, Ubus!Clients

-----------------------------------------------------------------------------
(* The sessions of the run: one client moves, the others rest.             *)

\* What the run does is, for each client, what the client does or nothing.
LEMMA EachMoves ==
    /\ SessionsInit => Init /\ Ubus!Init /\ Luci!Init
    /\ [SessionsNext]_sessionVars
         => [Next]_vars /\ [Ubus!Next]_ubusVars /\ [Luci!Next]_luciVars
<1>1. SessionsInit => Init /\ Ubus!Init /\ Luci!Init
  BY DEF SessionsInit
<1>2. [SessionsNext]_sessionVars
        => [Next]_vars /\ [Ubus!Next]_ubusVars /\ [Luci!Next]_luciVars
  BY DEF SessionsNext, Step, sessionVars
<1> QED
  BY <1>1, <1>2

\* The inductive invariants of the three clients.
LEMMA EachInvariance == SessionsSpec => []IInv /\ []UbusIInv /\ []LuciIInv
<1>1. SessionsInit => IInv /\ UbusIInv /\ LuciIInv
  BY EachMoves, InitIInv, UbusInitIInv, LuciInitIInv
<1>2. IInv /\ UbusIInv /\ LuciIInv /\ [SessionsNext]_sessionVars
        => IInv' /\ UbusIInv' /\ LuciIInv'
  BY EachMoves, NextIInv, UbusNextIInv, LuciNextIInv
<1> QED
  BY <1>1, <1>2, PTL DEF SessionsSpec

\* The state of each client keeps its type: over ubus, the slots are those of the
\* calls that are posted or look into a refusal, and the lock that of who logs in.
THEOREM TypesCorrect == SessionsSpec => []TypesOK
<1>1. IInv /\ UbusIInv /\ LuciIInv => TypesOK
  BY DEF IInv, UbusIInv, LuciIInv, TypesOK
<1> QED
  BY EachInvariance, <1>1, PTL

\* "Only the first to get here logs in": however many calls a dead LuCI token
\* fails, and whatever the coordinator does beside them, they log in once.
THEOREM OneLoginForADeadToken == SessionsSpec => []OneLoginPerDeadToken
<1>1. IInv /\ UbusIInv /\ LuciIInv => OneLoginPerDeadToken
  BY DEF LuciIInv
<1> QED
  BY EachInvariance, <1>1, PTL

\* The LuCI client implements CallService: a request is on its way in at most Slots
\* calls and is repeated at most once, through every renewal of the session.
THEOREM LuciKeepsItsPromise == SessionsSpec => LuciServesCalls
<1>1. SessionsInit => Luci!Service!Init
  BY EachMoves, LuciRefinesInit
<1>2. LuciIInv /\ LuciIInv' /\ [SessionsNext]_sessionVars
        => [Luci!Service!Next]_(Luci!Request)
  BY EachMoves, LuciRefinesNext
<1> QED
  BY EachInvariance, <1>1, <1>2, PTL
     DEF SessionsSpec, LuciServesCalls, Luci!ServesCalls, Luci!Service!Spec

\* So does the ubus client, whose calls keep their slot while a refusal is looked
\* into and give it back before they log in or repeat the request.
THEOREM UbusKeepsItsPromise == SessionsSpec => UbusServesCalls
<1>1. SessionsInit => Ubus!Service!Init
  BY EachMoves, UbusRefinesInit
<1>2. UbusIInv /\ UbusIInv' /\ [SessionsNext]_sessionVars
        => [Ubus!Service!Next]_(Ubus!Request)
  BY EachMoves, UbusRefinesNext
<1> QED
  BY EachInvariance, <1>1, <1>2, PTL
     DEF SessionsSpec, UbusServesCalls, Ubus!ServesCalls, Ubus!Service!Spec

=============================================================================
