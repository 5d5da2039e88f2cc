---------------------------- MODULE MC_Sessions ----------------------------
(***************************************************************************)
(* Instances of SshClient, UbusSession and LuciSession for TLC, in one     *)
(* run: two calls that may find the session or the connection dead         *)
(* together, of which the ACL of the ubus user may refuse one, the         *)
(* coordinator connecting beside them, and, over SSH, the shutdown.  Which *)
(* of the clients it is is chosen at the start.                            *)
(***************************************************************************)
EXTENDS SshClient

CONSTANTS c1, c2, Coord, Granted, Slots, MaxSession, MaxToken

VARIABLES
    transport,  \* the client that moves
    session, ubusConnected, recent, ubusLock, holding, ubusCall, ubusValid,
    authToken, luciConnected, failed, luciLock, luciCall, issued, luciValid,
    renewals

Calls == Commands

Ubus == INSTANCE UbusSession
    WITH connected <- ubusConnected, lock <- ubusLock, call <- ubusCall,
         valid <- ubusValid

Luci == INSTANCE LuciSession
    WITH connected <- luciConnected, lock <- luciLock, call <- luciCall,
         valid <- luciValid

ASSUME OneConnector == Connectors = {Coord}
ASSUME UbusValues == Ubus!UbusConstants
ASSUME LuciValues == Luci!LuciConstants

ubusVars == <<session, ubusConnected, recent, ubusLock, holding, ubusCall, ubusValid>>
luciVars == <<authToken, luciConnected, failed, luciLock, luciCall, issued,
              luciValid, renewals>>
sessionVars == <<transport, vars, ubusVars, luciVars>>

SessionsInit ==
    /\ transport \in {"ssh", "ubus", "luci"}
    /\ Init /\ Ubus!Init /\ Luci!Init

Step(ssh, ubus, luci) ==
    \/ transport = "ssh" /\ ssh /\ UNCHANGED <<transport, ubusVars, luciVars>>
    \/ transport = "ubus" /\ ubus /\ UNCHANGED <<transport, vars, luciVars>>
    \/ transport = "luci" /\ luci /\ UNCHANGED <<transport, vars, ubusVars>>

SessionsNext == Step(Next, Ubus!Next, Luci!Next)

\* The fairness of the three modules, for the client that moves.
SessionsFairness ==
    /\ \A c \in Calls :
        /\ SF_sessionVars(Step(FALSE, Ubus!SlotTaken(c), Luci!SlotTaken(c)))
        /\ WF_sessionVars(Step(FALSE,
                              Ubus!Answered(c) \/ Ubus!Refused(c)
                                 \/ Ubus!TransportError(c),
                              Luci!Answered(c) \/ Luci!Refused(c)
                                 \/ Luci!TransportError(c)))
        /\ WF_sessionVars(Step(FALSE, Ubus!SessionStillValid(c)
                                         \/ Ubus!SessionNotValid(c), FALSE))
    /\ \A c \in Tasks :
        /\ SF_sessionVars(Step(Locked(c), c # Closer /\ Ubus!LockTaken(c),
                              c \in Calls /\ Luci!LockTaken(c)))
        /\ WF_sessionVars(Step(WorkerStep(c),
                              c # Closer /\ (Ubus!LoginDone(c) \/ Ubus!LoginFails(c)),
                              c \in Calls /\ (Luci!CallLoginDone(c)
                                                \/ Luci!CallLoginFails(c))))

SessionsSpec ==
    SessionsInit /\ [][SessionsNext]_sessionVars /\ SessionsFairness

-----------------------------------------------------------------------------
(* The properties of the three, beside NoOrphanedTransport and             *)
(* WorkerHoldsTheLock of SshClient; those that rest keep their state.      *)

\* The type invariants of the three clients.
TypesOK == TypeOK /\ Ubus!TypeOK /\ Luci!TypeOK

\* An expired token opens one LuCI session (LuciSession).
OneLoginPerDeadToken == Luci!OneLoginPerDeadToken

\* The ubus client is a CallService (UbusSession).
UbusServesCalls == Ubus!ServesCalls

\* The LuCI client is a CallService (LuciSession).
LuciServesCalls == Luci!ServesCalls

\* No call of any client waits for ever for a slot or the lock, nor for those who
\* log in or connect before it.
EveryCallEnds ==
    \A c \in Calls :
        task[c].phase = "waiting" \/ "queued" \in {ubusCall[c].phase, luciCall[c].phase}
            ~> /\ task[c].phase = "idle"
               /\ {ubusCall[c].phase, luciCall[c].phase} \subseteq {"idle", "denied"}

=============================================================================
