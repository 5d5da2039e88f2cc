------------------------------ MODULE SshClient ------------------------------
(***************************************************************************)
(* The SSH transport (api/ssh/client.py): coroutines share one Paramiko    *)
(* client.  Every operation of the client blocks, so it runs in a worker   *)
(* thread, and _connection_lock makes the operations take turns.  A        *)
(* command that fails closes the client, reconnects and is sent once more, *)
(* all under the lock.  A coroutine that is cancelled waits for its worker *)
(* before it gives the lock up.                                            *)
(*                                                                         *)
(* A transport is a number; every connection makes the next one.  Pinning  *)
(* of host keys and the kinds of connection errors are left out.           *)
(***************************************************************************)
EXTENDS Integers, FiniteSets

CONSTANTS
    Commands,       \* coroutines in _exec
    Connectors,     \* coroutines in connect(): setup, the coordinator's retry
    Closer,         \* async_shutdown, in disconnect() when the entry unloads
    NoOne,          \* the lock's holder when it is free
    MaxTransports,  \* bound: connections made
    MaxCancels      \* bound: cancellations, of one coroutine or of several

ASSUME SshConstants ==
    /\ Commands \cap Connectors = {}
    /\ Closer \notin Commands \cup Connectors
    /\ NoOne \notin Commands \cup Connectors \cup {Closer}
    /\ MaxTransports \in Nat \ {0}
    /\ MaxCancels \in Nat

Tasks == Commands \cup Connectors \cup {Closer}
NoClient == 0
Transports == 1..MaxTransports

VARIABLES
    client,     \* _client: a transport or NoClient
    connected,  \* _connected
    lock,       \* holder of _connection_lock
    task,       \* the locals of every coroutine
    worker,     \* the thread a coroutine started: its job and its transport
    open,       \* transports that were opened and not closed
    alive,      \* transports over which the router still answers
    made,       \* transports made so far
    unloading,  \* the entry is being unloaded: nothing new is started
    cancels,    \* cancellations so far
    twice       \* ghost: coroutines that were cancelled a second time

vars == <<client, connected, lock, task, worker, open, alive, made, unloading,
          cancels, twice>>
shared == <<client, connected>>
link == <<open, alive, made>>
ending == <<unloading, cancels, twice>>

Phases == {"idle", "waiting", "exec", "preclose", "connecting", "closing"}

Idle == [phase |-> "idle", retry |-> TRUE, cancelled |-> FALSE, sent |-> 0]
NoJob == [job |-> "none", on |-> NoClient]

TypeOK ==
    /\ client \in Transports \cup {NoClient}
    /\ connected \in BOOLEAN
    /\ lock \in Tasks \cup {NoOne}
    /\ task \in [Tasks -> [phase : Phases, retry : BOOLEAN,
                           cancelled : BOOLEAN, sent : Nat]]
    /\ worker \in [Tasks -> [job : {"none", "exec", "connect", "close"},
                             on : Transports \cup {NoClient}]]
    /\ open \subseteq Transports
    /\ alive \subseteq Transports
    /\ made \in 0..MaxTransports
    /\ unloading \in BOOLEAN
    /\ cancels \in 0..MaxCancels
    /\ twice \subseteq Tasks
    /\ connected => client \in open
    /\ \A t \in Tasks : lock = t <=> task[t].phase \notin {"idle", "waiting"}

\* async_setup_entry connects before anything else is started.
Init ==
    /\ client = 1
    /\ connected = TRUE
    /\ lock = NoOne
    /\ task = [t \in Tasks |-> Idle]
    /\ worker = [t \in Tasks |-> NoJob]
    /\ open = {1}
    /\ alive = {1}
    /\ made = 1
    /\ unloading = FALSE
    /\ cancels = 0
    /\ twice = {}

-----------------------------------------------------------------------------
(* Pieces of the coroutines. *)

Cancelled(t) == task[t].cancelled

\* The coroutine ends and the lock is free.
Return(t) ==
    /\ task' = [task EXCEPT ![t] = Idle]
    /\ lock' = NoOne

Run(t, phase, job, on) ==
    /\ task' = [task EXCEPT ![t].phase = phase]
    /\ worker' = [worker EXCEPT ![t] = [job |-> job, on |-> on]]

\* exec_command in a worker, for a coroutine that was not cancelled.  Without a
\* client the worker raises.
Send(t, retry) ==
    /\ task' = [task EXCEPT ![t] =
           [phase |-> "exec", retry |-> retry, cancelled |-> FALSE,
            sent |-> IF client' = NoClient THEN @.sent ELSE @.sent + 1]]
    /\ worker' = [worker EXCEPT ![t] = [job |-> "exec", on |-> client']]

Joined(t) == worker' = [worker EXCEPT ![t] = NoJob]

\* _disconnect_locked with a client: forget it now, close it in a worker.
Forget(t, phase) ==
    /\ client' = NoClient
    /\ connected' = FALSE
    /\ Run(t, phase, "close", client)

-----------------------------------------------------------------------------
(* The coroutines. *)

Start(t) ==
    /\ task[t].phase = "idle"
    /\ worker[t] = NoJob
    /\ ~unloading
    /\ unloading' = (t = Closer)
    /\ task' = [task EXCEPT ![t].phase = "waiting"]
    /\ UNCHANGED <<shared, link, lock, worker, cancels, twice>>

ExecLocked(t) ==
    /\ t \in Commands
    /\ task[t].phase = "waiting"
    /\ lock = NoOne
    /\ lock' = t
    /\ UNCHANGED <<shared, link, ending>>
    /\ Send(t, TRUE)

\* _connect_locked: reuse a live transport, else close what is there first.
ConnectLocked(t) ==
    /\ t \in Connectors
    /\ task[t].phase = "waiting"
    /\ lock = NoOne
    /\ UNCHANGED <<link, ending>>
    /\ \/ /\ client \in alive
          /\ connected' = TRUE
          /\ task' = [task EXCEPT ![t] = Idle]
          /\ UNCHANGED <<client, lock, worker>>
       \/ /\ client # NoClient
          /\ client \notin alive
          /\ lock' = t
          /\ Forget(t, "preclose")
       \/ /\ client = NoClient
          /\ lock' = t
          /\ connected' = FALSE
          /\ Run(t, "connecting", "connect", NoClient)
          /\ UNCHANGED client

DisconnectLocked ==
    /\ task[Closer].phase = "waiting"
    /\ lock = NoOne
    /\ UNCHANGED <<link, ending>>
    /\ \/ /\ client # NoClient
          /\ lock' = Closer
          /\ Forget(Closer, "closing")
       \/ /\ client = NoClient
          /\ connected' = FALSE
          /\ task' = [task EXCEPT ![Closer] = Idle]
          /\ UNCHANGED <<client, lock, worker>>

\* The command was executed and its output read.
ExecDone(t) ==
    /\ task[t].phase = "exec"
    /\ worker[t].on \in alive
    /\ Joined(t)
    /\ Return(t)
    /\ UNCHANGED <<shared, link, ending>>

\* Bug for the tests of the properties: the failed client is not closed.
ExecFailsWithoutClosing(t) ==
    /\ task[t].phase = "exec"
    /\ UNCHANGED <<made, alive, open, ending>>
    /\ connected' = FALSE
    /\ client' = NoClient
    /\ IF ~Cancelled(t) /\ task[t].retry
       THEN Run(t, "connecting", "connect", NoClient) /\ UNCHANGED lock
       ELSE Joined(t) /\ Return(t)

\* The worker raised: no client, a broken link, or no answer in time (the
\* router may have run the command all the same).  A coroutine that was
\* cancelled meanwhile only ends.
ExecFails(t) ==
    /\ task[t].phase = "exec"
    /\ UNCHANGED <<made, alive, ending>>
    /\ IF Cancelled(t)
       THEN /\ Joined(t)
            /\ Return(t)
            /\ UNCHANGED <<shared, open>>
       ELSE /\ connected' = FALSE
            /\ client' = NoClient
            /\ open' = open \ {client}
            /\ IF task[t].retry
               THEN Run(t, "connecting", "connect", NoClient) /\ UNCHANGED lock
               ELSE Joined(t) /\ Return(t)

\* The worker of _connect sets _client before the coroutine goes on.
ConnectDone(t) ==
    /\ task[t].phase = "connecting"
    /\ made < MaxTransports
    /\ made' = made + 1
    /\ alive' = alive \cup {made'}
    /\ open' = open \cup {made'}
    /\ UNCHANGED ending
    /\ \/ /\ ~Cancelled(t)
          /\ client' = made'
          /\ connected' = TRUE
          /\ IF t \in Commands
             THEN Send(t, FALSE) /\ UNCHANGED lock
             ELSE Joined(t) /\ Return(t)
       \/ /\ Cancelled(t)
          /\ t \in Commands     \* the client is kept, _connected is not set
          /\ client' = made'
          /\ Joined(t)
          /\ Return(t)
          /\ UNCHANGED connected
       \/ /\ Cancelled(t)
          /\ t \in Connectors   \* connect() disconnects again
          /\ client' = NoClient
          /\ connected' = FALSE
          /\ Run(t, "closing", "close", made')
          /\ UNCHANGED lock

\* The worker closed its half-open client and raised.
ConnectFails(t) ==
    /\ task[t].phase = "connecting"
    /\ Joined(t)
    /\ Return(t)
    /\ UNCHANGED <<shared, link, ending>>

CloseDone(t) ==
    /\ task[t].phase \in {"preclose", "closing"}
    /\ open' = open \ {worker[t].on}
    /\ UNCHANGED <<shared, alive, made, ending>>
    /\ IF task[t].phase = "preclose" /\ ~Cancelled(t)
       THEN Run(t, "connecting", "connect", NoClient) /\ UNCHANGED lock
       ELSE Joined(t) /\ Return(t)

\* Bug for the tests of the properties: a cancelled coroutine does not wait for
\* its worker.
CancelAtOnce(t) ==
    /\ task[t].phase # "idle"
    /\ cancels < MaxCancels
    /\ cancels' = cancels + 1
    /\ task' = [task EXCEPT ![t] = Idle]
    /\ lock' = IF lock = t THEN NoOne ELSE lock
    /\ UNCHANGED <<shared, link, worker, unloading, twice>>

\* The first cancellation of a coroutine that has a worker is kept until the
\* worker is done; the next one ends the wait, but not the worker.
Cancel(t) ==
    /\ task[t].phase # "idle"
    /\ cancels < MaxCancels
    /\ cancels' = cancels + 1
    /\ twice' = IF Cancelled(t) THEN twice \cup {t} ELSE twice
    /\ UNCHANGED <<shared, link, worker, unloading>>
    /\ IF task[t].phase = "waiting" \/ Cancelled(t)
       THEN /\ task' = [task EXCEPT ![t] = Idle]
            /\ lock' = IF lock = t THEN NoOne ELSE lock
       ELSE /\ task' = [task EXCEPT ![t].cancelled = TRUE]
            /\ UNCHANGED lock

\* A worker whose coroutine has gone finishes its job.
OrphanDone(t) ==
    /\ task[t].phase = "idle"
    /\ worker[t] # NoJob
    /\ Joined(t)
    /\ UNCHANGED <<connected, lock, task, ending>>
    /\ \/ /\ worker[t].job = "exec"
          /\ UNCHANGED <<client, link>>
       \/ /\ worker[t].job = "close"
          /\ open' = open \ {worker[t].on}
          /\ UNCHANGED <<client, alive, made>>
       \/ /\ worker[t].job = "connect"
          /\ made < MaxTransports
          /\ made' = made + 1
          /\ open' = open \cup {made'}
          /\ alive' = alive \cup {made'}
          /\ client' = made'
       \/ /\ worker[t].job = "connect"
          /\ UNCHANGED <<client, link>>

\* The router reboots, sshd is restarted or the network drops the connection.
LinkBreaks(n) ==
    /\ n \in alive
    /\ alive' = alive \ {n}
    /\ UNCHANGED <<shared, lock, task, worker, open, made, ending>>

Locked(t) == ExecLocked(t) \/ ConnectLocked(t) \/ (t = Closer /\ DisconnectLocked)

WorkerStep(t) ==
    \/ ExecDone(t)
    \/ ExecFails(t)
    \/ ConnectDone(t)
    \/ ConnectFails(t)
    \/ CloseDone(t)

Next ==
    \/ \E t \in Tasks : Start(t) \/ Locked(t) \/ WorkerStep(t)
                        \/ Cancel(t) \/ OrphanDone(t)
    \/ \E n \in Transports : LinkBreaks(n)

Spec == Init /\ [][Next]_vars

\* A worker ends: connecting has a timeout of 10 s, a command of 15 s.  The
\* lock serves its waiters in order.
Fairness == \A t \in Tasks : SF_vars(Locked(t)) /\ WF_vars(WorkerStep(t))

FairSpec == Spec /\ Fairness

-----------------------------------------------------------------------------
(* Properties. *)

\* "Concurrent retries must not orphan live SSH transports": an open transport
\* is the client's or is being closed, so the next disconnect() finds it; unless
\* a coroutine was cancelled twice, whose worker may connect behind its back.
NoOrphanedTransport ==
    twice = {} =>
        open \subseteq {client} \cup {worker[t].on : t \in
                            {u \in Tasks : worker[u].job = "close"}}

\* "Cancellation cannot release ownership while the blocking worker is
\* running": a worker that uses the client belongs to the lock's holder, so
\* two of them never work on one client at a time.  A second cancellation of a
\* coroutine is the only thing that parts them.
WorkerHoldsTheLock ==
    \A t \in Tasks \ twice : worker[t].job # "none" => lock = t

\* A command reaches the router at most twice, however often the connection
\* breaks: many commands (uci add, a reboot) must not be repeated at will.
SentAtMostTwice == \A t \in Commands : task[t].sent <= 2

-----------------------------------------------------------------------------
(* What a docstring of the code says and TLC refutes (see README.md). *)

\* "Shut down the coordinator and disconnect": when the entry is unloaded and
\* every coroutine has ended, no connection is left.
NothingOpenAfterUnload ==
    unloading /\ (\A t \in Tasks : task[t] = Idle /\ worker[t] = NoJob)
        => open = {}

=============================================================================
