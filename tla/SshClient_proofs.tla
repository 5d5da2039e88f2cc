--------------------------- MODULE SshClient_proofs ---------------------------
(***************************************************************************)
(* Proofs about the SSH transport, for any number of coroutines,           *)
(* connections and cancellations: workers take turns, no transport is      *)
(* orphaned, and no command is sent three times.                           *)
(***************************************************************************)
EXTENDS SshClient, TLAPS

TaskRecords == [phase : Phases, retry : BOOLEAN, cancelled : BOOLEAN, sent : Nat]
WorkerRecords == [job : {"none", "exec", "connect", "close"},
                  on : Transports \cup {NoClient}]
Outside == {"idle", "waiting"}          \* phases without the lock
Emptied == {"preclose", "connecting", "closing"}

\* The worker of a coroutine does what its coroutine waits for.
JobOfPhase ==
    \A t \in Tasks :
        /\ task[t].phase = "exec" => worker[t].job = "exec"
        /\ task[t].phase = "connecting" => worker[t].job = "connect"
        /\ task[t].phase \in {"preclose", "closing"} => worker[t].job = "close"

\* A transport that is being closed was made, and the client has let go of it.
ClosingForgotten ==
    /\ client <= made
    /\ \A t \in Tasks : worker[t].job = "close" =>
           /\ worker[t].on \in 1..made
           /\ worker[t].on # client

\* The client is never a closed transport the router still answers over.
AliveIsOpen == client \in alive => client \in open

\* Whoever closes or connects has emptied the client first.
NoClientMeanwhile ==
    twice = {} => \A t \in Tasks :
        task[t].phase \in {"preclose", "connecting", "closing"} =>
            client = NoClient

\* How often the command in each phase has been sent.
Sends ==
    \A t \in Tasks :
        /\ task[t].phase \in {"idle", "waiting"} => task[t].sent = 0
        /\ task[t].phase = "exec" =>
               task[t].sent <= IF task[t].retry THEN 1 ELSE 2
        /\ task[t].phase \in {"preclose", "connecting", "closing"} =>
               task[t].sent <= 1

IInv ==
    /\ TypeOK
    /\ JobOfPhase
    /\ ClosingForgotten
    /\ AliveIsOpen
    /\ WorkerHoldsTheLock
    /\ NoClientMeanwhile
    /\ NoOrphanedTransport
    /\ Sends

-----------------------------------------------------------------------------

\* It holds at the start.
LEMMA InitIInv == Init => IInv
<1> SUFFICES ASSUME Init PROVE IInv
  OBVIOUS
<1> USE SshConstants DEF NoClient, Transports
<1>1. TypeOK
  <2>1. client \in Transports /\ open \subseteq Transports
        /\ alive \subseteq Transports /\ made \in 0..MaxTransports
        /\ client \in open /\ cancels \in 0..MaxCancels
    BY DEF Init
  <2>2. task \in [Tasks -> TaskRecords]
    BY DEF Init, Idle, Phases, TaskRecords
  <2>3. worker \in [Tasks -> WorkerRecords]
    BY DEF Init, NoJob, WorkerRecords
  <2>4. \A t \in Tasks : lock = t <=> task[t].phase \notin {"idle", "waiting"}
    BY DEF Init, Idle, Tasks
  <2>5. connected \in BOOLEAN /\ lock = NoOne /\ unloading \in BOOLEAN
        /\ twice \subseteq Tasks
    BY DEF Init
  <2> QED
    BY <2>1, <2>2, <2>3, <2>4, <2>5 DEF TypeOK, TaskRecords, WorkerRecords
<1>2. JobOfPhase /\ ClosingForgotten /\ AliveIsOpen /\ WorkerHoldsTheLock
  BY DEF Init, Idle, NoJob, JobOfPhase, ClosingForgotten, AliveIsOpen,
         WorkerHoldsTheLock
<1>3. NoClientMeanwhile /\ NoOrphanedTransport /\ Sends
  BY DEF Init, Idle, NoJob, NoClientMeanwhile, NoOrphanedTransport, Sends
<1> QED
  BY <1>1, <1>2, <1>3 DEF IInv

\* Without the lock a coroutine has no worker, unless it was cancelled twice.
LEMMA Waiter ==
    ASSUME IInv, NEW t \in Tasks, task[t].phase \in {"idle", "waiting"}
    PROVE  lock # t /\ (worker[t].job = "none" \/ t \in twice)
BY DEF IInv, TypeOK, WorkerHoldsTheLock

\* A coroutine begins to wait for the lock.
LEMMA StartStep ==
    ASSUME IInv, NEW t \in Tasks, Start(t)
    PROVE  IInv'
<1> USE SshConstants DEF IInv, Start, shared, link
<1>1. task' = [task EXCEPT ![t].phase = "waiting"] /\ task[t].phase = "idle"
      /\ UNCHANGED <<client, connected, lock, worker, open, alive, made, cancels,
                     twice>>
  OBVIOUS
<1>2. /\ \A u \in Tasks : task'[u].phase = IF u = t THEN "waiting" ELSE task[u].phase
      /\ \A u \in Tasks : task'[u].sent = task[u].sent /\ task'[u].retry = task[u].retry
  BY <1>1 DEF TypeOK
<1>3. TypeOK'
  <2>1. task' \in [Tasks -> TaskRecords]
    BY <1>1 DEF TypeOK, Phases, TaskRecords
  <2> QED
    BY <1>1, <1>2, <2>1 DEF TypeOK, TaskRecords
<1>4. JobOfPhase' /\ NoClientMeanwhile' /\ Sends'
  BY <1>1, <1>2 DEF JobOfPhase, NoClientMeanwhile, Sends
<1>5. ClosingForgotten' /\ AliveIsOpen' /\ WorkerHoldsTheLock'
  BY <1>1 DEF ClosingForgotten, AliveIsOpen, WorkerHoldsTheLock
<1>6. NoOrphanedTransport'
  BY <1>1 DEF NoOrphanedTransport
<1> QED
  BY <1>3, <1>4, <1>5, <1>6

-----------------------------------------------------------------------------
(* A turn: what all actions of the lock's holder have in common. *)

\* What a turn may do to the client and to the transports.
SharedStep ==
    /\ client' \in Transports \cup {NoClient}
    /\ client' \in {NoClient, client} \/ (client' = made' /\ made < made')
    /\ connected' \in BOOLEAN
    /\ made' \in 0..MaxTransports /\ made <= made'
    /\ open' \subseteq Transports /\ alive' \subseteq Transports
    /\ connected' => client' \in open'
    /\ client' \in alive' => client' \in open'

\* What a coroutine may do on its turn, that is, from when it takes the lock
\* until it gives it up: its next locals are e, its next worker is w.
LEMMA TurnStep ==
    ASSUME IInv, NEW t \in Tasks, lock \in {NoOne, t},
           NEW e \in TaskRecords, NEW w \in WorkerRecords,
           task' = [task EXCEPT ![t] = e],
           worker' = [worker EXCEPT ![t] = w],
           lock' = (IF e.phase \in Outside THEN NoOne ELSE t),
           UNCHANGED ending, SharedStep,
           e.phase \in Outside /\ w.job # "none" => t \in twice,
           e.phase = "exec" => w.job = "exec",
           e.phase = "connecting" => w.job = "connect",
           e.phase \in {"preclose", "closing"} => w.job = "close",
           w.job = "close" => w.on \in 1..made' /\ w.on # client',
           twice = {} /\ e.phase \in Emptied => client' = NoClient,
           twice = {} => \A n \in open' : n = client' \/ (w.job = "close" /\ n = w.on),
           e.phase \in Outside => e.sent = 0,
           e.phase = "exec" => e.sent <= IF e.retry THEN 1 ELSE 2,
           e.phase \in Emptied => e.sent <= 1
    PROVE  IInv'
<1> USE DEF SharedStep
<1>type. TypeOK
  BY DEF IInv
<1>0. /\ t # NoOne /\ \A u \in Tasks : u # NoOne
      /\ UNCHANGED <<unloading, cancels, twice>>
  BY SshConstants DEF Tasks, ending
<1>1. \A u \in Tasks : /\ task'[u] = IF u = t THEN e ELSE task[u]
                       /\ worker'[u] = IF u = t THEN w ELSE worker[u]
  BY <1>type DEF TypeOK
<1>2. \A u \in Tasks : u # t => /\ task[u].phase \in Outside
                                /\ worker[u].job = "none" \/ u \in twice
  BY <1>0 DEF IInv, TypeOK, WorkerHoldsTheLock, Outside
<1>3. TypeOK'
  <2>1. task' \in [Tasks -> TaskRecords] /\ worker' \in [Tasks -> WorkerRecords]
    BY <1>type DEF TypeOK, TaskRecords, WorkerRecords
  <2>2. \A u \in Tasks : lock' = u <=> task'[u].phase \notin {"idle", "waiting"}
    BY <1>0, <1>1, <1>2 DEF Outside
  <2>3. lock' \in Tasks \cup {NoOne}
    OBVIOUS
  <2> QED
    BY <1>type, <1>0, <2>1, <2>2, <2>3 DEF TypeOK, TaskRecords, WorkerRecords
<1>4. JobOfPhase'
  BY <1>1 DEF IInv, JobOfPhase
<1>5. ClosingForgotten'
  <2>1. client <= made /\ client \in 0..MaxTransports /\ made \in 0..MaxTransports
    BY <1>type, SshConstants DEF IInv, TypeOK, ClosingForgotten, Transports, NoClient
  <2>2. client' <= made'
    BY <2>1 DEF NoClient
  <2>3. ASSUME NEW u \in Tasks, worker'[u].job = "close"
        PROVE  worker'[u].on \in 1..made' /\ worker'[u].on # client'
    <3>1. CASE u = t
      BY <1>1, <2>3, <3>1
    <3>2. CASE u # t
      <4>1. worker[u].on \in 1..made /\ worker[u].on # client
        BY <1>1, <2>3, <3>2 DEF IInv, ClosingForgotten
      <4> QED
        BY <1>1, <2>1, <3>2, <4>1 DEF NoClient
    <3> QED
      BY <3>1, <3>2
  <2> QED
    BY <2>2, <2>3 DEF ClosingForgotten
<1>6. AliveIsOpen'
  BY DEF AliveIsOpen
<1>7. WorkerHoldsTheLock'
  BY <1>0, <1>1, <1>2 DEF WorkerHoldsTheLock
<1>8. NoClientMeanwhile'
  BY <1>0, <1>1, <1>2 DEF NoClientMeanwhile, Emptied, Outside
<1>9. NoOrphanedTransport'
  <2>1. worker'[t] = w
    BY <1>1
  <2>2. SUFFICES ASSUME twice = {}, NEW n \in open'
                 PROVE  n = client' \/ \E u \in Tasks :
                            worker'[u].job = "close" /\ n = worker'[u].on
    BY <1>0 DEF NoOrphanedTransport
  <2> QED
    BY <2>1, <2>2
<1>10. Sends'
  BY <1>1 DEF IInv, Sends, Outside, Emptied
<1> QED
  BY <1>3, <1>4, <1>5, <1>6, <1>7, <1>8, <1>9, <1>10 DEF IInv

\* What every action of a coroutine on its turn finds.
LEMMA Turn ==
    ASSUME IInv, NEW t \in Tasks,
           lock = NoOne \/ task[t].phase \notin Outside
    PROVE  /\ lock \in {NoOne, t}
           /\ task[t] \in TaskRecords /\ worker[t] \in WorkerRecords
           /\ client \in 0..made /\ made \in 0..MaxTransports
           /\ client \in Transports \cup {NoClient}
           /\ open \subseteq Transports /\ alive \subseteq Transports
           /\ twice = {} => \A n \in open :
                  n = client \/ (worker[t].job = "close" /\ n = worker[t].on)
           /\ task[t].phase = "waiting" => worker[t].job = "none" \/ t \in twice
           /\ \A u \in Tasks : u # NoOne
<1>1. TypeOK /\ \A u \in Tasks : u # NoOne
  BY SshConstants DEF IInv, Tasks
<1>2. lock \in {NoOne, t}
  BY <1>1 DEF TypeOK, Outside
<1>3. task[t] \in TaskRecords /\ worker[t] \in WorkerRecords
  BY <1>1 DEF TypeOK, TaskRecords, WorkerRecords
<1>4. /\ client \in 0..made /\ made \in 0..MaxTransports
      /\ client \in Transports \cup {NoClient}
      /\ open \subseteq Transports /\ alive \subseteq Transports
  BY <1>1, SshConstants DEF IInv, TypeOK, ClosingForgotten, Transports, NoClient
<1>5. \A u \in Tasks \ twice : u # t => worker[u].job = "none"
  BY <1>1, <1>2 DEF IInv, WorkerHoldsTheLock
<1>6. ASSUME twice = {}, NEW n \in open
      PROVE  n = client \/ (worker[t].job = "close" /\ n = worker[t].on)
  BY <1>5, <1>6 DEF IInv, NoOrphanedTransport
<1>7. task[t].phase = "waiting" => worker[t].job = "none" \/ t \in twice
  BY <1>1 DEF IInv, TypeOK, WorkerHoldsTheLock
<1> QED
  BY <1>1, <1>2, <1>3, <1>4, <1>6, <1>7

\* The coroutine returns: nothing is left of its locals and of its worker.
LEMMA ReturnStep ==
    ASSUME IInv, NEW t \in Tasks, task[t].phase \notin Outside,
           Joined(t), Return(t), UNCHANGED ending, SharedStep,
           twice = {} => \A n \in open' : n = client'
    PROVE  IInv'
<1>1. Idle \in TaskRecords /\ Idle.phase = "idle" /\ Idle.sent = 0
  BY DEF Idle, TaskRecords, Phases
<1>2. NoJob \in WorkerRecords /\ NoJob.job = "none"
  BY DEF NoJob, WorkerRecords
<1>3. /\ task' = [task EXCEPT ![t] = Idle]
      /\ worker' = [worker EXCEPT ![t] = NoJob]
      /\ lock' = (IF Idle.phase \in Outside THEN NoOne ELSE t)
  BY <1>1 DEF Return, Joined, Outside
<1> DEFINE e == Idle
           w == NoJob
<1>4. /\ e \in TaskRecords /\ e.phase = "idle" /\ e.sent = 0
      /\ w \in WorkerRecords /\ w.job = "none"
      /\ task' = [task EXCEPT ![t] = e]
      /\ worker' = [worker EXCEPT ![t] = w]
      /\ lock' = (IF e.phase \in Outside THEN NoOne ELSE t)
  BY <1>1, <1>2, <1>3
<1> HIDE DEF e, w
<1> QED
  BY <1>4, Turn, TurnStep DEF Outside, Emptied

\* The coroutine goes on with another job of its worker.
LEMMA RunStep ==
    ASSUME IInv, NEW t \in Tasks, lock = NoOne \/ task[t].phase \notin Outside,
           NEW p \in Emptied, NEW j \in {"connect", "close"},
           NEW n \in Transports \cup {NoClient}, Run(t, p, j, n), lock' = t,
           UNCHANGED ending, SharedStep, client' = NoClient \/ twice # {},
           p = "connecting" <=> j = "connect",
           j = "close" => n \in 1..made' /\ n # client',
           task[t].sent <= 1,
           twice = {} => \A m \in open' : j = "close" /\ m = n
    PROVE  IInv'
<1> DEFINE e == [task[t] EXCEPT !.phase = p]
           w == [job |-> j, on |-> n]
<1>0. task[t] \in TaskRecords
  BY Turn
<1>1. e \in TaskRecords /\ e.phase = p /\ e.sent <= 1 /\ p \notin Outside /\ p # "exec"
  BY <1>0 DEF TaskRecords, Phases, Emptied, Outside
<1>2. w \in WorkerRecords /\ w.job = j /\ w.on = n
  BY DEF WorkerRecords
<1>3. task' = [task EXCEPT ![t] = e] /\ worker' = [worker EXCEPT ![t] = w]
      /\ lock' = (IF e.phase \in Outside THEN NoOne ELSE t)
  BY <1>1 DEF Run
<1>4. /\ p = "connecting" => j = "connect"
      /\ p \in {"preclose", "closing"} => j = "close"
  OBVIOUS
<1> HIDE DEF e, w
<1> QED
  BY <1>1, <1>2, <1>3, <1>4, Turn, TurnStep DEF Emptied

\* The command is sent, with the client as it is then.
LEMMA SendStep ==
    ASSUME IInv, NEW t \in Tasks, lock = NoOne \/ task[t].phase \notin Outside,
           NEW r \in BOOLEAN, Send(t, r), lock' = t, UNCHANGED ending, SharedStep,
           task[t].sent <= IF r THEN 0 ELSE 1,
           twice = {} => \A m \in open' : m = client'
    PROVE  IInv'
<1> DEFINE s == IF client' = NoClient THEN task[t].sent ELSE task[t].sent + 1
           e == [phase |-> "exec", retry |-> r, cancelled |-> FALSE, sent |-> s]
           w == [job |-> "exec", on |-> client']
<1>0. task[t] \in TaskRecords
  BY Turn
<1>1. /\ e \in TaskRecords /\ e.phase = "exec" /\ e.retry = r
      /\ e.sent <= IF e.retry THEN 1 ELSE 2
  <2>1. task[t].sent \in Nat
    BY <1>0 DEF TaskRecords
  <2>2. s \in Nat /\ s <= IF r THEN 1 ELSE 2
    BY <2>1
  <2> QED
    BY <2>1, <2>2 DEF TaskRecords, Phases
<1>2. w \in WorkerRecords /\ w.job = "exec"
  BY DEF WorkerRecords, SharedStep
<1>3. task' = [task EXCEPT ![t] = e]
  BY DEF Send
<1>4. /\ worker' = [worker EXCEPT ![t] = w]
      /\ lock' = (IF e.phase \in Outside THEN NoOne ELSE t)
  BY <1>1 DEF Send, Outside
<1> HIDE DEF s, e, w
<1> QED
  BY <1>1, <1>2, <1>3, <1>4, Turn, TurnStep DEF Emptied, Outside

\* A step that leaves the transports alone, and forgets the client at most.
LEMMA SharedKept ==
    ASSUME IInv, UNCHANGED <<open, alive, made>>,
           \/ UNCHANGED <<client, connected>>
           \/ connected' = FALSE /\ client' \in {NoClient, client}
    PROVE  SharedStep
<1>1. /\ client \in Transports \cup {NoClient} /\ connected \in BOOLEAN
      /\ open \subseteq Transports /\ alive \subseteq Transports
      /\ made \in 0..MaxTransports /\ made <= made
      /\ (connected => client \in open) /\ (client \in alive => client \in open)
  <2>1. made \in 0..MaxTransports /\ MaxTransports \in Nat
    BY SshConstants DEF IInv, TypeOK
  <2>2. made <= made
    BY <2>1
  <2> QED
    BY <2>1, <2>2 DEF IInv, TypeOK, AliveIsOpen
<1>2. NoClient \notin alive
  BY <1>1 DEF NoClient, Transports
<1>3. CASE UNCHANGED <<client, connected>>
  BY <1>1, <1>3 DEF SharedStep
<1>4. CASE connected' = FALSE /\ client' = client
  BY <1>1, <1>4 DEF SharedStep
<1>5. CASE connected' = FALSE /\ client' = NoClient
  BY <1>1, <1>2, <1>5 DEF SharedStep
<1> QED
  BY <1>3, <1>4, <1>5

\* A cancellation: of one that waits, of one whose worker is waited for, of one
\* that was cancelled before.
LEMMA CancelStep ==
    ASSUME IInv, NEW t \in Tasks, Cancel(t)
    PROVE  IInv'
<1>type. TypeOK
  BY DEF IInv
<1>0. /\ UNCHANGED <<client, connected, open, alive, made, worker, unloading>>
      /\ cancels' \in 0..MaxCancels
      /\ twice' = IF Cancelled(t) THEN twice \cup {t} ELSE twice
      /\ twice' \subseteq Tasks
  BY <1>type, SshConstants DEF Cancel, shared, link, TypeOK
<1>1. ClosingForgotten' /\ AliveIsOpen' /\ NoOrphanedTransport'
  BY <1>0 DEF IInv, ClosingForgotten, AliveIsOpen, NoOrphanedTransport
<1>2. CASE task[t].phase = "waiting" \/ Cancelled(t)
  <2>0. /\ task' = [task EXCEPT ![t] = Idle]
        /\ lock' = IF lock = t THEN NoOne ELSE lock
    BY <1>2 DEF Cancel
  <2>1. Idle \in TaskRecords /\ Idle.phase = "idle" /\ Idle.sent = 0
    BY DEF Idle, TaskRecords, Phases
  <2>2. \A u \in Tasks : task'[u] = IF u = t THEN Idle ELSE task[u]
    BY <1>type, <2>0 DEF TypeOK
  <2>3. TypeOK'
    <3>1. task' \in [Tasks -> TaskRecords]
      BY <1>type, <2>0, <2>1 DEF TypeOK, TaskRecords
    <3>2. \A u \in Tasks : lock' = u <=> task'[u].phase \notin {"idle", "waiting"}
      BY <1>type, <2>0, <2>1, <2>2, SshConstants DEF TypeOK, Tasks
    <3>3. lock' \in Tasks \cup {NoOne}
      BY <1>type, <2>0 DEF TypeOK
    <3> QED
      BY <1>type, <1>0, <3>1, <3>2, <3>3 DEF TypeOK, TaskRecords
  <2>4. JobOfPhase' /\ Sends'
    BY <1>0, <2>1, <2>2 DEF IInv, JobOfPhase, Sends
  <2>5. NoClientMeanwhile'
    BY <1>0, <2>1, <2>2 DEF IInv, NoClientMeanwhile
  <2>6. WorkerHoldsTheLock'
    <3>1. ASSUME NEW u \in Tasks \ twice', worker'[u].job # "none"
          PROVE  lock' = u
      <4>1. u \notin twice /\ lock = u
        BY <1>0, <3>1 DEF IInv, WorkerHoldsTheLock
      <4>2. u # t
        BY <1>0, <1>2, <1>type, <3>1, <4>1 DEF TypeOK
      <4> QED
        BY <2>0, <4>1, <4>2
    <3> QED
      BY <3>1 DEF WorkerHoldsTheLock
  <2> QED
    BY <1>1, <2>3, <2>4, <2>5, <2>6 DEF IInv
<1>3. CASE ~(task[t].phase = "waiting" \/ Cancelled(t))
  <2>0. task' = [task EXCEPT ![t].cancelled = TRUE] /\ lock' = lock /\ twice' = twice
    BY <1>0, <1>3 DEF Cancel
  <2>1. task' \in [Tasks -> TaskRecords]
    BY <1>type, <2>0 DEF TypeOK, TaskRecords
  <2>2. \A u \in Tasks : /\ task'[u].phase = task[u].phase
                         /\ task'[u].retry = task[u].retry
                         /\ task'[u].sent = task[u].sent
    BY <1>type, <2>0 DEF TypeOK, TaskRecords
  <2>3. TypeOK'
    BY <1>type, <1>0, <2>0, <2>1, <2>2 DEF TypeOK, TaskRecords
  <2>4. JobOfPhase' /\ Sends' /\ NoClientMeanwhile' /\ WorkerHoldsTheLock'
    BY <1>0, <2>0, <2>2
    DEF IInv, JobOfPhase, Sends, NoClientMeanwhile, WorkerHoldsTheLock
  <2> QED
    BY <1>1, <2>3, <2>4 DEF IInv
<1> QED
  BY <1>2, <1>3

\* A worker without its coroutine: the coroutine was cancelled twice.
LEMMA OrphanStep ==
    ASSUME IInv, NEW t \in Tasks, OrphanDone(t)
    PROVE  IInv'
<1>type. TypeOK
  BY DEF IInv
<1>0. /\ UNCHANGED <<connected, lock, task, unloading, cancels, twice>>
      /\ worker' = [worker EXCEPT ![t] = NoJob]
  BY DEF OrphanDone, Joined, ending
<1>1. NoJob \in WorkerRecords /\ NoJob.job = "none"
  BY DEF NoJob, WorkerRecords
<1>2. \A u \in Tasks : worker'[u] = IF u = t THEN NoJob ELSE worker[u]
  BY <1>type, <1>0 DEF TypeOK
<1>3. JobOfPhase'
  BY <1>0, <1>2 DEF IInv, JobOfPhase, OrphanDone
<1>4. WorkerHoldsTheLock' /\ Sends'
  BY <1>0, <1>1, <1>2 DEF IInv, WorkerHoldsTheLock, Sends
<1>5. /\ client \in 0..made /\ made \in 0..MaxTransports
      /\ client \in Transports \cup {NoClient}
      /\ worker[t].job = "close" => worker[t].on # client
  BY <1>type, SshConstants
  DEF IInv, TypeOK, ClosingForgotten, Transports, NoClient
<1>6. \/ UNCHANGED <<client, open, alive, made>>
      \/ /\ worker[t].job = "close"
         /\ open' = open \ {worker[t].on}
         /\ UNCHANGED <<client, alive, made>>
      \/ /\ made' \in 0..MaxTransports /\ made' \in Transports /\ made' = made + 1
         /\ client' = made'
         /\ open' = open \cup {made'} /\ alive' = alive \cup {made'}
  BY <1>5, SshConstants DEF OrphanDone, link, Transports
<1>7. /\ client' \in Transports \cup {NoClient} /\ made' \in 0..MaxTransports
      /\ open' \subseteq Transports /\ alive' \subseteq Transports
      /\ connected => client' \in open'
      /\ client' \in alive' => client' \in open'
  BY <1>type, <1>5, <1>6 DEF IInv, TypeOK, AliveIsOpen
<1>8. TypeOK'
  <2>1. worker' \in [Tasks -> WorkerRecords]
    BY <1>type, <1>0, <1>1 DEF TypeOK, WorkerRecords
  <2> QED
    BY <1>type, <1>0, <1>7, <2>1 DEF TypeOK, WorkerRecords
<1>9. ClosingForgotten'
  <2>1. client' <= made' /\ made <= made'
        /\ (client' = client \/ (client' = made' /\ made < made'))
    BY <1>5, <1>6
  <2>2. ASSUME NEW u \in Tasks, worker'[u].job = "close"
        PROVE  worker'[u].on \in 1..made' /\ worker'[u].on # client'
    <3>1. worker'[u] = worker[u]
      BY <1>1, <1>2, <2>2
    <3>2. worker[u].on \in 1..made /\ worker[u].on # client
      BY <2>2, <3>1 DEF IInv, ClosingForgotten
    <3> QED
      BY <1>5, <1>7, <2>1, <3>1, <3>2
  <2> QED
    BY <2>1, <2>2 DEF ClosingForgotten
<1>10. t \in twice
  BY Waiter DEF OrphanDone, IInv, TypeOK, NoJob
<1>11. NoClientMeanwhile' /\ NoOrphanedTransport'
  BY <1>0, <1>10 DEF NoClientMeanwhile, NoOrphanedTransport
<1> QED
  BY <1>3, <1>4, <1>7, <1>8, <1>9, <1>11 DEF IInv, AliveIsOpen

-----------------------------------------------------------------------------
(* The actions. *)

\* A command that has got the lock.
LEMMA ExecLockedStep ==
    ASSUME IInv, NEW t \in Tasks, ExecLocked(t)
    PROVE  IInv'
<1>1. /\ task[t].phase = "waiting" /\ lock = NoOne /\ lock' = t /\ Send(t, TRUE)
      /\ UNCHANGED <<client, connected, open, alive, made>> /\ UNCHANGED ending
  BY DEF ExecLocked, shared, link
<1>2. SharedStep
  BY <1>1, SharedKept
<1>3. task[t].sent <= IF TRUE THEN 0 ELSE 1
  BY <1>1 DEF IInv, Sends
<1>4. twice = {} => \A n \in open' : n = client'
  BY <1>1, Turn
<1> QED
  BY <1>1, <1>2, <1>3, <1>4, SendStep

\* A turn that only looks at the client: it is alive, or there is none to close.
LEMMA NothingToDoStep ==
    ASSUME IInv, NEW t \in Tasks, task[t].phase = "waiting", lock = NoOne,
           task' = [task EXCEPT ![t] = Idle],
           UNCHANGED <<client, lock, worker, open, alive, made>>,
           UNCHANGED ending,
           connected' = FALSE \/ (client \in open /\ connected' = TRUE)
    PROVE  IInv'
<1>type. TypeOK /\ \A u \in Tasks : u # NoOne
  BY SshConstants DEF IInv, Tasks
<1>1. /\ Idle \in TaskRecords /\ Idle.phase = "idle" /\ Idle.sent = 0
      /\ UNCHANGED <<unloading, cancels, twice>>
  BY DEF Idle, TaskRecords, Phases, ending
<1>2. \A u \in Tasks : task'[u] = IF u = t THEN Idle ELSE task[u]
  BY <1>type DEF TypeOK
<1>3. TypeOK'
  <2>1. task' \in [Tasks -> TaskRecords]
    BY <1>type, <1>1 DEF TypeOK, TaskRecords
  <2>2. \A u \in Tasks : lock' = u <=> task'[u].phase \notin {"idle", "waiting"}
    BY <1>type, <1>1, <1>2 DEF TypeOK
  <2> QED
    BY <1>type, <1>1, <2>1, <2>2 DEF TypeOK, TaskRecords
<1>4. JobOfPhase' /\ Sends' /\ NoClientMeanwhile'
  BY <1>1, <1>2 DEF IInv, JobOfPhase, Sends, NoClientMeanwhile
<1>5. ClosingForgotten' /\ AliveIsOpen' /\ WorkerHoldsTheLock'
  BY <1>1 DEF IInv, ClosingForgotten, AliveIsOpen, WorkerHoldsTheLock
<1>6. NoOrphanedTransport'
  BY <1>1 DEF IInv, NoOrphanedTransport
<1> QED
  BY <1>3, <1>4, <1>5, <1>6 DEF IInv

\* A turn that closes the client first.
LEMMA ForgetStep ==
    ASSUME IInv, NEW t \in Tasks, task[t].phase = "waiting", lock = NoOne,
           NEW p \in {"preclose", "closing"}, client # NoClient,
           lock' = t, Forget(t, p), UNCHANGED <<open, alive, made>>,
           UNCHANGED ending
    PROVE  IInv'
<1>1. /\ client' = NoClient /\ connected' = FALSE /\ Run(t, p, "close", client)
      /\ NoClient \notin Transports
  BY DEF Forget, NoClient, Transports
<1>2. task[t].sent <= 1 /\ client \in 1..made
  BY Turn DEF IInv, Sends, NoClient
<1>3. twice = {} => \A m \in open' : "close" = "close" /\ m = client
  BY Turn
<1>4. SharedStep /\ client \in Transports \cup {NoClient}
  BY <1>1, SharedKept, Turn
<1>5. client \in 1..made' /\ client # client'
  BY <1>1, <1>2
<1>6. p \in Emptied /\ p # "connecting"
  BY DEF Emptied
<1> QED
  BY <1>1, <1>2, <1>3, <1>4, <1>5, <1>6, RunStep

\* A connection attempt that has got the lock.
LEMMA ConnectLockedStep ==
    ASSUME IInv, NEW t \in Tasks, ConnectLocked(t)
    PROVE  IInv'
<1>0. /\ task[t].phase = "waiting" /\ lock = NoOne
      /\ UNCHANGED <<open, alive, made>> /\ UNCHANGED ending
  BY DEF ConnectLocked, link
<1>1. CASE client \in alive
  <2>1. /\ connected' = TRUE /\ task' = [task EXCEPT ![t] = Idle]
        /\ UNCHANGED <<client, lock, worker>> /\ client \in open
    BY <1>1, Turn, <1>0 DEF ConnectLocked, IInv, AliveIsOpen, Transports, NoClient
  <2> QED
    BY <1>0, <2>1, NothingToDoStep
<1>2. CASE client \notin alive /\ client # NoClient
  <2>1. lock' = t /\ Forget(t, "preclose")
    BY <1>2 DEF ConnectLocked
  <2> QED
    BY <1>0, <1>2, <2>1, ForgetStep
<1>3. CASE client \notin alive /\ client = NoClient
  <2>1. /\ lock' = t /\ connected' = FALSE /\ UNCHANGED client
        /\ Run(t, "connecting", "connect", NoClient) /\ client = NoClient
    BY <1>3 DEF ConnectLocked
  <2>2. task[t].sent <= 1 /\ (twice = {} => open = {})
    BY <1>0, <1>3, Turn DEF IInv, Sends, NoClient, Transports
  <2>3. SharedStep
    BY <1>0, <2>1, SharedKept
  <2>4. "connecting" \in Emptied /\ NoClient \in Transports \cup {NoClient}
    BY DEF Emptied
  <2> QED
    BY <1>0, <2>1, <2>2, <2>3, <2>4, RunStep
<1> QED
  BY <1>1, <1>2, <1>3

\* A disconnection that has got the lock.
LEMMA DisconnectLockedStep ==
    ASSUME IInv, DisconnectLocked
    PROVE  IInv'
<1>0. /\ Closer \in Tasks /\ task[Closer].phase = "waiting" /\ lock = NoOne
      /\ UNCHANGED <<open, alive, made>> /\ UNCHANGED ending
  BY DEF DisconnectLocked, Tasks, link
<1>1. CASE client # NoClient
  <2>1. lock' = Closer /\ Forget(Closer, "closing")
    BY <1>1 DEF DisconnectLocked
  <2> QED
    BY <1>0, <1>1, <2>1, ForgetStep
<1>2. CASE client = NoClient
  <2>1. /\ connected' = FALSE /\ task' = [task EXCEPT ![Closer] = Idle]
        /\ UNCHANGED <<client, lock, worker>>
    BY <1>2 DEF DisconnectLocked
  <2> QED
    BY <1>0, <2>1, NothingToDoStep
<1> QED
  BY <1>1, <1>2

\* A command that ends.
LEMMA ExecDoneStep ==
    ASSUME IInv, NEW t \in Tasks, ExecDone(t)
    PROVE  IInv'
<1>1. /\ task[t].phase = "exec" /\ Joined(t) /\ Return(t)
      /\ UNCHANGED <<client, connected, open, alive, made>> /\ UNCHANGED ending
  BY DEF ExecDone, shared, link
<1>2. worker[t].job = "exec" /\ task[t].phase \notin Outside
  BY <1>1 DEF IInv, JobOfPhase, Outside
<1>3. SharedStep
  BY <1>1, SharedKept
<1>4. twice = {} => \A n \in open' : n = client'
  BY <1>1, <1>2, Turn
<1> QED
  BY <1>1, <1>2, <1>3, <1>4, ReturnStep

\* The command failed: the client is closed, and its transport with it.
LEMMA ExecFailsStep ==
    ASSUME IInv, NEW t \in Tasks, ExecFails(t)
    PROVE  IInv'
<1>0. /\ task[t].phase = "exec" /\ UNCHANGED <<made, alive>> /\ UNCHANGED ending
  BY DEF ExecFails
<1>1. worker[t].job = "exec" /\ task[t].phase \notin Outside /\ lock = t
  BY <1>0 DEF IInv, TypeOK, JobOfPhase, Outside
<1>2. twice = {} => \A n \in open : n = client
  BY <1>1, Turn
<1>3. CASE Cancelled(t)
  <2>1. Joined(t) /\ Return(t) /\ UNCHANGED <<client, connected, open>>
    BY <1>3 DEF ExecFails, shared
  <2>2. SharedStep
    BY <1>0, <2>1, SharedKept
  <2> QED
    BY <1>0, <1>1, <1>2, <2>1, <2>2, ReturnStep
<1>4. CASE ~Cancelled(t)
  <2>1. /\ connected' = FALSE /\ client' = NoClient /\ open' = open \ {client}
        /\ IF task[t].retry
           THEN Run(t, "connecting", "connect", NoClient) /\ UNCHANGED lock
           ELSE Joined(t) /\ Return(t)
    BY <1>4 DEF ExecFails
  <2>2. SharedStep
    <3>1. /\ open \subseteq Transports /\ alive \subseteq Transports
          /\ made \in 0..MaxTransports /\ made <= made
      BY Turn, <1>1
    <3>2. NoClient \notin alive
      BY <3>1 DEF NoClient, Transports
    <3> QED
      BY <1>0, <2>1, <3>1, <3>2 DEF SharedStep
  <2>3. twice = {} => open' = {}
    BY <1>2, <2>1
  <2>4. CASE task[t].retry
    <3>1. task[t].sent <= 1
      BY <1>0, <2>4 DEF IInv, Sends
    <3>2. "connecting" \in Emptied /\ NoClient \in Transports \cup {NoClient}
      BY DEF Emptied
    <3>3. Run(t, "connecting", "connect", NoClient) /\ lock' = t
      BY <1>1, <2>1, <2>4
    <3> QED
      BY <1>0, <1>1, <2>1, <2>2, <2>3, <3>1, <3>2, <3>3, RunStep
  <2>5. CASE ~task[t].retry
    BY <1>0, <1>1, <2>1, <2>2, <2>3, <2>5, ReturnStep
  <2> QED
    BY <2>4, <2>5
<1> QED
  BY <1>3, <1>4

\* The connection is made: it is the client's, or the coroutine that wanted it
\* has been cancelled and closes it.
LEMMA ConnectDoneStep ==
    ASSUME IInv, NEW t \in Tasks, ConnectDone(t)
    PROVE  IInv'
<1>0. /\ task[t].phase = "connecting" /\ made < MaxTransports
      /\ made' = made + 1 /\ alive' = alive \cup {made'}
      /\ open' = open \cup {made'} /\ UNCHANGED ending
  BY DEF ConnectDone
<1>1. /\ worker[t].job = "connect" /\ task[t].phase \notin Outside /\ lock = t
      /\ task[t].sent <= 1 /\ (twice = {} => client = NoClient)
  BY <1>0 DEF IInv, TypeOK, JobOfPhase, NoClientMeanwhile, Sends, Outside
<1>2. /\ client \in 0..made /\ made \in 0..MaxTransports
      /\ open \subseteq Transports /\ alive \subseteq Transports
      /\ connected \in BOOLEAN /\ (connected => client \in open)
  BY <1>1, Turn DEF IInv, TypeOK
<1>3. twice = {} => open = {}
  BY <1>1, <1>2, Turn DEF NoClient, Transports
<1>4. /\ made' \in 0..MaxTransports /\ made' \in Transports
      /\ made < made' /\ made <= made' /\ made' \in 1..made'
      /\ open' \subseteq Transports /\ alive' \subseteq Transports
      /\ made' # NoClient /\ NoClient \notin Transports
  BY <1>0, <1>2, SshConstants DEF Transports, NoClient
<1>5. CASE client' = made' /\ connected' = TRUE
           /\ IF t \in Commands
              THEN Send(t, FALSE) /\ UNCHANGED lock
              ELSE Joined(t) /\ Return(t)
  <2>1. SharedStep
    BY <1>0, <1>4, <1>5 DEF SharedStep
  <2>2. twice = {} => \A n \in open' : n = client'
    BY <1>0, <1>3, <1>5
  <2>3. CASE t \in Commands
    <3>1. task[t].sent <= IF FALSE THEN 0 ELSE 1
      BY <1>1
    <3>2. Send(t, FALSE) /\ lock' = t
      BY <1>1, <1>5, <2>3
    <3> QED
      BY <1>0, <1>1, <2>1, <2>2, <3>1, <3>2, SendStep
  <2>4. CASE t \notin Commands
    BY <1>0, <1>1, <1>5, <2>1, <2>2, <2>4, ReturnStep
  <2> QED
    BY <2>3, <2>4
<1>6. CASE client' = made' /\ Joined(t) /\ Return(t) /\ UNCHANGED connected
  <2>1. connected' => client' \in open'
    BY <1>0, <1>6
  <2>2. SharedStep
    BY <1>0, <1>2, <1>4, <1>6, <2>1 DEF SharedStep
  <2>3. twice = {} => \A n \in open' : n = client'
    BY <1>0, <1>3, <1>6
  <2> QED
    BY <1>0, <1>1, <1>6, <2>2, <2>3, ReturnStep
<1>7. CASE client' = NoClient /\ connected' = FALSE
           /\ Run(t, "closing", "close", made') /\ UNCHANGED lock
  <2>1. SharedStep
    BY <1>0, <1>4, <1>7 DEF SharedStep
  <2>2. twice = {} => \A m \in open' : "close" = "close" /\ m = made'
    BY <1>0, <1>3
  <2>3. "closing" \in Emptied /\ lock' = t /\ made' \in Transports \cup {NoClient}
    BY <1>1, <1>4, <1>7 DEF Emptied
  <2>4. made' \in 1..made' /\ made' # client'
    BY <1>4, <1>7
  <2> QED
    BY <1>0, <1>1, <1>7, <2>1, <2>2, <2>3, <2>4, RunStep
<1> QED
  BY <1>5, <1>6, <1>7 DEF ConnectDone

\* A connection attempt that fails.
LEMMA ConnectFailsStep ==
    ASSUME IInv, NEW t \in Tasks, ConnectFails(t)
    PROVE  IInv'
<1>1. /\ task[t].phase = "connecting" /\ Joined(t) /\ Return(t)
      /\ UNCHANGED <<client, connected, open, alive, made>> /\ UNCHANGED ending
  BY DEF ConnectFails, shared, link
<1>2. worker[t].job = "connect" /\ task[t].phase \notin Outside
  BY <1>1 DEF IInv, JobOfPhase, Outside
<1>3. SharedStep
  BY <1>1, SharedKept
<1>4. twice = {} => \A n \in open' : n = client'
  BY <1>1, <1>2, Turn
<1> QED
  BY <1>1, <1>2, <1>3, <1>4, ReturnStep

\* The transport is closed; nobody has put it back in the meantime.
LEMMA CloseDoneStep ==
    ASSUME IInv, NEW t \in Tasks, CloseDone(t)
    PROVE  IInv'
<1>0. /\ task[t].phase \in {"preclose", "closing"}
      /\ open' = open \ {worker[t].on}
      /\ UNCHANGED <<client, connected, alive, made>> /\ UNCHANGED ending
  BY DEF CloseDone, shared
<1>1. /\ task[t].phase \notin Outside /\ lock = t /\ task[t].sent <= 1
      /\ worker[t].on # client
      /\ twice = {} => client = NoClient
  BY <1>0 DEF IInv, TypeOK, JobOfPhase, ClosingForgotten, NoClientMeanwhile,
              Sends, Outside
<1>2. SharedStep
  <2>1. /\ client \in Transports \cup {NoClient} /\ made \in 0..MaxTransports
        /\ made <= made
        /\ open \subseteq Transports /\ alive \subseteq Transports
        /\ connected \in BOOLEAN /\ (connected => client \in open)
        /\ client \in alive => client \in open
    BY <1>1, Turn DEF IInv, TypeOK, AliveIsOpen
  <2> QED
    BY <1>0, <1>1, <2>1 DEF SharedStep
<1>3. twice = {} => open' = {}
  <2>1. NoClient \notin open
    BY <1>1, Turn DEF NoClient, Transports
  <2> QED
    BY <1>0, <1>1, <2>1, Turn
<1>4. CASE Run(t, "connecting", "connect", NoClient) /\ UNCHANGED lock
  <2>1. "connecting" \in Emptied /\ NoClient \in Transports \cup {NoClient}
        /\ lock' = t /\ (client' = NoClient \/ twice # {})
    BY <1>0, <1>1, <1>4 DEF Emptied
  <2> QED
    BY <1>0, <1>1, <1>2, <1>3, <1>4, <2>1, RunStep
<1>5. CASE Joined(t) /\ Return(t)
  BY <1>0, <1>1, <1>2, <1>3, <1>5, ReturnStep
<1> QED
  BY <1>4, <1>5 DEF CloseDone

\* A connection that breaks, in use or not.
LEMMA LinkBreaksStep ==
    ASSUME IInv, NEW n \in Transports, LinkBreaks(n)
    PROVE  IInv'
<1>1. /\ alive' = alive \ {n}
      /\ UNCHANGED <<client, connected, lock, task, worker, open, made,
                     unloading, cancels, twice>>
  BY DEF LinkBreaks, shared, ending
<1>2. TypeOK'
  BY <1>1 DEF IInv, TypeOK
<1>3. AliveIsOpen'
  BY <1>1 DEF IInv, AliveIsOpen
<1>4. JobOfPhase' /\ ClosingForgotten' /\ Sends'
  BY <1>1 DEF IInv, JobOfPhase, ClosingForgotten, Sends
<1>5. WorkerHoldsTheLock' /\ NoClientMeanwhile' /\ NoOrphanedTransport'
  BY <1>1 DEF IInv, WorkerHoldsTheLock, NoClientMeanwhile, NoOrphanedTransport
<1> QED
  BY <1>2, <1>3, <1>4, <1>5 DEF IInv

\* Every step keeps it.
LEMMA NextIInv == IInv /\ [Next]_vars => IInv'
<1> SUFFICES ASSUME IInv, [Next]_vars PROVE IInv'
  OBVIOUS
<1>1. ASSUME NEW t \in Tasks, Start(t) \/ Locked(t)
      PROVE  IInv'
  BY <1>1, StartStep, ExecLockedStep, ConnectLockedStep, DisconnectLockedStep
  DEF Locked
<1>2. ASSUME NEW t \in Tasks, WorkerStep(t)
      PROVE  IInv'
  BY <1>2, ExecDoneStep, ExecFailsStep, ConnectDoneStep, ConnectFailsStep,
     CloseDoneStep DEF WorkerStep
<1>3. ASSUME NEW t \in Tasks, Cancel(t) \/ OrphanDone(t)
      PROVE  IInv'
  BY <1>3, CancelStep, OrphanStep
<1>4. ASSUME NEW n \in Transports, LinkBreaks(n)
      PROVE  IInv'
  BY <1>4, LinkBreaksStep
<1>5. CASE UNCHANGED vars
  BY <1>5 DEF vars, IInv, TypeOK, JobOfPhase, ClosingForgotten, AliveIsOpen,
      WorkerHoldsTheLock, NoClientMeanwhile, NoOrphanedTransport, Sends
<1> QED
  BY <1>1, <1>2, <1>3, <1>4, <1>5 DEF Next

-----------------------------------------------------------------------------

\* The strengthened invariant holds in every reachable state.
LEMMA Invariance == Spec => []IInv
BY InitIInv, NextIInv, PTL DEF Spec

\* Every reachable state is well typed; in particular the lock is held exactly
\* by the coroutine that is past `async with self._connection_lock`.
THEOREM TypeCorrect == Spec => []TypeOK
<1>1. IInv => TypeOK
  BY DEF IInv
<1> QED
  BY <1>1, Invariance, PTL

\* However many coroutines, failures and reconnects: no worker uses the client
\* beside the lock's holder, unless its coroutine was cancelled twice.
THEOREM WorkersTakeTurns == Spec => []WorkerHoldsTheLock
<1>1. IInv => WorkerHoldsTheLock
  BY DEF IInv
<1> QED
  BY <1>1, Invariance, PTL

\* As long as no coroutine is cancelled twice, every open transport is the
\* client's or is being closed.
THEOREM TransportsAreOwned == Spec => []NoOrphanedTransport
<1>1. IInv => NoOrphanedTransport
  BY DEF IInv
<1> QED
  BY <1>1, Invariance, PTL

\* No command is sent a third time, whatever breaks and whoever is cancelled.
THEOREM NeverSentAThirdTime == Spec => []SentAtMostTwice
<1>1. IInv => SentAtMostTwice
  <2>1. ASSUME IInv, NEW t \in Commands
        PROVE  task[t].sent <= 2
    <3>1. t \in Tasks /\ task[t] \in TaskRecords
      BY <2>1 DEF IInv, TypeOK, TaskRecords, Tasks
    <3>2. task[t].phase \in Phases /\ task[t].sent \in Nat
      BY <3>1 DEF TaskRecords
    <3> QED
      BY <2>1, <3>1, <3>2 DEF IInv, Sends, Phases
  <2> QED
    BY <2>1 DEF SentAtMostTwice
<1> QED
  BY <1>1, Invariance, PTL
=============================================================================
