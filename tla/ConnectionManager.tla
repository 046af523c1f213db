------------------------- MODULE ConnectionManager -------------------------
(***************************************************************************)
(* The server side of Daisyway: the connection manager of                 *)
(* net/tcp_server/connection_manager.rs together with the per-connection   *)
(* tasks it spawns (fanout_connection_handler.rs, fanout_osk_handler.rs)   *)
(* and the AbortOnDropHandle that cancels them.                            *)
(*                                                                         *)
(* The manager runs one serial event loop over a tokio::select! of the     *)
(* TCP listener and a bounded mpsc channel on which every connection task  *)
(* reports `Osk` (it derived an output key) and `Exit` (it finished).      *)
(* Keys are abstracted to the id of the connection that derived them: the  *)
(* variable `forwarded` is the id whose key the manager last handed to its *)
(* OskHandler (the deadman), None before the first one.                    *)
(*                                                                         *)
(* A connection task is "running", "cancelling" (its handle was dropped:   *)
(* tokio aborts it at its next suspension point, but on the multi-thread   *)
(* runtime a poll already in progress may still complete one send), or     *)
(* "done".                                                                 *)
(***************************************************************************)
EXTENDS Integers, Sequences, FiniteSets, FiniteSetsExt

CONSTANTS
    MaxConn,        \* bound on accepted connections (ConnectionId is unbounded)
    MaxBudding,     \* MAX_BUDDING_CONNECTIONS (2000 in the code)
    ChanCap,        \* capacity of manager_notification channel (16 in the code)
    QkdMalformed    \* may the QKD device answer with malformed base64?

ASSUME MaxConnAssumption == MaxConn \in Nat \ {0}
ASSUME MaxBuddingAssumption == MaxBudding \in Nat \ {0}
ASSUME ChanCapAssumption == ChanCap \in Nat \ {0}
ASSUME QkdMalformedAssumption == QkdMalformed \in BOOLEAN

Conn == 0 .. MaxConn - 1
None == -1                      \* Option::None of active_connection
TaskState == {"unborn", "running", "cancelling", "done"}

OskEv(c) == [kind |-> "osk", conn |-> c]
ExitEv(c) == [kind |-> "exit", conn |-> c]
Event == {OskEv(c) : c \in Conn} \cup {ExitEv(c) : c \in Conn}

VARIABLES
    nextId,     \* next_connection_id
    active,     \* id of active_connection, or None
    budding,    \* key set of budding_connections
    task,       \* task[c]: state of the tokio task spawned for connection c
    chan,       \* manager_notification channel, oldest event first
    forwarded   \* connection whose key was last passed to osk_handler.set_osk

vars == <<nextId, active, budding, task, chan, forwarded>>

-----------------------------------------------------------------------------
(* Helpers *)

\* Seeded fault: the handle is a plain JoinHandle, whose drop detaches the task.
AbortAllDetached(t, S) == t

\* Dropping the AbortOnDropHandles of the connections in S: a running task
\* becomes cancelling, a finished one is unaffected.
AbortAll(t, S) ==
    [c \in DOMAIN t |-> IF c \in S /\ t[c] = "running" THEN "cancelling" ELSE t[c]]

\* A connection the manager keeps a handle for.
Tracked(c) == c \in budding \/ c = active

\* Seeded fault: an unbounded notification channel (no back-pressure).
CanSendUnbounded == TRUE

\* A send on the bounded notification channel completes only when it has room.
CanSend == Len(chan) < ChanCap

-----------------------------------------------------------------------------
(* The manager *)

Init ==
    /\ nextId = 0
    /\ active = None
    /\ budding = {}
    /\ task = [c \in Conn |-> "unborn"]
    /\ chan = <<>>
    /\ forwarded = None

\* The budding connection pruned to make room for a new one (pop_first).
EvictedWrong == IF Cardinality(budding) > MaxBudding THEN {Min(budding)} ELSE {}

Evicted == IF Cardinality(budding) >= MaxBudding THEN {Min(budding)} ELSE {}

\* on_accept: allocate an id, prune the oldest budding connection if the map
\* is full, spawn the connection task and register it as budding.
Accept ==
    /\ nextId < MaxConn
    /\ nextId' = nextId + 1
    /\ budding' = (budding \ Evicted) \cup {nextId}
    /\ task' = [AbortAll(task, Evicted) EXCEPT ![nextId] = "running"]
    /\ UNCHANGED <<active, chan, forwarded>>

\* Seeded fault: an Exit clears whichever connection is active.
RecvExitAnyActive ==
    /\ chan # <<>>
    /\ Head(chan).kind = "exit"
    /\ chan' = Tail(chan)
    /\ LET c == Head(chan).conn IN
       \/ /\ active # None
          /\ active' = None
          /\ task' = AbortAll(task, {active})
          /\ UNCHANGED budding
       \/ /\ active = None
          /\ budding' = budding \ {c}
          /\ task' = AbortAll(task, {c})
          /\ UNCHANGED active
    /\ UNCHANGED <<nextId, forwarded>>

\* on_exit: forget the connection, whether active, budding or unknown.
RecvExit ==
    /\ chan # <<>>
    /\ Head(chan).kind = "exit"
    /\ chan' = Tail(chan)
    /\ LET c == Head(chan).conn IN
       \/ /\ c = active
          /\ active' = None
          /\ task' = AbortAll(task, {c})
          /\ UNCHANGED budding
       \/ /\ c # active
          /\ c \in budding
          /\ budding' = budding \ {c}
          /\ task' = AbortAll(task, {c})
          /\ UNCHANGED active
       \/ /\ ~Tracked(c)
          /\ UNCHANGED <<active, budding, task>>
    /\ UNCHANGED <<nextId, forwarded>>

\* on_osk_from_stale: the key of a superseded connection is discarded.
OskFromStale(c) ==
    /\ active # None
    /\ c < active
    /\ UNCHANGED <<active, budding, task, forwarded>>

\* on_osk_from_active: forwarded unchanged to the OSK handler.
OskFromActive(c) ==
    /\ c = active
    /\ forwarded' = c
    /\ UNCHANGED <<active, budding, task>>

\* Seeded fault: promotion forgets to split off the older budding connections.
OskFromBuddingNoPrune(c) ==
    /\ active = None \/ c > active
    /\ \/ /\ c \notin budding
          /\ UNCHANGED <<active, budding, task, forwarded>>
       \/ /\ c \in budding
          /\ budding' = budding \ {c}
          /\ task' = AbortAll(task, {active})
          /\ active' = c
          /\ forwarded' = c

\* on_osk_from_budding: promote c, drop the budding connections older than c
\* and the previously active one, then forward the key.  A key from a
\* connection that is no longer budding is ignored.
OskFromBudding(c) ==
    /\ active = None \/ c > active
    /\ \/ /\ c \notin budding
          /\ UNCHANGED <<active, budding, task, forwarded>>
       \/ /\ c \in budding
          /\ budding' = {b \in budding : b > c}
          /\ task' = AbortAll(task, {b \in budding : b < c} \cup {active})
          /\ active' = c
          /\ forwarded' = c

\* on_osk: classify the event by comparing its id with the active id.
RecvOsk ==
    /\ chan # <<>>
    /\ Head(chan).kind = "osk"
    /\ chan' = Tail(chan)
    /\ LET c == Head(chan).conn IN
       \/ OskFromStale(c)
       \/ OskFromActive(c)
       \/ OskFromBudding(c)
    /\ UNCHANGED nextId

-----------------------------------------------------------------------------
(* The connection tasks *)

\* A rekey round of DaisywayServerProtocol succeeded and the FanoutOskHandler
\* enqueues its key for the manager.
RoundDone(c) ==
    /\ task[c] = "running"
    /\ CanSend
    /\ chan' = Append(chan, OskEv(c))
    /\ UNCHANGED <<nextId, active, budding, task, forwarded>>

\* The protocol loop failed (I/O, bad ack, QKD error): init_task reports Exit.
ConnectionExits(c) ==
    /\ task[c] = "running"
    /\ CanSend
    /\ chan' = Append(chan, ExitEv(c))
    /\ task' = [task EXCEPT ![c] = "done"]
    /\ UNCHANGED <<nextId, active, budding, forwarded>>

\* Etsi014Key::try_from unwraps the base64 decoding of the QKD reply: on a
\* malformed reply the task panics, and init_task never sends Exit.
ConnectionPanics(c) ==
    /\ QkdMalformed
    /\ task[c] = "running"
    /\ task' = [task EXCEPT ![c] = "done"]
    /\ UNCHANGED <<nextId, active, budding, chan, forwarded>>

\* The abort takes effect at the task's next suspension point.
Cancelled(c) ==
    /\ task[c] = "cancelling"
    /\ task' = [task EXCEPT ![c] = "done"]
    /\ UNCHANGED <<nextId, active, budding, chan, forwarded>>

\* A poll in progress when the handle was dropped completes one last send.
CancelRacesSend(c) ==
    /\ task[c] = "cancelling"
    /\ CanSend
    /\ \E e \in {OskEv(c), ExitEv(c)} : chan' = Append(chan, e)
    /\ task' = [task EXCEPT ![c] = "done"]
    /\ UNCHANGED <<nextId, active, budding, forwarded>>

Next ==
    \/ Accept
    \/ RecvExit
    \/ RecvOsk
    \/ \E c \in Conn :
          \/ RoundDone(c)
          \/ ConnectionExits(c)
          \/ ConnectionPanics(c)
          \/ Cancelled(c)
          \/ CancelRacesSend(c)

Spec == Init /\ [][Next]_vars

-----------------------------------------------------------------------------
(* Properties *)

TypeOK ==
    /\ nextId \in 0 .. MaxConn
    /\ active \in Conn \cup {None}
    /\ budding \subseteq Conn
    /\ task \in [Conn -> TaskState]
    /\ chan \in Seq(Event)
    /\ Len(chan) <= ChanCap
    /\ forwarded \in Conn \cup {None}

\* The budding map never grows past MAX_BUDDING_CONNECTIONS, whatever the
\* interleaving of accepts, exits and promotions (on_accept's pruning).
BuddingBound == Cardinality(budding) <= MaxBudding

\* Supersession (spec 8, "manager supersession"): once the key of connection
\* c has been handed to the OSK handler, no key of an older connection is
\* handed to it later, even when the active connection exits and late
\* events of aborted or pruned connections are still queued.
SupersessionMonotone == [][forwarded' >= forwarded]_vars

\* Every connection that could still be promoted is newer than the one whose
\* key was honoured last, and that one is the active connection while there
\* is one: what on_osk_from_budding's split_off and the strictly increasing
\* allocate_connection_id must together maintain.
PromotableAreNewer ==
    /\ active # None => forwarded = active
    /\ \A b \in budding : forwarded < b /\ b < nextId
    /\ forwarded < nextId

\* No orphan task: every connection task still running is one the manager
\* holds a handle for, so pruning, eviction and supersession really cancel
\* the tasks they forget (AbortOnDropHandle).
NoOrphanTask == \A c \in Conn : task[c] = "running" => Tracked(c)

\* No ghost connection: every connection the manager still counts as budding
\* or active is running, or its Exit is on its way (init_task's report).
NoGhostConnection ==
    \A c \in Conn : Tracked(c) => task[c] = "running" \/ ExitEv(c) \in Range(chan)

\* on_exit's comment: an Exit for a connection that is neither active nor
\* budding "is likely a bug".  Stated as: the manager never receives one.
ExitAlwaysKnown ==
    [][chan # <<>> /\ Head(chan).kind = "exit" /\ chan' = Tail(chan)
         => Tracked(Head(chan).conn)]_vars

=============================================================================
