---------------------------- MODULE OskDeadman ----------------------------
(***************************************************************************)
(* The OSK deadman of osk/deadman.rs and the sink it owns (osk/mod.rs,     *)
(* osk/wireguard.rs, osk/outfile.rs).                                      *)
(*                                                                         *)
(* OskDeadman::start creates a bounded request channel and a detached OS   *)
(* thread whose single-threaded runtime runs DeadmanWorker::event_loop:    *)
(* erase the sink, then loop { next_erase = now + erase_after; wait for a  *)
(* request until next_erase }.  A request installs its key, closure of the *)
(* channel (every OskDeadman handle dropped) erases and ends the loop, and *)
(* an elapsed deadline erases and loops.  Any sink error is propagated by  *)
(* `?` to thread_run, whose caller panics: the worker thread dies.         *)
(*                                                                         *)
(* Time is discrete.  `timer` is the number of ticks left until            *)
(* next_erase and `age` the ticks since the sink was last written.  The    *)
(* worker runs on its own thread and runtime, so its timeout fires on      *)
(* time: no tick passes a deadline the waiting worker has not acted on.    *)
(* Keys are abstracted to their SetOskReason: the producers only ever call *)
(* set_fresh_osk.                                                          *)
(***************************************************************************)
EXTENDS Naturals

CONSTANTS
    EraseAfter,     \* erase_after in ticks (rekey_interval + 30 s in setup.rs)
    DeadmanCap,     \* capacity of the request channel (8 in the code)
    Producers,      \* OskDeadman handles (clones) alive at startup
    SinkMayFail     \* may set_osk of the sink return an error?

ASSUME EraseAfterAssumption == EraseAfter \in Nat \ {0}
ASSUME DeadmanCapAssumption == DeadmanCap \in Nat \ {0}
ASSUME ProducersAssumption == Producers \in Nat \ {0}
ASSUME SinkMayFailAssumption == SinkMayFail \in BOOLEAN

WorkerState == {"starting", "waiting", "stopped", "panicked"}

VARIABLES
    worker,     \* where the worker thread is
    timer,      \* ticks left until next_erase
    queued,     \* SetOsk requests in the channel
    handles,    \* OskDeadman handles not yet dropped
    sink,       \* SetOskReason of the key the sink holds
    age,        \* ticks since the sink was last written
    alive       \* the process is running

vars == <<worker, timer, queued, handles, sink, age, alive>>

-----------------------------------------------------------------------------

\* The sink holds a key of an earlier run of the process, of either reason.
Init ==
    /\ worker = "starting"
    /\ timer = EraseAfter
    /\ queued = 0
    /\ handles = Producers
    /\ sink \in {"Fresh", "Stale"}
    /\ age = 0
    /\ alive = TRUE

\* broker.set_osk(key, reason) (erase_stale_osk is set_osk with a random
\* Stale key): the sink takes the key and the worker goes on at w; or the
\* sink fails (netlink set_device, the outfile's create or write), `?`
\* returns the error and thread_run's caller panics.
SinkWrite(r, w) ==
    \/ /\ sink' = r
       /\ age' = 0
       /\ worker' = w
    \/ /\ SinkMayFail
       /\ worker' = "panicked"
       /\ UNCHANGED <<sink, age>>

\* The worker thread starts: erase whatever key the sink holds, then enter
\* the loop with a fresh deadline.
Start ==
    /\ alive
    /\ worker = "starting"
    /\ SinkWrite("Stale", "waiting")
    /\ timer' = EraseAfter
    /\ UNCHANGED <<queued, handles, alive>>

\* Seeded fault: a send that does not wait for room in the channel.
SendUnbounded ==
    /\ alive
    /\ handles > 0
    /\ worker \notin {"stopped", "panicked"}
    /\ queued' = queued + 1
    /\ UNCHANGED <<worker, timer, handles, sink, age, alive>>

\* OskDeadman::set_osk_impl: a producer's send completes once the channel
\* has room.  After the worker thread died the receiver is gone and the
\* send returns an error, leaving the deadman as it is.
Send ==
    /\ alive
    /\ handles > 0
    /\ worker \notin {"stopped", "panicked"}
    /\ queued < DeadmanCap
    /\ queued' = queued + 1
    /\ UNCHANGED <<worker, timer, handles, sink, age, alive>>

\* A request is received before the deadline: install the key, and the
\* loop recomputes next_erase.
Receive ==
    /\ alive
    /\ worker = "waiting"
    /\ queued > 0
    /\ queued' = queued - 1
    /\ SinkWrite("Fresh", "waiting")
    /\ timer' = EraseAfter
    /\ UNCHANGED <<handles, alive>>

\* Seeded fault: the deadline elapses and the erase call is missing.
TimeoutNoErase ==
    /\ alive
    /\ worker = "waiting"
    /\ queued = 0
    /\ handles > 0
    /\ timer = 0
    /\ timer' = EraseAfter
    /\ UNCHANGED <<worker, queued, handles, sink, age, alive>>

\* The deadline elapses with the channel empty and open (timeout_at polls
\* recv first): erase, and the loop recomputes next_erase.
Timeout ==
    /\ alive
    /\ worker = "waiting"
    /\ queued = 0
    /\ handles > 0
    /\ timer = 0
    /\ SinkWrite("Stale", "waiting")
    /\ timer' = EraseAfter
    /\ UNCHANGED <<queued, handles, alive>>

\* recv returns None: every handle is dropped and the channel drained.
\* Erase and leave the loop; the worker thread ends.
Closed ==
    /\ alive
    /\ worker = "waiting"
    /\ queued = 0
    /\ handles = 0
    /\ SinkWrite("Stale", "stopped")
    /\ UNCHANGED <<timer, queued, handles, alive>>

\* A holder of an OskDeadman clone drops it.
DropHandle ==
    /\ alive
    /\ handles > 0
    /\ handles' = handles - 1
    /\ UNCHANGED <<worker, timer, queued, sink, age, alive>>

\* main returns (tokio::main has dropped the runtime and with it every
\* handle) and the process exits; the detached worker thread is not joined.
ProcessExit ==
    /\ alive
    /\ handles = 0
    /\ alive' = FALSE
    /\ UNCHANGED <<worker, timer, queued, handles, sink, age>>

\* One unit of time passes.  A waiting worker's deadline is never overrun;
\* once the process is gone, time passes over the sink's key unguarded.
Tick ==
    /\ alive => worker # "starting"
    /\ alive /\ worker = "waiting" => timer > 0
    /\ timer' = IF alive /\ worker = "waiting" THEN timer - 1 ELSE timer
    /\ age' = IF age > EraseAfter THEN age ELSE age + 1
    /\ UNCHANGED <<worker, queued, handles, sink, alive>>

Next ==
    \/ Start
    \/ Send
    \/ Receive
    \/ Timeout
    \/ Closed
    \/ DropHandle
    \/ ProcessExit
    \/ Tick

Spec == Init /\ [][Next]_vars

-----------------------------------------------------------------------------
(* Properties *)

TypeOK ==
    /\ worker \in WorkerState
    /\ timer \in 0 .. EraseAfter
    /\ queued \in 0 .. DeadmanCap
    /\ handles \in 0 .. Producers
    /\ sink \in {"Fresh", "Stale"}
    /\ age \in 0 .. EraseAfter + 1
    /\ alive \in BOOLEAN

\* Spec 4.6: while the process runs, the sink never holds a Fresh key for
\* more than erase_after without a refresh, whatever the interleaving of
\* producers' sends, handle drops, deadlines and the startup erase.
FreshKeyBounded == alive /\ sink = "Fresh" => age <= EraseAfter

\* The deadman implements the abstract key lifetime of KeyLifetime: every
\* step of the worker, the producers and the clock is an install, an erase,
\* a tick the abstract spec allows, the process ending, or no change.
KL == INSTANCE KeyLifetime WITH reason <- sink, running <- alive

LifetimeRefined == KL!Spec

\* OskDeadman's doc comment: once all handles are dropped "the worker thread
\* will automatically be closed and the OSK will be erased".  Stated as:
\* when the process has exited, the sink holds a Stale key.
ErasedOnShutdown == ~alive => sink = "Stale"

=============================================================================
