------------------------- MODULE OskDeadmanProofs -------------------------
(***************************************************************************)
(* Proofs about OskDeadman for every deadline, channel capacity and number *)
(* of handles: type correctness, and, for a sink that never fails, the     *)
(* key-lifetime bound and the refinement of KeyLifetime.                   *)
(***************************************************************************)
EXTENDS OskDeadman, TLAPS

USE EraseAfterAssumption, DeadmanCapAssumption, ProducersAssumption,
    SinkMayFailAssumption

-----------------------------------------------------------------------------
(* Type correctness *)

\* A sink write leaves the sink, its age and the worker well typed.
LEMMA SinkWriteType ==
    ASSUME NEW r \in {"Fresh", "Stale"}, NEW w \in WorkerState, TypeOK,
           SinkWrite(r, w)
    PROVE  /\ sink' \in {"Fresh", "Stale"}
           /\ age' \in 0 .. EraseAfter + 1
           /\ worker' \in WorkerState
BY DEF SinkWrite, TypeOK, WorkerState

\* Every step, stuttering included, keeps the state well typed.
LEMMA TypeStep == TypeOK /\ [Next]_vars => TypeOK'
<1> SUFFICES ASSUME TypeOK, [Next]_vars PROVE TypeOK'
  OBVIOUS
<1>1. CASE Start
  BY <1>1, SinkWriteType DEF Start, TypeOK, WorkerState
<1>2. CASE Send
  BY <1>2 DEF Send, TypeOK
<1>3. CASE Receive
  BY <1>3, SinkWriteType DEF Receive, TypeOK, WorkerState
<1>4. CASE Timeout
  BY <1>4, SinkWriteType DEF Timeout, TypeOK, WorkerState
<1>5. CASE Closed
  BY <1>5, SinkWriteType DEF Closed, TypeOK, WorkerState
<1>6. CASE DropHandle
  BY <1>6 DEF DropHandle, TypeOK
<1>7. CASE ProcessExit
  BY <1>7 DEF ProcessExit, TypeOK
<1>8. CASE Tick
  BY <1>8 DEF Tick, TypeOK
<1>9. CASE UNCHANGED vars
  BY <1>9 DEF vars, TypeOK
<1> QED
  BY <1>1, <1>2, <1>3, <1>4, <1>5, <1>6, <1>7, <1>8, <1>9 DEF Next

\* Every state of a behaviour of Spec is well typed.
THEOREM TypeCorrect == Spec => []TypeOK
<1>1. Init => TypeOK
  BY DEF Init, TypeOK, WorkerState
<1> QED
  BY <1>1, TypeStep, PTL DEF Spec

-----------------------------------------------------------------------------
(* Key lifetime, for a sink that never fails *)

\* The inductive invariant: while the process runs, a waiting worker's
\* deadline is exactly erase_after after the sink's last write, nothing has
\* aged before the worker started, a stopped worker left a Stale key, and
\* without sink errors the worker never panics.
IInv ==
    /\ TypeOK
    /\ alive /\ worker = "waiting" => age + timer = EraseAfter
    /\ alive /\ worker = "starting" => age = 0
    /\ worker = "stopped" => sink = "Stale"
    /\ worker # "panicked"

\* Without sink errors a sink write always succeeds.
LEMMA SinkWriteOk ==
    ASSUME ~SinkMayFail, NEW r, NEW w, SinkWrite(r, w)
    PROVE  sink' = r /\ age' = 0 /\ worker' = w
BY DEF SinkWrite

\* Init establishes the inductive invariant.
LEMMA InitIInv == Init => IInv
BY DEF Init, IInv, TypeOK, WorkerState

\* Every step preserves the inductive invariant.
LEMMA NextIInv ==
    ASSUME ~SinkMayFail
    PROVE  IInv /\ [Next]_vars => IInv'
<1> SUFFICES ASSUME IInv, [Next]_vars PROVE IInv'
  OBVIOUS
<1>1. TypeOK'
  BY TypeStep DEF IInv
<1>2. CASE Start
  BY <1>1, <1>2, SinkWriteOk DEF Start, IInv
<1>3. CASE Send
  BY <1>1, <1>3 DEF Send, IInv
<1>4. CASE Receive
  <2>1. sink' = "Fresh" /\ age' = 0 /\ worker' = "waiting"
    BY <1>4, SinkWriteOk DEF Receive
  <2> QED
    BY <1>1, <1>4, <2>1 DEF Receive, IInv, TypeOK
<1>5. CASE Timeout
  <2>1. sink' = "Stale" /\ age' = 0 /\ worker' = "waiting"
    BY <1>5, SinkWriteOk DEF Timeout
  <2> QED
    BY <1>1, <1>5, <2>1 DEF Timeout, IInv, TypeOK
<1>6. CASE Closed
  BY <1>1, <1>6, SinkWriteOk DEF Closed, IInv
<1>7. CASE DropHandle
  BY <1>1, <1>7 DEF DropHandle, IInv
<1>8. CASE ProcessExit
  BY <1>1, <1>8 DEF ProcessExit, IInv
<1>9. CASE Tick
  BY <1>1, <1>9 DEF Tick, IInv, TypeOK
<1>10. CASE UNCHANGED vars
  BY <1>1, <1>10 DEF vars, IInv
<1> QED
  BY <1>2, <1>3, <1>4, <1>5, <1>6, <1>7, <1>8, <1>9, <1>10 DEF Next

\* The inductive invariant bounds a running process's Fresh key.
LEMMA IInvBounded == IInv => FreshKeyBounded
BY DEF IInv, FreshKeyBounded, TypeOK, WorkerState

\* With a sink that never fails, a Fresh key is never older than erase_after
\* while the process runs, for every erase_after, capacity and handle count.
THEOREM FreshKeyBoundedHolds ==
    ASSUME ~SinkMayFail
    PROVE  Spec => []FreshKeyBounded
BY InitIInv, NextIInv, IInvBounded, PTL DEF Spec

-----------------------------------------------------------------------------
(* Refinement of KeyLifetime *)

\* Every deadman step is a KeyLifetime step or leaves the sink, its age and
\* the process unchanged.
LEMMA StepRefines ==
    ASSUME ~SinkMayFail
    PROVE  IInv /\ [Next]_vars => [KL!Next]_KL!vars
<1> SUFFICES ASSUME IInv, [Next]_vars PROVE [KL!Next]_KL!vars
  OBVIOUS
<1>1. CASE Start \/ Timeout \/ Closed
  <2>1. sink' = "Stale" /\ age' = 0 /\ alive /\ alive' = alive
    BY <1>1, SinkWriteOk DEF Start, Timeout, Closed
  <2> QED
    BY <2>1 DEF KL!Next, KL!Erase
<1>2. CASE Receive
  <2>1. sink' = "Fresh" /\ age' = 0 /\ alive /\ alive' = alive
    BY <1>2, SinkWriteOk DEF Receive
  <2> QED
    BY <2>1 DEF KL!Next, KL!Install
<1>3. CASE Send \/ DropHandle
  BY <1>3 DEF Send, DropHandle, KL!vars
<1>4. CASE ProcessExit
  BY <1>4 DEF ProcessExit, KL!Next, KL!Halt
<1>5. CASE Tick
  <2>1. alive /\ sink = "Fresh" => age < EraseAfter
    BY <1>5 DEF Tick, IInv, TypeOK, WorkerState
  <2> QED
    BY <1>5, <2>1 DEF Tick, KL!Next, KL!Tick
<1>6. CASE UNCHANGED vars
  BY <1>6 DEF vars, KL!vars
<1> QED
  BY <1>1, <1>2, <1>3, <1>4, <1>5, <1>6 DEF Next

\* With a sink that never fails, the deadman implements KeyLifetime.
THEOREM Refinement ==
    ASSUME ~SinkMayFail
    PROVE  Spec => LifetimeRefined
<1>1. Init => KL!Init
  BY DEF Init, KL!Init, KL!Reason
<1> QED
  BY <1>1, InitIInv, NextIInv, StepRefines, PTL DEF Spec, LifetimeRefined,
     KL!Spec

=============================================================================
