--------------------- MODULE ConnectionManagerProofs ---------------------
(***************************************************************************)
(* Proofs about ConnectionManager for every value of the constants: type   *)
(* correctness, and supersession (the key handed to the OSK handler never  *)
(* comes from an older connection than the one before it).                *)
(***************************************************************************)
EXTENDS ConnectionManager, FiniteSetTheorems, WellFoundedInduction, TLAPS

USE MaxConnAssumption, MaxBuddingAssumption, ChanCapAssumption

-----------------------------------------------------------------------------
(* Lemmas about the helpers *)

\* Dropping handles keeps the task map a function from Conn to task states.
LEMMA AbortAllType ==
    ASSUME NEW t \in [Conn -> TaskState], NEW S
    PROVE  AbortAll(t, S) \in [Conn -> TaskState]
BY DEF AbortAll, TaskState

\* The event records are events.
LEMMA EventType ==
    ASSUME NEW c \in Conn
    PROVE  OskEv(c) \in Event /\ ExitEv(c) \in Event
BY DEF OskEv, ExitEv, Event

\* Appending to a channel with room keeps it within capacity.
LEMMA AppendType ==
    ASSUME TypeOK, CanSend, NEW e \in Event
    PROVE  Append(chan, e) \in Seq(Event) /\ Len(Append(chan, e)) <= ChanCap
BY DEF TypeOK, CanSend

\* Receiving from a non-empty channel keeps it well typed.
LEMMA TailType ==
    ASSUME TypeOK, chan # <<>>
    PROVE  /\ Tail(chan) \in Seq(Event)
           /\ Len(Tail(chan)) <= ChanCap
           /\ Head(chan) \in Event
BY DEF TypeOK

-----------------------------------------------------------------------------
(* Type correctness *)

\* Every step, stuttering included, keeps the state well typed.
LEMMA TypeStep == TypeOK /\ [Next]_vars => TypeOK'
<1> SUFFICES ASSUME TypeOK, [Next]_vars PROVE TypeOK'
  OBVIOUS
<1>1. CASE Accept
  <2>1. nextId \in Conn
    BY <1>1 DEF Accept, TypeOK, Conn
  <2>2. AbortAll(task, Evicted) \in [Conn -> TaskState]
    BY AbortAllType DEF TypeOK
  <2>3. nextId' \in 0 .. MaxConn
    BY <1>1, <2>1 DEF Accept, Conn
  <2>4. budding' \subseteq Conn
    BY <1>1, <2>1 DEF Accept, TypeOK
  <2>5. task' \in [Conn -> TaskState]
    BY <1>1, <2>1, <2>2 DEF Accept, TaskState
  <2> QED
    BY <1>1, <2>3, <2>4, <2>5 DEF Accept, TypeOK
<1>2. CASE RecvExit
  <2>1. AbortAll(task, {Head(chan).conn}) \in [Conn -> TaskState]
    BY AbortAllType DEF TypeOK
  <2> QED
    BY <1>2, <2>1, TailType DEF RecvExit, TypeOK
<1>3. CASE RecvOsk
  <2> DEFINE c == Head(chan).conn
  <2>1. c \in Conn
    BY <1>3, TailType DEF RecvOsk, Event, OskEv, ExitEv
  <2>2. AbortAll(task, {b \in budding : b < c} \cup {active}) \in [Conn -> TaskState]
    BY AbortAllType DEF TypeOK
  <2>3. Tail(chan) \in Seq(Event) /\ Len(Tail(chan)) <= ChanCap
    BY <1>3, TailType DEF RecvOsk
  <2> QED
    BY <1>3, <2>1, <2>2, <2>3
    DEF RecvOsk, OskFromStale, OskFromActive, OskFromBudding, TypeOK
<1>4. ASSUME NEW c \in Conn, RoundDone(c) PROVE TypeOK'
  BY <1>4, AppendType, EventType DEF RoundDone, TypeOK
<1>5. ASSUME NEW c \in Conn, ConnectionExits(c) PROVE TypeOK'
  BY <1>5, AppendType, EventType DEF ConnectionExits, TypeOK, TaskState
<1>6. ASSUME NEW c \in Conn, ConnectionPanics(c) PROVE TypeOK'
  BY <1>6 DEF ConnectionPanics, TypeOK, TaskState
<1>7. ASSUME NEW c \in Conn, Cancelled(c) PROVE TypeOK'
  BY <1>7 DEF Cancelled, TypeOK, TaskState
<1>8. ASSUME NEW c \in Conn, CancelRacesSend(c) PROVE TypeOK'
  BY <1>8, AppendType, EventType DEF CancelRacesSend, TypeOK, TaskState
<1>9. CASE UNCHANGED vars
  BY <1>9 DEF vars, TypeOK
<1> QED
  BY <1>1, <1>2, <1>3, <1>4, <1>5, <1>6, <1>7, <1>8, <1>9 DEF Next

\* Every state of a behaviour of Spec is well typed.
THEOREM TypeCorrect == Spec => []TypeOK
<1>1. Init => TypeOK
  BY DEF Init, TypeOK, None, Conn
<1> QED
  BY <1>1, TypeStep, PTL DEF Spec

-----------------------------------------------------------------------------
(* Supersession *)

\* The inductive invariant: well typed, and every promotable connection is
\* newer than the last honoured one.
IInv == TypeOK /\ PromotableAreNewer

\* The head of a non-empty well-typed channel names a connection.
LEMMA HeadConn ==
    ASSUME TypeOK, chan # <<>>
    PROVE  Head(chan).conn \in Conn
BY TailType DEF Event, OskEv, ExitEv

\* Whatever the step, the key handed to the OSK handler is the last one's
\* connection (a repeat from the active one) or a budding connection.
LEMMA ForwardStep ==
    ASSUME IInv, [Next]_vars
    PROVE  \/ forwarded' = forwarded
           \/ forwarded' \in budding
<1> USE DEF IInv
<1>1. CASE RecvOsk
  <2> DEFINE c == Head(chan).conn
  <2>1. CASE OskFromActive(c)
    BY <1>1, <2>1, HeadConn DEF RecvOsk, OskFromActive, PromotableAreNewer,
       TypeOK, Conn, None
  <2>2. CASE OskFromBudding(c)
    BY <2>2 DEF OskFromBudding
  <2>3. CASE OskFromStale(c)
    BY <2>3 DEF OskFromStale
  <2> QED
    BY <1>1, <2>1, <2>2, <2>3 DEF RecvOsk
<1>2. CASE ~RecvOsk
  BY <1>2 DEF Next, vars, Accept, RecvExit, RoundDone, ConnectionExits,
     ConnectionPanics, Cancelled, CancelRacesSend
<1> QED
  BY <1>1, <1>2

\* Init establishes the inductive invariant.
LEMMA InitIInv == Init => IInv
BY DEF Init, IInv, TypeOK, PromotableAreNewer, None, Conn

\* Every step preserves the inductive invariant.
LEMMA NextIInv == IInv /\ [Next]_vars => IInv'
<1> SUFFICES ASSUME IInv, [Next]_vars PROVE IInv'
  OBVIOUS
<1>1. TypeOK'
  BY TypeStep DEF IInv
<1>2. PromotableAreNewer'
  <2>1. CASE Accept
    BY <2>1 DEF Accept, IInv, PromotableAreNewer, TypeOK, Conn, None
  <2>2. CASE RecvExit
    BY <2>2 DEF RecvExit, IInv, PromotableAreNewer, None
  <2>3. CASE RecvOsk
    <3> DEFINE c == Head(chan).conn
    <3>1. c \in Conn
      BY HeadConn, <2>3 DEF RecvOsk, IInv
    <3>2. CASE OskFromStale(c)
      BY <2>3, <3>2 DEF RecvOsk, OskFromStale, IInv, PromotableAreNewer
    <3>3. CASE OskFromActive(c)
      BY <2>3, <3>1, <3>3 DEF RecvOsk, OskFromActive, IInv, PromotableAreNewer,
         TypeOK, Conn, None
    <3>4. CASE OskFromBudding(c) /\ c \notin budding
      BY <2>3, <3>4 DEF RecvOsk, OskFromBudding, IInv, PromotableAreNewer
    <3>5. CASE OskFromBudding(c) /\ c \in budding
      BY <2>3, <3>1, <3>5 DEF RecvOsk, OskFromBudding, IInv, PromotableAreNewer,
         TypeOK, Conn, None
    <3> QED
      BY <2>3, <3>2, <3>3, <3>4, <3>5 DEF RecvOsk
  <2>4. CASE ~Accept /\ ~RecvExit /\ ~RecvOsk
    BY <2>4 DEF Next, vars, IInv, PromotableAreNewer, RoundDone, ConnectionExits,
       ConnectionPanics, Cancelled, CancelRacesSend
  <2> QED
    BY <2>1, <2>2, <2>3, <2>4
<1> QED
  BY <1>1, <1>2 DEF IInv

\* PromotableAreNewer holds in every reachable state.
THEOREM PromotableAreNewerHolds == Spec => []PromotableAreNewer
BY InitIInv, NextIInv, PTL DEF Spec, IInv

\* Supersession: the connection whose key reaches the OSK handler never
\* goes back to an older one, for any bound on connections, budding map size
\* and channel capacity.
THEOREM Supersession == Spec => SupersessionMonotone
<1>1. IInv /\ [Next]_vars => [forwarded' >= forwarded]_vars
  <2> SUFFICES ASSUME IInv, [Next]_vars PROVE forwarded' >= forwarded
    BY DEF vars
  <2>1. forwarded \in Int
    BY DEF IInv, TypeOK, Conn, None
  <2> QED
    BY <2>1, ForwardStep DEF IInv, PromotableAreNewer, TypeOK, Conn
<1> QED
  BY <1>1, InitIInv, NextIInv, PTL DEF Spec, SupersessionMonotone

-----------------------------------------------------------------------------
(* Bookkeeping: the budding bound, no orphan task, no ghost connection *)

\* The strengthening of NoGhostConnection: a connection the manager tracks
\* is running, or it finished and its Exit is queued; it is never being
\* cancelled, because the manager drops a handle only with the connection.
TrackedLive ==
    \A c \in Conn : Tracked(c) =>
        \/ task[c] = "running"
        \/ task[c] = "done" /\ ExitEv(c) \in Range(chan)

\* The inductive invariant of the manager's bookkeeping.
BInv ==
    /\ TypeOK
    /\ PromotableAreNewer
    /\ BuddingBound
    /\ NoOrphanTask

\* The same, with the tracked connections' liveness, for well-formed QKD
\* replies.
GInv == BInv /\ TrackedLive

\* A non-empty set of connection ids has a least element: the id
\* pop_first takes out of the BTreeMap of budding connections.
LEMMA MinIn ==
    ASSUME NEW S \in SUBSET Nat, S # {}
    PROVE  Min(S) \in S /\ \A y \in S : Min(S) <= y
<1>1. \E x \in S : \A y \in S : ~(<<y, x>> \in OpToRel(<, Nat))
  BY WFMin, NatLessThanWellFounded
<1>2. PICK x \in S : \A y \in S : ~(<<y, x>> \in OpToRel(<, Nat))
  BY <1>1
<1>3. ASSUME NEW y \in S PROVE x <= y
  <2>1. <<y, x>> \in Nat \X Nat
    OBVIOUS
  <2>2. ~(y < x)
    BY <1>2, <2>1 DEF OpToRel
  <2> QED
    BY <2>2
<1> QED
  BY <1>3 DEF Min

\* The budding map is a finite set.
LEMMA BuddingFinite ==
    ASSUME TypeOK
    PROVE  IsFiniteSet(budding)
<1>1. IsFiniteSet(Conn)
  BY FS_Interval DEF Conn
<1> QED
  BY <1>1, FS_Subset DEF TypeOK

\* Appending an event adds it to the events queued.
LEMMA RangeAppend ==
    ASSUME NEW s \in Seq(Event), NEW e
    PROVE  Range(Append(s, e)) = Range(s) \cup {e}
BY DEF Range

\* Receiving the head of the channel leaves every other event queued.
LEMMA RangeTail ==
    ASSUME NEW s \in Seq(Event), s # <<>>, NEW x \in Range(s), x # Head(s)
    PROVE  x \in Range(Tail(s))
<1>1. PICK i \in 1 .. Len(s) : s[i] = x
  BY DEF Range
<1>2. i # 1
  BY <1>1
<1>3. i - 1 \in 1 .. Len(Tail(s)) /\ Tail(s)[i - 1] = x
  BY <1>1, <1>2
<1>4. DOMAIN Tail(s) = 1 .. Len(Tail(s))
  OBVIOUS
<1> QED
  BY <1>3, <1>4 DEF Range

\* A task still running after handles were dropped was running before, and
\* its handle was not among the dropped ones; the others are untouched.
LEMMA AbortRunning ==
    ASSUME NEW t \in [Conn -> TaskState], NEW S, NEW c \in Conn
    PROVE  /\ AbortAll(t, S)[c] = "running" => c \notin S /\ t[c] = "running"
           /\ c \notin S => AbortAll(t, S)[c] = t[c]
BY DEF AbortAll

\* Apart from accept, no step adds a budding connection.
LEMMA BuddingShrinks ==
    ASSUME TypeOK, [Next]_vars, ~Accept
    PROVE  budding' \subseteq budding
<1>1. CASE RecvOsk
  BY <1>1 DEF RecvOsk, OskFromStale, OskFromActive, OskFromBudding
<1>2. CASE ~RecvOsk
  BY <1>2 DEF Next, vars, RecvExit, RoundDone, ConnectionExits,
     ConnectionPanics, Cancelled, CancelRacesSend
<1> QED
  BY <1>1, <1>2

\* Every step keeps the budding map within MAX_BUDDING_CONNECTIONS.
LEMMA BuddingStep ==
    ASSUME BInv, [Next]_vars
    PROVE  BuddingBound'
<1> USE DEF BInv
<1>1. IsFiniteSet(budding) /\ Cardinality(budding) \in Nat
  BY BuddingFinite, FS_CardinalityType
<1>2. CASE Accept
  <2>1. nextId \notin budding
    BY DEF PromotableAreNewer, TypeOK, Conn
  <2>2. CASE Cardinality(budding) >= MaxBudding
    <3>1. budding # {}
      BY <2>2, FS_EmptySet
    <3>2. Min(budding) \in budding
      BY <3>1, MinIn DEF TypeOK, Conn
    <3> DEFINE rest == budding \ {Min(budding)}
    <3>3. budding' = rest \cup {nextId}
      BY <1>2, <2>2 DEF Accept, Evicted
    <3>4. IsFiniteSet(rest) /\ Cardinality(rest) = Cardinality(budding) - 1
      BY <1>1, <3>2, FS_RemoveElement
    <3>5. nextId \notin rest
      BY <2>1
    <3>6. Cardinality(rest \cup {nextId}) = Cardinality(rest) + 1
      BY <3>4, <3>5, FS_AddElement
    <3>7. Cardinality(budding') = Cardinality(budding)
      BY <1>1, <3>3, <3>4, <3>6
    <3> QED
      BY <3>7 DEF BuddingBound
  <2>3. CASE Cardinality(budding) < MaxBudding
    <3>1. budding' = budding \cup {nextId}
      BY <1>1, <1>2, <2>3 DEF Accept, Evicted
    <3>2. Cardinality(budding') = Cardinality(budding) + 1
      BY <1>1, <2>1, <3>1, FS_AddElement
    <3> QED
      BY <1>1, <2>3, <3>2 DEF BuddingBound
  <2> QED
    BY <1>1, <2>2, <2>3
<1>3. CASE ~Accept
  <2>1. budding' \subseteq budding
    BY <1>3, BuddingShrinks
  <2>2. IsFiniteSet(budding') /\ Cardinality(budding') <= Cardinality(budding)
    BY <1>1, <2>1, FS_Subset
  <2>3. Cardinality(budding') \in Nat
    BY <2>2, FS_CardinalityType
  <2> QED
    BY <1>1, <2>2, <2>3 DEF BuddingBound
<1> QED
  BY <1>2, <1>3

\* Every step keeps NoOrphanTask: whatever the manager forgets, it aborts.
LEMMA NoOrphanStep ==
    ASSUME BInv, [Next]_vars
    PROVE  NoOrphanTask'
<1> USE DEF BInv
<1> SUFFICES ASSUME NEW c \in Conn, task'[c] = "running" PROVE Tracked(c)'
  BY DEF NoOrphanTask
<1>1. CASE Accept
  <2>1. nextId \in Conn
    BY <1>1 DEF Accept, TypeOK, Conn
  <2>2. CASE c = nextId
    BY <1>1, <2>2 DEF Accept, Tracked
  <2>3. CASE c # nextId
    <3>1. c \notin Evicted /\ task[c] = "running"
      BY <1>1, <2>1, <2>3, AbortRunning DEF Accept, TypeOK
    <3> QED
      BY <1>1, <3>1 DEF Accept, NoOrphanTask, Tracked
  <2> QED
    BY <2>2, <2>3
<1>2. CASE RecvExit
  <2> DEFINE h == Head(chan).conn
  <2>1. h \in Conn
    BY <1>2, HeadConn DEF RecvExit
  <2>2. CASE h = active /\ active' = None /\ task' = AbortAll(task, {h})
             /\ UNCHANGED budding
    <3>1. c # h /\ task[c] = "running"
      BY <2>2, AbortRunning DEF TypeOK
    <3> QED
      BY <2>2, <3>1 DEF NoOrphanTask, Tracked
  <2>3. CASE h # active /\ h \in budding /\ budding' = budding \ {h}
             /\ task' = AbortAll(task, {h}) /\ UNCHANGED active
    <3>1. c # h /\ task[c] = "running"
      BY <2>3, AbortRunning DEF TypeOK
    <3> QED
      BY <2>3, <3>1 DEF NoOrphanTask, Tracked
  <2>4. CASE UNCHANGED <<active, budding, task>>
    BY <2>4 DEF NoOrphanTask, Tracked
  <2> QED
    BY <1>2, <2>2, <2>3, <2>4 DEF RecvExit
<1>3. CASE RecvOsk
  <2> DEFINE p == Head(chan).conn
  <2>1. p \in Conn
    BY <1>3, HeadConn DEF RecvOsk
  <2>2. CASE OskFromStale(p) \/ OskFromActive(p) \/ (OskFromBudding(p) /\ p \notin budding)
    BY <2>2 DEF OskFromStale, OskFromActive, OskFromBudding, NoOrphanTask, Tracked
  <2>3. CASE OskFromBudding(p) /\ p \in budding
    <3> DEFINE S == {b \in budding : b < p} \cup {active}
    <3>1. c \notin S /\ task[c] = "running"
      BY <2>3, AbortRunning DEF OskFromBudding, TypeOK
    <3>2. c \in budding
      BY <3>1 DEF NoOrphanTask, Tracked
    <3>3. c >= p
      BY <2>1, <3>1, <3>2 DEF TypeOK, Conn
    <3>4. CASE c = p
      BY <2>3, <3>4 DEF OskFromBudding, Tracked
    <3>5. CASE c > p
      BY <2>3, <3>2, <3>5 DEF OskFromBudding, Tracked
    <3> QED
      BY <2>1, <3>3, <3>4, <3>5 DEF Conn
  <2> QED
    BY <1>3, <2>2, <2>3 DEF RecvOsk
<1>4. ASSUME NEW d \in Conn,
             RoundDone(d) \/ ConnectionExits(d) \/ ConnectionPanics(d)
               \/ Cancelled(d) \/ CancelRacesSend(d)
      PROVE  Tracked(c)'
  <2>1. task[c] = "running" /\ UNCHANGED <<budding, active>>
    BY <1>4 DEF RoundDone, ConnectionExits, ConnectionPanics, Cancelled,
       CancelRacesSend, TypeOK
  <2> QED
    BY <2>1 DEF NoOrphanTask, Tracked
<1>5. CASE UNCHANGED vars
  BY <1>5 DEF vars, NoOrphanTask, Tracked
<1> QED
  BY <1>1, <1>2, <1>3, <1>4, <1>5 DEF Next

\* Init establishes the bookkeeping invariant.
LEMMA InitBInv == Init => BInv
<1> SUFFICES ASSUME Init PROVE BInv
  OBVIOUS
<1>1. TypeOK /\ PromotableAreNewer
  BY InitIInv DEF IInv
<1>2. Cardinality(budding) = 0
  BY FS_EmptySet DEF Init
<1> QED
  BY <1>1, <1>2 DEF Init, BInv, BuddingBound, NoOrphanTask

\* Every step keeps the bookkeeping invariant.
LEMMA NextBInv == BInv /\ [Next]_vars => BInv'
<1> SUFFICES ASSUME BInv, [Next]_vars PROVE BInv'
  OBVIOUS
<1>1. TypeOK' /\ PromotableAreNewer'
  BY NextIInv DEF BInv, IInv
<1> QED
  BY <1>1, BuddingStep, NoOrphanStep DEF BInv

\* The budding map never holds more than MAX_BUDDING_CONNECTIONS
\* connections, however accepts, exits and promotions interleave, for every
\* bound and every number of connections (on_accept's pop_first pruning).
THEOREM BuddingBoundHolds == Spec => []BuddingBound
<1>1. BInv => BuddingBound
  BY DEF BInv
<1> QED
  BY <1>1, InitBInv, NextBInv, PTL DEF Spec

\* No connection task runs on without a handle in the manager: pruning,
\* eviction, supersession and on_exit abort every task they forget, with or
\* without malformed QKD replies.
THEOREM NoOrphanTaskHolds == Spec => []NoOrphanTask
<1>1. BInv => NoOrphanTask
  BY DEF BInv
<1> QED
  BY <1>1, InitBInv, NextBInv, PTL DEF Spec

\* The head of the channel is the event record of its connection.
LEMMA HeadEvent ==
    ASSUME TypeOK, chan # <<>>
    PROVE  /\ Head(chan).kind = "exit" => Head(chan) = ExitEv(Head(chan).conn)
           /\ Head(chan).kind = "osk" => Head(chan) = OskEv(Head(chan).conn)
BY TailType DEF Event, OskEv, ExitEv

\* Only budding connections are evicted.
LEMMA EvictedSub ==
    ASSUME TypeOK
    PROVE  Evicted \subseteq budding
<1>1. CASE Cardinality(budding) >= MaxBudding
  <2>1. budding # {}
    BY <1>1, FS_EmptySet
  <2> QED
    BY <1>1, <2>1, MinIn DEF Evicted, TypeOK, Conn
<1>2. CASE ~(Cardinality(budding) >= MaxBudding)
  BY <1>2 DEF Evicted
<1> QED
  BY <1>1, <1>2

\* The active connection is not budding.
LEMMA ActiveNotBudding ==
    ASSUME TypeOK, PromotableAreNewer
    PROVE  active \notin budding
BY DEF PromotableAreNewer, TypeOK, Conn, None

\* With well-formed QKD replies every step keeps TrackedLive.
LEMMA LiveStep ==
    ASSUME ~QkdMalformed, GInv, [Next]_vars
    PROVE  TrackedLive'
<1> USE DEF GInv, BInv
<1>0. active \notin budding /\ chan \in Seq(Event)
  BY ActiveNotBudding DEF TypeOK
<1> SUFFICES ASSUME NEW c \in Conn, Tracked(c)'
             PROVE  \/ task'[c] = "running"
                    \/ task'[c] = "done" /\ ExitEv(c) \in Range(chan')
  BY DEF TrackedLive
<1>1. CASE Accept
  <2>1. nextId \in Conn /\ Evicted \subseteq budding
    BY <1>1, EvictedSub DEF Accept, TypeOK, Conn
  <2>2. CASE c = nextId
    <3>1. AbortAll(task, Evicted) \in [Conn -> TaskState]
      BY AbortAllType DEF TypeOK
    <3> QED
      BY <1>1, <2>1, <2>2, <3>1 DEF Accept
  <2>3. CASE c # nextId
    <3>1. Tracked(c) /\ c \notin Evicted
      BY <1>1, <1>0, <2>1, <2>3 DEF Accept, Tracked
    <3>2. task'[c] = task[c]
      BY <1>1, <2>1, <2>3, <3>1, AbortRunning DEF Accept, TypeOK
    <3> QED
      BY <1>1, <3>1, <3>2 DEF Accept, TrackedLive
  <2> QED
    BY <2>2, <2>3
<1>2. CASE RecvExit
  <2> DEFINE h == Head(chan).conn
  <2>1. h \in Conn /\ Head(chan) = ExitEv(h)
    BY <1>2, HeadConn, HeadEvent DEF RecvExit
  <2>2. Tracked(c) /\ c # h /\ task'[c] = task[c]
    <3>1. CASE h = active /\ active' = None /\ task' = AbortAll(task, {h})
               /\ UNCHANGED budding
      <4>1. c \in budding
        BY <3>1 DEF Tracked, None, Conn
      <4>2. c # h
        BY <1>0, <3>1, <4>1
      <4> QED
        BY <3>1, <4>1, <4>2, AbortRunning DEF Tracked, TypeOK
    <3>2. CASE h # active /\ h \in budding /\ budding' = budding \ {h}
               /\ task' = AbortAll(task, {h}) /\ UNCHANGED active
      BY <3>2, AbortRunning DEF Tracked, TypeOK
    <3>3. CASE ~Tracked(h) /\ UNCHANGED <<active, budding, task>>
      BY <3>3 DEF Tracked
    <3> QED
      BY <1>2, <3>1, <3>2, <3>3 DEF RecvExit
  <2>3. ExitEv(c) # Head(chan)
    BY <2>1, <2>2 DEF ExitEv
  <2> QED
    BY <1>0, <1>2, <2>2, <2>3, RangeTail DEF RecvExit, TrackedLive
<1>3. CASE RecvOsk
  <2> DEFINE p == Head(chan).conn
  <2>1. p \in Conn /\ Head(chan) = OskEv(p)
    BY <1>3, HeadConn, HeadEvent DEF RecvOsk
  <2>2. ExitEv(c) # Head(chan)
    BY <2>1 DEF ExitEv, OskEv
  <2>3. Tracked(c) /\ task'[c] = task[c]
    <3>1. CASE OskFromStale(p) \/ OskFromActive(p) \/ (OskFromBudding(p) /\ p \notin budding)
      BY <3>1 DEF OskFromStale, OskFromActive, OskFromBudding, Tracked
    <3>2. CASE OskFromBudding(p) /\ p \in budding
      <4>1. c \in budding /\ c >= p
        BY <1>0, <2>1, <3>2 DEF OskFromBudding, Tracked, TypeOK, Conn
      <4>2. c \notin {b \in budding : b < p} \cup {active}
        BY <1>0, <2>1, <4>1 DEF TypeOK, Conn
      <4> QED
        BY <3>2, <4>1, <4>2, AbortRunning DEF OskFromBudding, Tracked, TypeOK
    <3> QED
      BY <1>3, <3>1, <3>2 DEF RecvOsk
  <2> QED
    BY <1>0, <1>3, <2>2, <2>3, RangeTail DEF RecvOsk, TrackedLive
<1>4. ASSUME NEW d \in Conn, RoundDone(d) \/ ConnectionExits(d) \/ CancelRacesSend(d)
      PROVE  \/ task'[c] = "running"
             \/ task'[c] = "done" /\ ExitEv(c) \in Range(chan')
  <2>1. PICK e \in Event : chan' = Append(chan, e) /\ (ConnectionExits(d) => e = ExitEv(d))
    BY <1>4, EventType DEF RoundDone, ConnectionExits, CancelRacesSend
  <2>2. Range(chan') = Range(chan) \cup {e}
    BY <1>0, <2>1, RangeAppend
  <2>3. Tracked(c) /\ UNCHANGED <<active, budding>>
    BY <1>4 DEF RoundDone, ConnectionExits, CancelRacesSend, Tracked
  <2>4. CancelRacesSend(d) => c # d
    BY <2>3 DEF CancelRacesSend, TrackedLive
  <2>5. c # d => task'[c] = task[c]
    BY <1>4 DEF RoundDone, ConnectionExits, CancelRacesSend, TypeOK
  <2>6. c = d => task'[c] = task[c] \/ ConnectionExits(d)
    BY <1>4, <2>4 DEF RoundDone
  <2>7. ConnectionExits(d) /\ c = d => task'[c] = "done"
    BY DEF ConnectionExits, TypeOK
  <2> QED
    BY <2>1, <2>2, <2>3, <2>5, <2>6, <2>7 DEF TrackedLive
<1>5. ASSUME NEW d \in Conn, ConnectionPanics(d) \/ Cancelled(d)
      PROVE  \/ task'[c] = "running"
             \/ task'[c] = "done" /\ ExitEv(c) \in Range(chan')
  <2>1. Cancelled(d)
    BY <1>5 DEF ConnectionPanics
  <2>2. Tracked(c) /\ c # d
    BY <2>1 DEF Cancelled, Tracked, TrackedLive
  <2> QED
    BY <2>1, <2>2 DEF Cancelled, TypeOK, TrackedLive
<1>6. CASE UNCHANGED vars
  BY <1>6 DEF vars, Tracked, TrackedLive
<1> QED
  BY <1>1, <1>2, <1>3, <1>4, <1>5, <1>6 DEF Next

\* No ghost connection, for well-formed QKD replies: every connection the
\* manager counts as budding or active is running, or its Exit is queued, so
\* on_exit will forget it; for every bound and channel capacity.  (With
\* malformed replies the unwrap in Etsi014Key::try_from panics the task
\* without an Exit, and the run manager_ghost shows the ghost it leaves.)
THEOREM NoGhostConnectionHolds ==
    ASSUME ~QkdMalformed
    PROVE  Spec => []NoGhostConnection
<1>1. Init => GInv
  BY InitBInv DEF Init, GInv, TrackedLive, Tracked, None, Conn
<1>2. GInv /\ [Next]_vars => GInv'
  BY NextBInv, LiveStep DEF GInv
<1>3. GInv => NoGhostConnection
  BY DEF GInv, TrackedLive, NoGhostConnection
<1> QED
  BY <1>1, <1>2, <1>3, PTL DEF Spec

=============================================================================
