------------------------ MODULE RekeyProtocolProofs ------------------------
(***************************************************************************)
(* Proof that the rekey protocol keeps the two roles in lockstep on every  *)
(* connection (RoundLockstep), for every number of connection slots and    *)
(* key ids and every fault budget, silent partitions and TCP's            *)
(* retransmission timeouts included.                                       *)
(***************************************************************************)
EXTENDS RekeyProtocol, TLAPS

\* The client role is between reading a RekeyReq on c and writing its ack.
ClientWorking(c) == cliConn = c /\ cli \in {"fetch", "write_ack"}

\* A client inside a round has a connection and, once it read the request,
\* a key; a server task about to write a request has fetched its key.
ConnOK ==
    /\ cli \in {"read_req", "fetch", "write_ack", "install"} => cliConn \in Slots
    /\ cli \in {"fetch", "write_ack", "install"} => cliKey \in Keys
    /\ \A d \in Slots : srv[d] = "send" => srvKey[d] \in Keys

\* RoundLockstep on one connection, and the fact that makes it inductive:
\* nothing is in flight on the connection while the client works on a
\* request there (the request was consumed and the ack not yet written).
SlotInv(d) ==
    /\ Len(s2c[d]) + Len(c2s[d]) <= 1
    /\ s2c[d] # <<>> \/ c2s[d] # <<>> => srv[d] \in {"await_ack", "done"}
    /\ s2c[d] # <<>> => Head(s2c[d]) = srvKey[d]
    /\ c2s[d] # <<>> => Head(c2s[d]) = srvKey[d]
    /\ ClientWorking(d) => srv[d] \in {"await_ack", "done"} /\ cliKey = srvKey[d]
    /\ s2c[d] # <<>> \/ c2s[d] # <<>> => ~ClientWorking(d)

\* The inductive invariant: RoundLockstep alone is not inductive.
IInv ==
    /\ TypeOK
    /\ ConnOK
    /\ \A d \in Slots : SlotInv(d)

-----------------------------------------------------------------------------

USE NSlotsAssumption, NumKeysAssumption, MaxFaultsAssumption, HalfOpenAssumption

\* Init establishes the inductive invariant.
LEMMA InitIInv == Init => IInv
BY DEF Init, IInv, TypeOK, ConnOK, SlotInv, ClientWorking, Slots, Keys, None,
       SrvState, CliState, LinkState, Side

\* Adding an end to the closed set of one slot keeps closed well typed.
LEMMA CloseType ==
    ASSUME NEW f \in [Slots -> SUBSET Side], NEW d \in Slots, NEW e \in Side
    PROVE  [f EXCEPT ![d] = @ \cup {e}] \in [Slots -> SUBSET Side]
OBVIOUS

\* A swallowed write or FIN keeps the unacknowledged ends well typed.
LEMMA SwallowType ==
    ASSUME TypeOK, NEW d \in Slots, NEW e \in Side, Swallow(d, e)
    PROVE  unacked' \in [Slots -> SUBSET Side]
BY DEF Swallow, TypeOK

\* Appending a key to, or taking the head off, one slot's channel keeps the
\* channels well typed.
LEMMA ChanType ==
    ASSUME NEW f \in [Slots -> Seq(Keys)], NEW d \in Slots
    PROVE  /\ \A k \in Keys : [f EXCEPT ![d] = Append(@, k)] \in [Slots -> Seq(Keys)]
           /\ f[d] # <<>> => /\ [f EXCEPT ![d] = Tail(@)] \in [Slots -> Seq(Keys)]
                             /\ Head(f[d]) \in Keys
           /\ [f EXCEPT ![d] = <<>>] \in [Slots -> Seq(Keys)]
OBVIOUS

\* Every step keeps the state well typed, given a client inside a round
\* has a connection.
LEMMA TypeStep == TypeOK /\ ConnOK /\ [Next]_vars => TypeOK'
<1> SUFFICES ASSUME TypeOK, ConnOK, [Next]_vars PROVE TypeOK'
  OBVIOUS
<1>1. CASE Connect
  <2>1. CASE Fault /\ cli' = "retry_sleep"
             /\ UNCHANGED <<link, s2c, c2s, closed, srv, cliConn>>
    BY <1>1, <2>1 DEF Connect, Fault, TypeOK, CliState, tcpVars
  <2>2. ASSUME NEW c \in Slots,
               link' = [link EXCEPT ![c] = "up"],
               s2c' = [s2c EXCEPT ![c] = <<>>],
               c2s' = [c2s EXCEPT ![c] = <<>>],
               closed' = [closed EXCEPT ![c] = {}],
               unacked' = [unacked EXCEPT ![c] = {}],
               timedOut' = [timedOut EXCEPT ![c] = {}],
               srv' = [srv EXCEPT ![c] = "fetch"],
               cliConn' = c, cli' = "read_req", UNCHANGED faults
        PROVE TypeOK'
    BY <1>1, <2>2, ChanType DEF Connect, TypeOK, Slots, Side, LinkState, CliState, SrvState
  <2> QED
    BY <1>1, <2>1, <2>2 DEF Connect
<1>2. CASE CliRecvReq
  <2>1. cliConn \in Slots
    BY <1>2 DEF CliRecvReq, ConnOK
  <2>2. CASE s2c[cliConn] # <<>> /\ cliKey' = Head(s2c[cliConn])
             /\ s2c' = [s2c EXCEPT ![cliConn] = Tail(@)]
             /\ cli' = "fetch" /\ UNCHANGED <<closed, unacked>>
    BY <1>2, <2>1, <2>2, ChanType DEF CliRecvReq, TypeOK, CliState, tcpVars
  <2>3. CASE CliEnd /\ UNCHANGED <<cliKey, s2c>>
    BY <1>2, <2>1, <2>3, CloseType, SwallowType
    DEF CliRecvReq, CliEnd, Close, TypeOK, CliState, Side
  <2> QED
    BY <1>2, <2>2, <2>3 DEF CliRecvReq
<1>3. CASE CliFetch
  <2>1. cliConn \in Slots
    BY <1>3 DEF CliFetch, ConnOK
  <2>2. CASE cli' = "write_ack" /\ UNCHANGED <<closed, faults, unacked>>
    BY <1>3, <2>2 DEF CliFetch, TypeOK, CliState
  <2>3. CASE Fault /\ CliEnd
    BY <1>3, <2>1, <2>3, CloseType, SwallowType
    DEF CliFetch, Fault, CliEnd, Close, TypeOK, CliState, Side
  <2> QED
    BY <1>3, <2>2, <2>3 DEF CliFetch
<1>4. CASE CliSendAck
  <2>1. cliConn \in Slots /\ cliKey \in Keys
    BY <1>4 DEF CliSendAck, ConnOK
  <2>2. CASE c2s' = [c2s EXCEPT ![cliConn] = Append(@, cliKey)]
             /\ cli' = "install" /\ UNCHANGED <<closed, unacked>>
    BY <1>4, <2>1, <2>2, ChanType DEF CliSendAck, TypeOK, CliState
  <2>3. CASE Swallow(cliConn, "client") /\ cli' = "install" /\ UNCHANGED <<c2s, closed>>
    BY <1>4, <2>1, <2>3, SwallowType DEF CliSendAck, TypeOK, CliState, Side
  <2>4. CASE CliEnd /\ UNCHANGED c2s
    BY <1>4, <2>1, <2>4, CloseType, SwallowType
    DEF CliSendAck, CliEnd, Close, TypeOK, CliState, Side
  <2> QED
    BY <1>4, <2>2, <2>3, <2>4 DEF CliSendAck
<1>5. CASE CliInstall
  BY <1>5 DEF CliInstall, TypeOK, CliState, tcpVars
<1>6. CASE CliRetry
  BY <1>6 DEF CliRetry, TypeOK, CliState, tcpVars
<1>7. ASSUME NEW c \in Slots, SrvFetch(c) PROVE TypeOK'
  <2>1. CASE srv' = [srv EXCEPT ![c] = "send"] /\ srvKey' = [srvKey EXCEPT ![c] = qkd]
             /\ qkd' = (qkd + 1) % NumKeys /\ UNCHANGED <<closed, faults, unacked>>
    BY <1>7, <2>1 DEF SrvFetch, TypeOK, Keys, SrvState
  <2>2. CASE Fault /\ SrvEnd(c) /\ UNCHANGED <<srvKey, qkd>>
    BY <1>7, <2>2, CloseType, SwallowType
    DEF SrvFetch, Fault, SrvEnd, Close, TypeOK, SrvState, Side
  <2> QED
    BY <1>7, <2>1, <2>2 DEF SrvFetch
<1>8. ASSUME NEW c \in Slots, SrvSend(c) PROVE TypeOK'
  <2>1. CASE s2c' = [s2c EXCEPT ![c] = Append(@, srvKey[c])]
             /\ srv' = [srv EXCEPT ![c] = "await_ack"] /\ UNCHANGED <<closed, unacked>>
    <3>1. srvKey[c] \in Keys
      BY <1>8 DEF SrvSend, ConnOK
    <3> QED
      BY <1>8, <2>1, <3>1, ChanType DEF SrvSend, TypeOK, SrvState
  <2>2. CASE Swallow(c, "server") /\ srv' = [srv EXCEPT ![c] = "await_ack"]
             /\ UNCHANGED <<s2c, closed>>
    BY <1>8, <2>2, SwallowType DEF SrvSend, TypeOK, SrvState, Side
  <2>3. CASE SrvEnd(c) /\ UNCHANGED s2c
    BY <1>8, <2>3, CloseType, SwallowType DEF SrvSend, SrvEnd, Close, TypeOK, SrvState, Side
  <2> QED
    BY <1>8, <2>1, <2>2, <2>3 DEF SrvSend
<1>9. ASSUME NEW c \in Slots, SrvRecvAck(c) PROVE TypeOK'
  <2>1. CASE c2s[c] # <<>> /\ c2s' = [c2s EXCEPT ![c] = Tail(@)]
             /\ srv' = [srv EXCEPT ![c] = "deliver"] /\ UNCHANGED <<closed, unacked>>
    BY <1>9, <2>1, ChanType DEF SrvRecvAck, TypeOK, SrvState
  <2>2. CASE SrvEnd(c) /\ UNCHANGED c2s
    BY <1>9, <2>2, CloseType, SwallowType
    DEF SrvRecvAck, SrvEnd, Close, TypeOK, SrvState, Side
  <2> QED
    BY <1>9, <2>1, <2>2 DEF SrvRecvAck
<1>10. ASSUME NEW c \in Slots, SrvDeliver(c) PROVE TypeOK'
  BY <1>10 DEF SrvDeliver, TypeOK, SrvState, tcpVars
<1>11. ASSUME NEW c \in Slots, SrvWake(c) PROVE TypeOK'
  BY <1>11 DEF SrvWake, TypeOK, SrvState, tcpVars
<1>12. ASSUME NEW c \in Slots, Reset(c) PROVE TypeOK'
  BY <1>12 DEF Reset, Fault, TypeOK, LinkState, tcpVars
<1>13. ASSUME NEW c \in Slots, HalfOpen(c) PROVE TypeOK'
  <2>1. PICK lost \in SUBSET InFlight(c) :
          /\ s2c' = [s2c EXCEPT ![c] = IF "server" \in lost THEN <<>> ELSE @]
          /\ c2s' = [c2s EXCEPT ![c] = IF "client" \in lost THEN <<>> ELSE @]
          /\ unacked' = [unacked EXCEPT ![c] = lost]
    BY <1>13 DEF HalfOpen
  <2>2. lost \subseteq Side
    BY DEF InFlight
  <2>3. s2c' \in [Slots -> Seq(Keys)] /\ c2s' \in [Slots -> Seq(Keys)]
    BY <2>1 DEF TypeOK
  <2> QED
    BY <1>13, <2>1, <2>2, <2>3 DEF HalfOpen, Fault, TypeOK, LinkState
<1>14. ASSUME NEW c \in Slots, NEW e \in Side, RetransmitTimeout(c, e) PROVE TypeOK'
  BY <1>14 DEF RetransmitTimeout, TypeOK
<1>15. CASE UNCHANGED vars
  BY <1>15 DEF vars, TypeOK
<1> QED
  BY <1>1, <1>2, <1>3, <1>4, <1>5, <1>6, <1>7, <1>8, <1>9, <1>10, <1>11,
     <1>12, <1>13, <1>14, <1>15 DEF Next, Client, ServerTask

\* Every step keeps ConnOK.
LEMMA ConnStep == TypeOK /\ ConnOK /\ [Next]_vars => ConnOK'
<1> SUFFICES ASSUME TypeOK, ConnOK, [Next]_vars PROVE ConnOK'
  OBVIOUS
<1>1. CASE Client
  <2>1. CASE CliRecvReq
    <3>1. cliConn \in Slots
      BY <2>1 DEF CliRecvReq, ConnOK
    <3> QED
      BY <2>1, <3>1, ChanType DEF CliRecvReq, CliEnd, Close, ConnOK, TypeOK
  <2>2. CASE Connect
    BY <2>2 DEF Connect, Fault, ConnOK, TypeOK
  <2>3. CASE CliFetch \/ CliSendAck \/ CliInstall \/ CliRetry
    BY <2>3 DEF CliFetch, CliSendAck, CliInstall, CliRetry, CliEnd, Close, Fault, ConnOK
  <2> QED
    BY <1>1, <2>1, <2>2, <2>3 DEF Client
<1>2. ASSUME NEW c \in Slots, ServerTask(c) \/ Reset(c) \/ HalfOpen(c)
      PROVE  ConnOK'
  BY <1>2 DEF ServerTask, SrvFetch, SrvSend, SrvRecvAck, SrvDeliver, SrvWake,
              Reset, HalfOpen, SrvEnd, Close, Fault, ConnOK, TypeOK, Keys
<1>3. ASSUME NEW c \in Slots, NEW e \in Side, RetransmitTimeout(c, e) PROVE ConnOK'
  BY <1>3 DEF RetransmitTimeout, ConnOK
<1>4. CASE UNCHANGED vars
  BY <1>4 DEF vars, ConnOK
<1> QED
  BY <1>1, <1>2, <1>3, <1>4 DEF Next

\* A channel that holds one message becomes empty when it is read, and the
\* other direction of the connection is then empty.
LEMMA OneInFlight ==
    ASSUME NEW s \in Seq(Keys), NEW t \in Seq(Keys),
           Len(s) + Len(t) <= 1, s # <<>>
    PROVE  t = <<>> /\ Tail(s) = <<>>
OBVIOUS

\* Writing into an empty channel leaves exactly that message in flight.
LEMMA AppendEmpty ==
    ASSUME NEW k
    PROVE  /\ Append(<<>>, k) # <<>>
           /\ Len(Append(<<>>, k)) = 1
           /\ Head(Append(<<>>, k)) = k
OBVIOUS

\* Every step keeps RoundLockstep, with its strengthening, on every slot.
LEMMA SlotStep ==
    ASSUME IInv, TypeOK', ConnOK', [Next]_vars, NEW d \in Slots
    PROVE  SlotInv(d)'
<1> USE DEF IInv
<1>1. CASE Connect
  <2>1. CASE Fault /\ cli' = "retry_sleep"
             /\ UNCHANGED <<link, s2c, c2s, closed, srv, cliConn, tcpVars>>
    BY <1>1, <2>1 DEF Connect, SlotInv, ClientWorking
  <2>2. ASSUME NEW c \in Slots,
               s2c' = [s2c EXCEPT ![c] = <<>>],
               c2s' = [c2s EXCEPT ![c] = <<>>],
               srv' = [srv EXCEPT ![c] = "fetch"],
               cliConn' = c, cli' = "read_req"
        PROVE SlotInv(d)'
    BY <1>1, <2>2 DEF Connect, SlotInv, ClientWorking, TypeOK
  <2> QED
    BY <1>1, <2>1, <2>2 DEF Connect
<1>2. CASE CliRecvReq
  BY <1>2, OneInFlight DEF CliRecvReq, CliEnd, Close, SlotInv, ClientWorking, TypeOK, ConnOK
<1>3. CASE CliFetch
  BY <1>3 DEF CliFetch, CliEnd, Close, Fault, SlotInv, ClientWorking, TypeOK, ConnOK
<1>4. CASE CliSendAck
  BY <1>4, AppendEmpty DEF CliSendAck, CliEnd, Close, SlotInv, ClientWorking, TypeOK, ConnOK
<1>5. CASE CliInstall \/ CliRetry
  BY <1>5 DEF CliInstall, CliRetry, SlotInv, ClientWorking
<1>6. ASSUME NEW c \in Slots, SrvFetch(c) PROVE SlotInv(d)'
  BY <1>6 DEF SrvFetch, SrvEnd, Close, Fault, SlotInv, ClientWorking, TypeOK
<1>7. ASSUME NEW c \in Slots, SrvSend(c) PROVE SlotInv(d)'
  <2>1. CASE s2c' = [s2c EXCEPT ![c] = Append(@, srvKey[c])]
             /\ srv' = [srv EXCEPT ![c] = "await_ack"]
    BY <1>7, <2>1, AppendEmpty DEF SrvSend, SlotInv, ClientWorking, TypeOK
  <2>2. CASE srv' = [srv EXCEPT ![c] = "await_ack"] /\ UNCHANGED s2c
    BY <1>7, <2>2 DEF SrvSend, SlotInv, ClientWorking, TypeOK
  <2>3. CASE SrvEnd(c) /\ UNCHANGED s2c
    BY <1>7, <2>3 DEF SrvSend, SrvEnd, SlotInv, ClientWorking, TypeOK
  <2> QED
    BY <1>7, <2>1, <2>2, <2>3 DEF SrvSend
<1>8. ASSUME NEW c \in Slots, SrvRecvAck(c) PROVE SlotInv(d)'
  BY <1>8, OneInFlight DEF SrvRecvAck, SrvEnd, Close, SlotInv, ClientWorking, TypeOK
<1>9. ASSUME NEW c \in Slots, SrvDeliver(c) \/ SrvWake(c) PROVE SlotInv(d)'
  BY <1>9 DEF SrvDeliver, SrvWake, SlotInv, ClientWorking, TypeOK
<1>10. ASSUME NEW c \in Slots, Reset(c) PROVE SlotInv(d)'
  BY <1>10 DEF Reset, Fault, SlotInv, ClientWorking, TypeOK
<1>11. ASSUME NEW c \in Slots, HalfOpen(c) PROVE SlotInv(d)'
  <2>1. PICK lost \in SUBSET InFlight(c) :
          /\ s2c' = [s2c EXCEPT ![c] = IF "server" \in lost THEN <<>> ELSE @]
          /\ c2s' = [c2s EXCEPT ![c] = IF "client" \in lost THEN <<>> ELSE @]
    BY <1>11 DEF HalfOpen
  <2>2. /\ s2c'[d] = s2c[d] \/ s2c'[d] = <<>>
        /\ c2s'[d] = c2s[d] \/ c2s'[d] = <<>>
    BY <2>1 DEF TypeOK
  <2>3. UNCHANGED <<srv, srvKey, cli, cliConn, cliKey>>
    BY <1>11 DEF HalfOpen
  <2> QED
    BY <2>2, <2>3 DEF SlotInv, ClientWorking, TypeOK
<1>12. ASSUME NEW c \in Slots, NEW e \in Side, RetransmitTimeout(c, e) PROVE SlotInv(d)'
  BY <1>12 DEF RetransmitTimeout, SlotInv, ClientWorking
<1>13. CASE UNCHANGED vars
  BY <1>13 DEF vars, SlotInv, ClientWorking
<1> QED
  BY <1>1, <1>2, <1>3, <1>4, <1>5, <1>6, <1>7, <1>8, <1>9, <1>10, <1>11,
     <1>12, <1>13 DEF Next, Client, ServerTask

\* Every step keeps the inductive invariant.
LEMMA NextIInv == IInv /\ [Next]_vars => IInv'
<1> SUFFICES ASSUME IInv, [Next]_vars PROVE IInv'
  OBVIOUS
<1>1. TypeOK'
  BY TypeStep DEF IInv
<1>2. ConnOK'
  BY ConnStep DEF IInv
<1>3. \A d \in Slots : SlotInv(d)'
  BY <1>1, <1>2, SlotStep
<1> QED
  BY <1>1, <1>2, <1>3 DEF IInv

-----------------------------------------------------------------------------

\* The protocol's state stays well typed: in particular every request and
\* every ack in flight carries a QKD key id, never the None of a round that
\* fetched none.
THEOREM TypeCorrect == Spec => []TypeOK
<1>1. IInv => TypeOK
  BY DEF IInv
<1> QED
  BY <1>1, InitIInv, NextIInv, PTL DEF Spec

\* On every connection the server task and the client role stay in
\* lockstep (at most one message in flight, and the request, the client's
\* round and the ack all name the key of the server task's round), whatever
\* resets, failed fetches, partitions and reconnects interleave, for every
\* number of slots and keys and every fault budget.
THEOREM LockstepHolds == Spec => []RoundLockstep
<1>1. IInv => RoundLockstep
  BY DEF IInv, SlotInv, ClientWorking, RoundLockstep
<1> QED
  BY <1>1, InitIInv, NextIInv, PTL DEF Spec

=============================================================================
