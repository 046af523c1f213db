--------------------------- MODULE RekeyProtocol ---------------------------
(***************************************************************************)
(* The rekey protocol between the two peers over TCP: the server role      *)
(* (crypto/server.rs), one task per accepted connection; the client role   *)
(* (crypto/client.rs) run by the client driver (net/tcp_client.rs), which  *)
(* reconnects after every error; and the QKD fetches of etsi014.rs.        *)
(*                                                                         *)
(* A round: the server fetches a key from its QKD device and writes a      *)
(* RekeyReq naming it; the client reads it, fetches the same key from its  *)
(* device, writes the 0x01 ack and installs the derived OSK; the server    *)
(* reads the ack, installs the same OSK and sleeps rekey_interval.  A key  *)
(* is abstracted to its QKD key id; the derived OSK is named by that id    *)
(* too (the nonce is fresh per round).  An ack carries, as a ghost, the id *)
(* of the round it answers: on the wire it is the constant byte 0x01.      *)
(*                                                                         *)
(* Faults, up to MaxFaults of them: a QKD request or a connect fails, a    *)
(* connection is reset (RST: both ends' I/O fails, bytes in flight lost),  *)
(* and, when HalfOpenPossible, a connection dies silently (a partition: no *)
(* FIN or RST ever arrives).  A message in flight then either had already  *)
(* reached the peer's kernel, and is still read, or is lost; a later write *)
(* is lost.  The kernel retransmits what the peer never acknowledged and,  *)
(* after tcp_retries2, fails that end's socket with ETIMEDOUT: its pending *)
(* and later reads and writes return the error.  An end with nothing       *)
(* unacknowledged hears nothing: no read in the code has a timeout and the *)
(* sockets have no keepalive.  The server-side sink is the OSK handler the *)
(* tasks report to (the connection manager is abstracted away here).       *)
(***************************************************************************)
EXTENDS Integers, Sequences

CONSTANTS
    NSlots,             \* TCP connections tracked at once
    NumKeys,            \* QKD key ids handed out cyclically
    MaxFaults,          \* bound on injected faults
    HalfOpenPossible    \* may a connection die silently?

ASSUME NSlotsAssumption == NSlots \in Nat \ {0}
ASSUME NumKeysAssumption == NumKeys \in Nat \ {0}
ASSUME MaxFaultsAssumption == MaxFaults \in Nat
ASSUME HalfOpenAssumption == HalfOpenPossible \in BOOLEAN

Slots == 0 .. NSlots - 1
Keys == 0 .. NumKeys - 1
None == -1
Side == {"server", "client"}
SrvState == {"fetch", "send", "await_ack", "deliver", "sleep", "done"}
CliState == {"connect", "read_req", "fetch", "write_ack", "install", "retry_sleep"}
LinkState == {"none", "up", "reset", "dead"}

VARIABLES
    srv,        \* srv[c]: where the server task of connection c is
    srvKey,     \* srvKey[c]: QKD key id of its current round
    s2c,        \* s2c[c]: RekeyReqs in flight to the client (their key ids)
    c2s,        \* c2s[c]: acks in flight to the server (ghost: round answered)
    link,       \* link[c]: state of the TCP connection
    closed,     \* closed[c]: the ends that dropped their stream (sent FIN)
    cli,        \* where the client driver and client role are
    cliConn,    \* the client's connection, or None
    cliKey,     \* key id of the client's current round
    srvOsk,     \* OSK last handed to the server's OSK handler, or None
    cliOsk,     \* OSK last handed to the client's OSK handler, or None
    qkd,        \* next key id the server's QKD device hands out
    faults,     \* faults injected so far
    unacked,    \* unacked[c]: ends with bytes the peer never acknowledged
    timedOut    \* timedOut[c]: ends whose socket failed with ETIMEDOUT

vars == <<srv, srvKey, s2c, c2s, link, closed, cli, cliConn, cliKey,
          srvOsk, cliOsk, qkd, faults, unacked, timedOut>>

tcpVars == <<unacked, timedOut>>

-----------------------------------------------------------------------------
(* Helpers *)

\* A fault happens, within the budget.
Fault == faults < MaxFaults /\ faults' = faults + 1

Peer(e) == IF e = "server" THEN "client" ELSE "server"

\* With nothing buffered, a read by end e fails at once (a reset, EOF once
\* the peer's FIN arrived, or ETIMEDOUT); otherwise it blocks.  On a dead
\* link the peer's FIN arrived unless it is among the peer's lost bytes.
ReadFails(c, e) ==
    \/ link[c] = "reset"
    \/ link[c] = "up" /\ Peer(e) \in closed[c]
    \/ link[c] = "dead" /\ Peer(e) \in closed[c] \ unacked[c]
    \/ e \in timedOut[c]

\* A write by end e reaches the peer, vanishes (a dead link, or a peer that
\* has closed and not yet answered with RST), or fails.
WriteDelivered(c, e) == link[c] = "up" /\ Peer(e) \notin closed[c]
WriteSwallowed(c, e) ==
    \/ link[c] = "dead" /\ e \notin timedOut[c]
    \/ link[c] = "up" /\ Peer(e) \in closed[c]
WriteFails(c, e) ==
    \/ link[c] = "reset"
    \/ link[c] = "up" /\ Peer(e) \in closed[c]
    \/ e \in timedOut[c]

\* The ends with bytes possibly in flight on c: a message not yet read,
\* or the FIN of a dropped stream.
InFlight(c) ==
    {e \in Side : \/ e = "server" /\ s2c[c] # <<>>
                  \/ e = "client" /\ c2s[c] # <<>>
                  \/ e \in closed[c]}

\* A swallowed write on a dead link stays unacknowledged and retransmitted.
Swallow(c, e) ==
    unacked' = IF link[c] = "dead" THEN [unacked EXCEPT ![c] = @ \cup {e}]
                                   ELSE unacked

\* End e drops its stream: it sends a FIN, which a dead link swallows.
Close(c, e) ==
    /\ closed' = [closed EXCEPT ![c] = @ \cup {e}]
    /\ Swallow(c, e)

\* A server task returns an error: init_task reports Exit and the stream is
\* dropped.
SrvEnd(c) ==
    /\ srv' = [srv EXCEPT ![c] = "done"]
    /\ Close(c, "server")

\* The client role returns an error: the driver drops the stream and sleeps.
CliEnd ==
    /\ cli' = "retry_sleep"
    /\ Close(cliConn, "client")

\* A connection slot with no server task and no client end left.
Free(c) == srv[c] = "done" /\ "client" \in closed[c]

-----------------------------------------------------------------------------

Init ==
    /\ srv = [c \in Slots |-> "done"]
    /\ srvKey = [c \in Slots |-> None]
    /\ s2c = [c \in Slots |-> <<>>]
    /\ c2s = [c \in Slots |-> <<>>]
    /\ link = [c \in Slots |-> "none"]
    /\ closed = [c \in Slots |-> Side]
    /\ cli = "connect"
    /\ cliConn = None
    /\ cliKey = None
    /\ srvOsk = None
    /\ cliOsk = None
    /\ qkd = 0
    /\ faults = 0
    /\ unacked = [c \in Slots |-> {}]
    /\ timedOut = [c \in Slots |-> {}]

(* The server role, one task per connection *)

\* negotiate_key: fetch_any_key from the QKD device.
SrvFetch(c) ==
    /\ srv[c] = "fetch"
    /\ \/ /\ srv' = [srv EXCEPT ![c] = "send"]
          /\ srvKey' = [srvKey EXCEPT ![c] = qkd]
          /\ qkd' = (qkd + 1) % NumKeys
          /\ UNCHANGED <<closed, faults, unacked>>
       \/ /\ Fault
          /\ SrvEnd(c)
          /\ UNCHANGED <<srvKey, qkd>>
    /\ UNCHANGED <<s2c, c2s, link, cli, cliConn, cliKey, srvOsk, cliOsk, timedOut>>

\* Seeded fault: the server derives and delivers without reading the ack.
SrvSendNoAck(c) ==
    /\ srv[c] = "send"
    /\ \/ /\ WriteDelivered(c, "server")
          /\ s2c' = [s2c EXCEPT ![c] = Append(@, srvKey[c])]
          /\ srv' = [srv EXCEPT ![c] = "deliver"]
          /\ UNCHANGED <<closed, unacked>>
       \/ /\ WriteSwallowed(c, "server")
          /\ Swallow(c, "server")
          /\ srv' = [srv EXCEPT ![c] = "deliver"]
          /\ UNCHANGED <<s2c, closed>>
       \/ /\ WriteFails(c, "server")
          /\ SrvEnd(c)
          /\ UNCHANGED s2c
    /\ UNCHANGED <<srvKey, c2s, link, cli, cliConn, cliKey, srvOsk, cliOsk, qkd, faults, timedOut>>

\* negotiate_key: write_all of the RekeyReq.
SrvSend(c) ==
    /\ srv[c] = "send"
    /\ \/ /\ WriteDelivered(c, "server")
          /\ s2c' = [s2c EXCEPT ![c] = Append(@, srvKey[c])]
          /\ srv' = [srv EXCEPT ![c] = "await_ack"]
          /\ UNCHANGED <<closed, unacked>>
       \/ /\ WriteSwallowed(c, "server")
          /\ Swallow(c, "server")
          /\ srv' = [srv EXCEPT ![c] = "await_ack"]
          /\ UNCHANGED <<s2c, closed>>
       \/ /\ WriteFails(c, "server")
          /\ SrvEnd(c)
          /\ UNCHANGED s2c
    /\ UNCHANGED <<srvKey, c2s, link, cli, cliConn, cliKey, srvOsk, cliOsk, qkd, faults, timedOut>>

\* negotiate_key: read_exact of the one-byte ack, with no timeout.
SrvRecvAck(c) ==
    /\ srv[c] = "await_ack"
    /\ \/ /\ c2s[c] # <<>>
          /\ c2s' = [c2s EXCEPT ![c] = Tail(@)]
          /\ srv' = [srv EXCEPT ![c] = "deliver"]
          /\ UNCHANGED <<closed, unacked>>
       \/ /\ c2s[c] = <<>>
          /\ ReadFails(c, "server")
          /\ SrvEnd(c)
          /\ UNCHANGED c2s
    /\ UNCHANGED <<srvKey, s2c, link, cli, cliConn, cliKey, srvOsk, cliOsk, qkd, faults, timedOut>>

\* event_loop: set_fresh_osk with the derived key.
SrvDeliver(c) ==
    /\ srv[c] = "deliver"
    /\ srvOsk' = srvKey[c]
    /\ srv' = [srv EXCEPT ![c] = "sleep"]
    /\ UNCHANGED <<srvKey, s2c, c2s, link, closed, cli, cliConn, cliKey, cliOsk, qkd, faults, tcpVars>>

\* event_loop: the rekey_interval sleep ends and the next round starts.
SrvWake(c) ==
    /\ srv[c] = "sleep"
    /\ srv' = [srv EXCEPT ![c] = "fetch"]
    /\ UNCHANGED <<srvKey, s2c, c2s, link, closed, cli, cliConn, cliKey, srvOsk, cliOsk, qkd, faults, tcpVars>>


(* The client driver and the client role *)

\* event_loop_without_error_handling: TcpStream::connect.  The server's
\* accept spawns the connection's task.  A refused connect is an error.
Connect ==
    /\ cli = "connect"
    /\ \/ \E c \in Slots :
          /\ Free(c)
          /\ link' = [link EXCEPT ![c] = "up"]
          /\ s2c' = [s2c EXCEPT ![c] = <<>>]
          /\ c2s' = [c2s EXCEPT ![c] = <<>>]
          /\ closed' = [closed EXCEPT ![c] = {}]
          /\ unacked' = [unacked EXCEPT ![c] = {}]
          /\ timedOut' = [timedOut EXCEPT ![c] = {}]
          /\ srv' = [srv EXCEPT ![c] = "fetch"]
          /\ cliConn' = c
          /\ cli' = "read_req"
          /\ UNCHANGED faults
       \/ /\ Fault
          /\ cli' = "retry_sleep"
          /\ UNCHANGED <<link, s2c, c2s, closed, srv, cliConn, tcpVars>>
    /\ UNCHANGED <<srvKey, cliKey, srvOsk, cliOsk, qkd>>

\* wait_for_key_negotiation: read_exact of the RekeyReq, with no timeout.
CliRecvReq ==
    /\ cli = "read_req"
    /\ \/ /\ s2c[cliConn] # <<>>
          /\ cliKey' = Head(s2c[cliConn])
          /\ s2c' = [s2c EXCEPT ![cliConn] = Tail(@)]
          /\ cli' = "fetch"
          /\ UNCHANGED <<closed, unacked>>
       \/ /\ s2c[cliConn] = <<>>
          /\ ReadFails(cliConn, "client")
          /\ CliEnd
          /\ UNCHANGED <<cliKey, s2c>>
    /\ UNCHANGED <<srv, srvKey, c2s, link, cliConn, srvOsk, cliOsk, qkd, faults, timedOut>>

\* wait_for_key_negotiation: fetch_specific_key of the requested id.
CliFetch ==
    /\ cli = "fetch"
    /\ \/ /\ cli' = "write_ack"
          /\ UNCHANGED <<closed, faults, unacked>>
       \/ /\ Fault
          /\ CliEnd
    /\ UNCHANGED <<srv, srvKey, s2c, c2s, link, cliConn, cliKey, srvOsk, cliOsk, qkd, timedOut>>

\* wait_for_key_negotiation: write_all of REKEY_ACK.
CliSendAck ==
    /\ cli = "write_ack"
    /\ \/ /\ WriteDelivered(cliConn, "client")
          /\ c2s' = [c2s EXCEPT ![cliConn] = Append(@, cliKey)]
          /\ cli' = "install"
          /\ UNCHANGED <<closed, unacked>>
       \/ /\ WriteSwallowed(cliConn, "client")
          /\ Swallow(cliConn, "client")
          /\ cli' = "install"
          /\ UNCHANGED <<c2s, closed>>
       \/ /\ WriteFails(cliConn, "client")
          /\ CliEnd
          /\ UNCHANGED c2s
    /\ UNCHANGED <<srv, srvKey, s2c, link, cliConn, cliKey, srvOsk, cliOsk, qkd, faults, timedOut>>

\* event_loop: set_fresh_osk with the derived key, then the next round.
CliInstall ==
    /\ cli = "install"
    /\ cliOsk' = cliKey
    /\ cli' = "read_req"
    /\ UNCHANGED <<srv, srvKey, s2c, c2s, link, closed, cliConn, cliKey, srvOsk, qkd, faults, tcpVars>>

\* Seeded fault: the driver returns the error instead of reconnecting, and
\* the process idles on.
CliRetryGivesUp ==
    /\ cli = "retry_sleep"
    /\ UNCHANGED vars

\* The driver's two-second sleep before it reconnects.
CliRetry ==
    /\ cli = "retry_sleep"
    /\ cli' = "connect"
    /\ UNCHANGED <<srv, srvKey, s2c, c2s, link, closed, cliConn, cliKey, srvOsk, cliOsk, qkd, faults, tcpVars>>

(* The network *)

\* An RST: bytes in flight are discarded and every later read or write on
\* the connection fails.
Reset(c) ==
    /\ link[c] = "up"
    /\ Fault
    /\ link' = [link EXCEPT ![c] = "reset"]
    /\ s2c' = [s2c EXCEPT ![c] = <<>>]
    /\ c2s' = [c2s EXCEPT ![c] = <<>>]
    /\ UNCHANGED <<srv, srvKey, closed, cli, cliConn, cliKey, srvOsk, cliOsk, qkd, tcpVars>>

\* A silent partition.  Each end's bytes in flight (a message, a FIN) had
\* either reached the peer's kernel, and stay readable, or are lost, and
\* then that end holds unacknowledged bytes.  Neither end is told.
HalfOpen(c) ==
    /\ HalfOpenPossible
    /\ link[c] = "up"
    /\ Fault
    /\ link' = [link EXCEPT ![c] = "dead"]
    /\ \E lost \in SUBSET InFlight(c) :
          /\ s2c' = [s2c EXCEPT ![c] = IF "server" \in lost THEN <<>> ELSE @]
          /\ c2s' = [c2s EXCEPT ![c] = IF "client" \in lost THEN <<>> ELSE @]
          /\ unacked' = [unacked EXCEPT ![c] = lost]
    /\ UNCHANGED <<srv, srvKey, closed, cli, cliConn, cliKey, srvOsk, cliOsk, qkd, timedOut>>

\* The kernel gives up retransmitting end e's unacknowledged bytes
\* (tcp_retries2) and fails its socket with ETIMEDOUT.  (Once the stream
\* is dropped nobody is told.)
RetransmitTimeout(c, e) ==
    /\ link[c] = "dead"
    /\ e \in unacked[c] \ timedOut[c]
    /\ e \notin closed[c]
    /\ timedOut' = [timedOut EXCEPT ![c] = @ \cup {e}]
    /\ UNCHANGED <<srv, srvKey, s2c, c2s, link, closed, cli, cliConn, cliKey, srvOsk, cliOsk, qkd, faults, unacked>>

ServerTask(c) ==
    SrvFetch(c) \/ SrvSend(c) \/ SrvRecvAck(c) \/ SrvDeliver(c) \/ SrvWake(c)

Client ==
    Connect \/ CliRecvReq \/ CliFetch \/ CliSendAck \/ CliInstall \/ CliRetry

Next ==
    \/ Client
    \/ \E c \in Slots : ServerTask(c) \/ Reset(c) \/ HalfOpen(c)
    \/ \E c \in Slots, e \in Side : RetransmitTimeout(c, e)

Spec == Init /\ [][Next]_vars

\* Every task is polled again when its I/O, fetch or sleep completes (the
\* tokio scheduler, and the sleeps end), and the kernel's retransmission
\* timer fires; faults are never forced.
FairSpec ==
    /\ Spec
    /\ WF_vars(Client)
    /\ \A c \in Slots : WF_vars(ServerTask(c))
    /\ \A c \in Slots, e \in Side : WF_vars(RetransmitTimeout(c, e))

-----------------------------------------------------------------------------
(* Properties *)

TypeOK ==
    /\ srv \in [Slots -> SrvState]
    /\ srvKey \in [Slots -> Keys \cup {None}]
    /\ s2c \in [Slots -> Seq(Keys)]
    /\ c2s \in [Slots -> Seq(Keys)]
    /\ link \in [Slots -> LinkState]
    /\ closed \in [Slots -> SUBSET Side]
    /\ cli \in CliState
    /\ cliConn \in Slots \cup {None}
    /\ cliKey \in Keys \cup {None}
    /\ srvOsk \in Keys \cup {None}
    /\ cliOsk \in Keys \cup {None}
    /\ qkd \in Keys
    /\ faults \in 0 .. MaxFaults
    /\ unacked \in [Slots -> SUBSET Side]
    /\ timedOut \in [Slots -> SUBSET Side]

\* Spec 4.4, ordering: on every connection the two roles move in lockstep,
\* whatever resets, failed fetches and reconnects interleave.  At most one
\* message is in flight; a request in flight, a client working on a
\* request, and an ack in flight all belong to the round the server task
\* is awaiting (or abandoned).
RoundLockstep ==
    \A c \in Slots :
        /\ Len(s2c[c]) + Len(c2s[c]) <= 1
        /\ s2c[c] # <<>> \/ c2s[c] # <<>> => srv[c] \in {"await_ack", "done"}
        /\ s2c[c] # <<>> => Head(s2c[c]) = srvKey[c]
        /\ c2s[c] # <<>> => Head(c2s[c]) = srvKey[c]
        /\ cliConn = c /\ cli \in {"fetch", "write_ack"} =>
              /\ srv[c] \in {"await_ack", "done"}
              /\ cliKey = srvKey[c]

\* Both peers' OSK handlers hold the same key.
InSync == srvOsk = cliOsk

\* After the faults stop, the peers keep coming back to the same OSK: a
\* round lost to a reset or failed fetch, an ack lost after the client
\* installed its key included, is repaired by the client's reconnect.
EventuallyInSync == []<>InSync

=============================================================================
