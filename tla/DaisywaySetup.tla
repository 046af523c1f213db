--------------------------- MODULE DaisywaySetup ---------------------------
(***************************************************************************)
(* Start-up of the exchange command: ExchangeCommand::run loads the        *)
(* configuration and runs Daisyway::from_config, then the participant's    *)
(* event loop (DaisywayTcpParticipant, DaisywayTcpServer::event_loop).     *)
(*                                                                         *)
(* from_config runs its fallible steps in order: the PSK, the two peer     *)
(* ids, the QKD client, the key sink (WireGuardOskHandler::setup or the    *)
(* outfile) with its deadman.  Each input is abstracted to whether the     *)
(* step it feeds succeeds; what the steps compute is modelled in KeyFile,  *)
(* Etsi014Reply and OskDeadman.  DaisywayCli runs this start-up for the    *)
(* exchange command.                                                       *)
(***************************************************************************)

\* A configuration file, abstracted to what decides each start-up step.
Config ==
    [parses: BOOLEAN,           \* toml::from_str accepts the file
     pskFile: {"none", "ok", "error"},  \* peer.psk_file: absent, loads, fails
     localId: BOOLEAN,          \* wireguard.self_public_key is base64
     remoteId: BOOLEAN,         \* wireguard.peer_public_key is base64
     etsi: BOOLEAN,             \* the TLS files of [etsi014] load
     interface: BOOLEAN,        \* wireguard.interface is set
     outfile: BOOLEAN,          \* [outfile] is present
     wgDevice: BOOLEAN,         \* the interface exists and has the peer
     role: {"client", "server"},
     bind: BOOLEAN]             \* the listen address can be bound

VARIABLES
    cfg,        \* the configuration read, "unread" before load_from_file
    pc,         \* the start-up step about to run
    psk,        \* "unset", the "zero" PSK or the one from the "file"
    sink,       \* "none", or the sink the deadman was started on
    startup     \* "pending"; "error" or "panic"; or the running role

startupVars == <<cfg, pc, psk, sink, startup>>

-----------------------------------------------------------------------------

\* An early return with the error of a `?`.
Fail == pc' = "done" /\ startup' = "error"

StartupInit ==
    /\ cfg = "unread"
    /\ pc = "load"
    /\ psk = "unset"
    /\ sink = "none"
    /\ startup = "pending"

\* DaisywayConfig::load_from_file: read the file and parse it.
LoadConfig ==
    /\ pc = "load"
    /\ \E c \in Config :
         /\ cfg' = c
         /\ IF c.parses THEN pc' = "psk" /\ UNCHANGED startup ELSE Fail
    /\ UNCHANGED <<psk, sink>>

\* from_config: the PSK file, or the zero PSK when none is configured.
LoadPsk ==
    /\ pc = "psk"
    /\ IF cfg.pskFile = "error" THEN Fail /\ UNCHANGED psk
       ELSE /\ psk' = IF cfg.pskFile = "none" THEN "zero" ELSE "file"
            /\ pc' = "peer_ids"
            /\ UNCHANGED startup
    /\ UNCHANGED <<cfg, sink>>

\* Seeded fault: only the local peer id is decoded before the sink.
DecodePeerIdsLocalOnly ==
    /\ pc = "peer_ids"
    /\ IF ~cfg.localId THEN Fail ELSE pc' = "etsi" /\ UNCHANGED startup
    /\ UNCHANGED <<cfg, psk, sink>>

\* from_config: base64_to_key of the local, then the remote peer id.
DecodePeerIds ==
    /\ pc = "peer_ids"
    /\ IF ~cfg.localId \/ ~cfg.remoteId THEN Fail
       ELSE pc' = "etsi" /\ UNCHANGED startup
    /\ UNCHANGED <<cfg, psk, sink>>

\* Etsi014Connection::from_config.
ConnectEtsi ==
    /\ pc = "etsi"
    /\ IF cfg.etsi THEN pc' = "sink" /\ UNCHANGED startup ELSE Fail
    /\ UNCHANGED <<cfg, psk, sink>>

\* WireGuardOskHandler::setup: the peer id is decoded again and an invalid
\* one is an expect panic; then the device must exist and list the peer.
WireGuardSetup ==
    CASE ~cfg.remoteId -> "panic"
      [] ~cfg.wgDevice -> "error"
      [] OTHER         -> "ok"

\* start_deadman: the sink is handed to a new OskDeadman, whose worker
\* erases it at once (modelled in OskDeadman).
StartDeadman(s) == sink' = s

\* from_config: exactly one of wireguard.interface and [outfile] selects
\* the sink, which start_deadman hands to a new deadman.
SelectSink ==
    /\ pc = "sink"
    /\ CASE cfg.interface = cfg.outfile -> Fail /\ UNCHANGED sink
         [] cfg.outfile ->
              /\ StartDeadman("outfile")
              /\ pc' = "participant"
              /\ UNCHANGED startup
         [] WireGuardSetup = "ok" ->
              /\ StartDeadman("wireguard")
              /\ pc' = "participant"
              /\ UNCHANGED startup
         [] OTHER ->
              /\ pc' = "done"
              /\ startup' = WireGuardSetup
              /\ UNCHANGED sink
    /\ UNCHANGED <<cfg, psk>>

\* DaisywayTcpServer::event_loop: bind the listen address, then run the
\* connection manager (modelled in ConnectionManager).
ServerEventLoop == IF cfg.bind THEN "server" ELSE "error"

\* Daisyway::event_loop: the configured role's event loop; the client's
\* loops for ever.
RunParticipant ==
    /\ pc = "participant"
    /\ pc' = "done"
    /\ startup' = IF cfg.role = "client" THEN "client" ELSE ServerEventLoop
    /\ UNCHANGED <<cfg, psk, sink>>

StartupNext ==
    \/ LoadConfig
    \/ LoadPsk
    \/ DecodePeerIds
    \/ ConnectEtsi
    \/ SelectSink
    \/ RunParticipant

-----------------------------------------------------------------------------
(* Properties *)

\* Start-up never panics: the expect("Invalid peer_id") of
\* WireGuardOskHandler::setup is unreachable, because from_config decodes
\* the same peer id, and returns its error, before it selects the sink.
NoSetupPanic == startup # "panic"

=============================================================================
