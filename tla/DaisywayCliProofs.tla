------------------------- MODULE DaisywayCliProofs -------------------------
(***************************************************************************)
(* Proof about the start-up of the exchange command (DaisywayCli,         *)
(* DaisywaySetup): for every command line, environment and configuration, *)
(* start-up never reaches the expect panic of WireGuardOskHandler::setup.  *)
(***************************************************************************)
EXTENDS DaisywayCli, TLAPS

Steps == {"load", "psk", "peer_ids", "etsi", "sink", "participant", "done"}

\* The inductive invariant of the start-up: once the configuration is read
\* it stays a configuration, and from the step after DecodePeerIds on the
\* remote peer id is known to decode.
SetupInv ==
    /\ pc \in Steps
    /\ pc # "load" => cfg \in Config
    /\ pc \in {"etsi", "sink", "participant"} => cfg.remoteId
    /\ startup # "panic"

-----------------------------------------------------------------------------

\* Init establishes the invariant.
LEMMA InitInv == Init => SetupInv
BY DEF Init, StartupInit, SetupInv, Steps

\* A step of the start-up keeps SetupInv.
LEMMA StartupStep ==
    ASSUME SetupInv, StartupNext
    PROVE  SetupInv'
<1>1. CASE LoadConfig
  BY <1>1 DEF LoadConfig, Fail, SetupInv, Steps
<1>2. CASE LoadPsk
  BY <1>2 DEF LoadPsk, Fail, SetupInv, Steps
<1>3. CASE DecodePeerIds
  BY <1>3 DEF DecodePeerIds, Fail, SetupInv, Steps, Config
<1>4. CASE ConnectEtsi
  BY <1>4 DEF ConnectEtsi, Fail, SetupInv, Steps
<1>5. CASE SelectSink
  <2>1. cfg.remoteId
    BY <1>5 DEF SelectSink, SetupInv
  <2>2. WireGuardSetup # "panic"
    BY <2>1 DEF WireGuardSetup
  <2> QED
    BY <1>5, <2>2 DEF SelectSink, StartDeadman, Fail, SetupInv, Steps
<1>6. CASE RunParticipant
  BY <1>6 DEF RunParticipant, ServerEventLoop, SetupInv, Steps
<1> QED
  BY <1>1, <1>2, <1>3, <1>4, <1>5, <1>6 DEF StartupNext

\* Every step keeps SetupInv.
LEMMA SetupStep == SetupInv /\ [Next]_vars => SetupInv'
<1> SUFFICES ASSUME SetupInv, [Next]_vars PROVE SetupInv'
  OBVIOUS
<1>1. CASE InitLogging \/ Run
  BY <1>1 DEF InitLogging, Run, SetupInv, startupVars
<1>2. CASE Exchange
  BY <1>2, StartupStep DEF Exchange
<1>3. CASE UNCHANGED vars
  BY <1>3 DEF vars, SetupInv
<1> QED
  BY <1>1, <1>2, <1>3 DEF Next

-----------------------------------------------------------------------------

\* Start-up never panics: from_config decodes the remote peer id, and
\* returns its error, before WireGuardOskHandler::setup expects it to
\* decode.  This holds for every configuration file.
THEOREM SetupNeverPanics == Spec => []NoSetupPanic
<1>1. SetupInv => NoSetupPanic
  BY DEF SetupInv, NoSetupPanic
<1> QED
  BY <1>1, InitInv, SetupStep, PTL DEF Spec

=============================================================================
