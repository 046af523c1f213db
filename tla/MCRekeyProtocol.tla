-------------------------- MODULE MCRekeyProtocol --------------------------
(* Instance of RekeyProtocol for TLC: two connection slots, so that a new *)
(* connection runs while the task of a broken one is still winding down;  *)
(* three key ids, so that consecutive rounds and a round lost in between  *)
(* have different keys; two faults, so that a lost ack is followed by a   *)
(* second fault during the recovery.                                      *)
EXTENDS RekeyProtocol

MCNSlots == 2
MCNumKeys == 3
MCMaxFaults == 2
=============================================================================
