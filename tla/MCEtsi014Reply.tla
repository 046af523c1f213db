-------------------------- MODULE MCEtsi014Reply --------------------------
(* Bounds for checking Etsi014Reply: keys of up to 34 octets (16, 24, 32  *)
(* and 33 octets among them), malformed texts of up to 48 characters, and  *)
(* replies with up to two keys.                                            *)
EXTENDS Etsi014Reply

MCMaxKeyBytes == 34
MCMaxTextLen == 48
MCMaxKeys == 2

=============================================================================
