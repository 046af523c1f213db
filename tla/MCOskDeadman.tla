--------------------------- MODULE MCOskDeadman ---------------------------
(* Instance of OskDeadman for TLC: a deadline of three ticks, so that a   *)
(* key ages past a refresh and past a deadline; a request channel of two, *)
(* so that producers block on a full channel; two handles, so that one    *)
(* producer may go while the other still sends.                           *)
EXTENDS OskDeadman

MCEraseAfter == 3
MCDeadmanCap == 2
MCProducers == 2
=============================================================================
