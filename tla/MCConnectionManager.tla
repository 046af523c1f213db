------------------------ MODULE MCConnectionManager ------------------------
(* Instance of ConnectionManager for TLC: five connections, so that two   *)
(* budding connections, one active one and a newcomer coexist; a budding  *)
(* map of two so that the third accept prunes; a channel of three so that   *)
(* connection tasks block on a full channel.                              *)
EXTENDS ConnectionManager

MCMaxConn == 5
MCMaxBudding == 2
MCChanCap == 3
=============================================================================
