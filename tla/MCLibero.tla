------------------------------ MODULE MCLibero ------------------------------
(***************************************************************************)
(* The daemon small: a ring of three slots filled up to a backlog of two,  *)
(* so that three packets reach the limit, the wrap-around and the dropping *)
(* of a message.  Two modules: "any" may accept or drop, "test" is like    *)
(* modules/test.c, which denies, continues or exits.  The kernel takes the *)
(* lowest packet_id that is free, so numbers are soon used again.          *)
(***************************************************************************)
EXTENDS Libero

CONSTANTS any, test

MCModules == <<test, any>>
MCReply   == [m \in {any, test} |->
               IF m = any THEN {NF_DROP, NF_ACCEPT} ELSE {SIN_DENY, SIN_CONTINUE}]
MCExiting == {test}

Lowest(used) == {i \in Ids \ used : \A j \in Ids \ used : i <= j}
=============================================================================
