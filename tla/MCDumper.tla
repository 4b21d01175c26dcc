------------------------------ MODULE MCDumper ------------------------------
(***************************************************************************)
(* Three packets: two copies in the list and one in either hand.  There is *)
(* one packet_id, so each packet the kernel queues gets the number that    *)
(* the accepted one had.                                                   *)
(***************************************************************************)
EXTENDS Dumper

CONSTANTS p1, p2, p3

MCPackets == {p1, p2, p3}

AnyFree(used) == Ids \ used
=============================================================================
