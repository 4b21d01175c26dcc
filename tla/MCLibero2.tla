----------------------------- MODULE MCLibero2 -----------------------------
(***************************************************************************)
(* Two processing threads with one module, a packet that is TCP, one that  *)
(* is not, and two packet_ids, of which the kernel takes the lower: the    *)
(* number of the packet just released is the next to be used.              *)
(***************************************************************************)
EXTENDS Libero, TLC

CONSTANTS any, w1, w2

MCWorkers  == {w1, w2}
OneModule  == <<any>>
MCReply    == [m \in {any} |-> {NF_DROP, NF_ACCEPT}]
Lowest(used) == {i \in Ids \ used : \A j \in Ids \ used : i <= j}

WorkerSymmetry == Permutations(MCWorkers)
=============================================================================
