----------------------------- MODULE MCMemPool -----------------------------
(* Four objects, and counters of four bits: memory that was zero before    *)
(* mempool_init, that was not, and that makes the counter wrap around.     *)
EXTENDS MemPool

MCLeftover == {0, 2, CountLimit - 2}
=============================================================================
