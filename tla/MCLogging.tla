----------------------------- MODULE MCLogging -----------------------------
(* Two workers, two messages and a backlog of one: workers log side by     *)
(* side, and a message can find the queue at its limit.  The workers run   *)
(* the same code and no property names one, so that they are symmetric.    *)
EXTENDS Logging

CONSTANTS w1, w2

MCWorkers == {w1, w2}

WorkerSymmetry == Permutations(MCWorkers)
=============================================================================
