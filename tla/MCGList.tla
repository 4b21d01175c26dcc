------------------------------ MODULE MCGList ------------------------------
(* Lists of at most four nodes, positions on both sides of either end, and *)
(* files of up to five words, loadable or not, with a word left over.      *)
EXTENDS Startup, SequencesExt

CONSTANTS x, y, enable

MCPositions == -1 .. 5
MCWords     == {x, y, enable}
MCFiles     == BoundedSeq(MCWords, 5)
=============================================================================
