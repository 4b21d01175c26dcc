----------------------------- MODULE MCGQueueAPI -----------------------------
(***************************************************************************)
(* Constants for checking the ring by TLC: four slots, so that three       *)
(* elements fill it and front and rear wrap at different times, and three  *)
(* distinguishable elements, so that a swap or a repetition shows.         *)
(***************************************************************************)
EXTENDS GQueueAPI

CONSTANTS a, b, c

MCElements == {a, b, c}
=============================================================================
