------------------------- MODULE MCGraphLifeCycle -------------------------
(* GraphLifeCycle for TLC.                                                 *)
EXTENDS GraphLifeCycle
===========================================================================
