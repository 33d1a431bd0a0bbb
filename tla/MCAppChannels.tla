--------------------------- MODULE MCAppChannels ---------------------------
(* An instance of AppChannels for TLC.                                     *)
EXTENDS AppChannels

\* The apps 1..5 in a ring, and every other app connected to app 2.
RingAndMore ==
  {{a, (a % 5) + 1} : a \in 1..5} \cup {{2, a} : a \in Apps \ (1..5)}
=============================================================================
