--------------------------- MODULE MCRemoteConnect ---------------------------
(* Instances of RemoteConnect for TLC.                                      *)
EXTENDS RemoteConnect
=============================================================================
