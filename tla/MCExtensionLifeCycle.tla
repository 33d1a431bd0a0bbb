------------------------ MODULE MCExtensionLifeCycle ------------------------
(* ExtensionLifeCycle with the small sets its configurations name. *)
EXTENDS ExtensionLifeCycle
=============================================================================
