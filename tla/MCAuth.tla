------------------------------- MODULE MCAuth --------------------------------
(* Enough tokens for a registration, a refresh of it and a second           *)
(* registration; one power loss and one network loss, anywhere among them.  *)
EXTENDS Auth
=============================================================================
