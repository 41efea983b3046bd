------------------------------- MODULE MCBoot --------------------------------
(* One restart, at any moment: while the device comes up, or when it is up.  *)
EXTENDS Boot
=============================================================================
