----------------------------- MODULE MCTransfer -----------------------------
(* Three calls; frames that fit a chunk and frames that take two; payloads  *)
(* that fit a DATA frame and payloads that do not.                          *)
EXTENDS Transfer
=============================================================================
