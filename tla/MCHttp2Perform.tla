--------------------------- MODULE MCHttp2Perform ----------------------------
(* Two calls of up to three chunks: on one session or on two, with a buffer *)
(* that holds the shorter responses but not all that arrives late.          *)
EXTENDS Http2Perform
=============================================================================
