------------------------------- MODULE MCHttp2 -------------------------------
(* Three callers, as in the firmware (auth_task, poll_task,                *)
(* measurements_task); two addresses, so that a freed session's address can *)
(* be reused or not; two performs, so that a session is used again.         *)
EXTENDS Http2
=============================================================================
