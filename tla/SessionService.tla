--------------------------- MODULE SessionService ---------------------------
(***************************************************************************)
(* What net/http2 promises to the tasks that use it, with no queue, task,  *)
(* notification or memory in sight: one task at a time holds the HTTP/2    *)
(* session; while it holds it, every call it makes is answered once, with  *)
(* a result produced for that call; a perform succeeds only on a session   *)
(* whose connect call went through.  Module Http2 implements this.         *)
(***************************************************************************)
CONSTANTS Tasks,     \* the tasks that call http2_session_*
          None       \* nobody / nothing

VARIABLES holder,    \* the task that has the session, or None
          stage,     \* where each task stands
          question,  \* the call a task has outstanding, or None
          answer,    \* the result waiting for a task, or None
          secured    \* the session in use has completed its TLS handshake

vars == <<holder, stage, question, answer, secured>>

Stages    == {"out", "wanting", "in", "asking", "answered"}
Questions == {"connect", "perform"}
Results   == {"ok", "fail"}

TypeOK ==
    /\ holder \in Tasks \cup {None}
    /\ stage \in [Tasks -> Stages]
    /\ question \in [Tasks -> Questions \cup {None}]
    /\ answer \in [Tasks -> Results \cup {None}]
    /\ secured \in BOOLEAN

Init ==
    /\ holder = None
    /\ stage = [t \in Tasks |-> "out"]
    /\ question = [t \in Tasks |-> None]
    /\ answer = [t \in Tasks |-> None]
    /\ secured = FALSE

Move(t, from, to) ==
    /\ stage[t] = from
    /\ stage' = [stage EXCEPT ![t] = to]

Want(t) ==
    /\ Move(t, "out", "wanting")
    /\ UNCHANGED <<holder, question, answer, secured>>

Grab(t) ==
    /\ holder = None
    /\ Move(t, "wanting", "in")
    /\ holder' = t
    /\ UNCHANGED <<question, answer, secured>>

Ask(t, q) ==
    /\ holder = t
    /\ Move(t, "in", "asking")
    /\ question' = [question EXCEPT ![t] = q]
    /\ UNCHANGED <<holder, answer, secured>>

\* A connect call settles whether the session is secured.
Secure(t) ==
    /\ stage[t] = "asking"
    /\ question[t] = "connect"
    /\ secured' \in BOOLEAN
    /\ UNCHANGED <<holder, stage, question, answer>>

Reply(t) ==
    /\ Move(t, "asking", "answered")
    /\ \E r \in Results :
          /\ r = "ok" => secured
          /\ answer' = [answer EXCEPT ![t] = r]
    /\ UNCHANGED <<holder, question, secured>>

Collect(t) ==
    /\ Move(t, "answered", "in")
    /\ question' = [question EXCEPT ![t] = None]
    /\ answer' = [answer EXCEPT ![t] = None]
    /\ UNCHANGED <<holder, secured>>

\* The session is destroyed; only then can another task grab one.
Discard(t) ==
    /\ holder = t
    /\ stage[t] = "in"
    /\ secured' = FALSE
    /\ UNCHANGED <<holder, stage, question, answer>>

Drop(t) ==
    /\ holder = t
    /\ ~secured
    /\ Move(t, "in", "out")
    /\ holder' = None
    /\ UNCHANGED <<question, answer, secured>>

Next ==
    \E t \in Tasks :
        \/ Want(t) \/ Grab(t)
        \/ \E q \in Questions : Ask(t, q)
        \/ Secure(t) \/ Reply(t) \/ Collect(t)
        \/ Discard(t) \/ Drop(t)

Spec == Init /\ [][Next]_vars
=============================================================================
