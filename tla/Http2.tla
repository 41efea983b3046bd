-------------------------------- MODULE Http2 --------------------------------
(***************************************************************************)
(* net/http2/http2.c: the HTTP/2 session and the hand-off of calls to      *)
(* http2_task_.  A task acquires the one session (http2_mutex_), queues a  *)
(* connect or perform event, and blocks on its task notification until     *)
(* http2_task_ has carried the call out.  What a call does on the wire is  *)
(* abstracted to its result; module Http2Perform opens that box.           *)
(*                                                                         *)
(* Tasks are preemptive: every action below is a stretch of code between   *)
(* two points at which another task's step can be observed.                *)
(***************************************************************************)
EXTENDS Naturals, Sequences, FiniteSets

CONSTANTS
    Tasks,        \* callers: auth_task, poll_task, measurements_task
    Sessions,     \* the addresses malloc can return for an http2_session
    MaxPerforms,  \* performs on one session (the register loop ends by expiry)
    None          \* NULL

ASSUME SessionsAssumption == Sessions # {}
ASSUME MaxPerformsAssumption == MaxPerforms \in Nat \ {0}

\* xQueueCreate(2, ...)
QueueLength == 2

VARIABLES
    pc,        \* [Tasks -> Labels] where each caller stands
    handle,    \* [Tasks -> Sessions or None] the caller's session pointer
    call,      \* [Tasks -> "connect", "perform" or None] its outstanding call
    performs,  \* [Tasks -> Nat] performs made on the session it holds
    mutex,     \* http2_mutex_: the task holding it, or None
    live,      \* the sessions malloc has returned and nobody has freed
    ng,        \* the sessions whose nghttp2 side is set up (static rx buffer)
    conn,      \* [Sessions -> ConnStates] esp_tls connection state
    queue,     \* http2_event_queue_
    serving,   \* the event http2_task_ works on, or None
    outcome,   \* its result, once computed, or None
    notified   \* [Tasks -> Results or None] the task's pending notification

callerVars  == <<pc, handle, call, performs>>
sessionVars == <<mutex, live, ng, conn>>
serverVars  == <<queue, serving, outcome, notified>>
vars == <<callerVars, sessionVars, serverVars>>

Results    == {"ok", "fail"}
Calls      == {"connect", "perform"}
ConnStates == {"none", "init", "done", "fail"}
Labels     == {"idle", "acquire", "malloc", "tls", "ng", "acquired", "sent", "blocked",
               "connected", "refused", "free", "give", "unwind", "unwind_give", "failed"}
Event == [type : Calls, session : Sessions, requestor : Tasks]

\* NULL is not a task, an address, a result or an event.
ASSUME NoneAssumption == None \notin Tasks \cup Sessions \cup Calls \cup Results \cup Event

TypeOK ==
    /\ pc \in [Tasks -> Labels]
    /\ handle \in [Tasks -> Sessions \cup {None}]
    /\ call \in [Tasks -> Calls \cup {None}]
    /\ performs \in [Tasks -> 0 .. MaxPerforms]
    /\ mutex \in Tasks \cup {None}
    /\ live \in SUBSET Sessions
    /\ ng \in SUBSET Sessions
    /\ conn \in [Sessions -> ConnStates]
    /\ queue \in Seq(Event)
    /\ serving \in Event \cup {None}
    /\ outcome \in Results \cup {None}
    /\ notified \in [Tasks -> Results \cup {None}]

Init ==
    /\ pc = [t \in Tasks |-> "idle"]
    /\ handle = [t \in Tasks |-> None]
    /\ call = [t \in Tasks |-> None]
    /\ performs = [t \in Tasks |-> 0]
    /\ mutex = None
    /\ live = {}
    /\ ng = {}
    /\ conn = [s \in Sessions |-> "none"]
    /\ queue = <<>>
    /\ serving = None
    /\ outcome = None
    /\ notified = [t \in Tasks |-> None]

Go(t, from, to) ==
    /\ pc[t] = from
    /\ pc' = [pc EXCEPT ![t] = to]

-----------------------------------------------------------------------------
(* http2_session_acquire                                                   *)

\* A task decides to talk to a server: every caller waits with portMAX_DELAY.
CallAcquire(t) ==
    /\ Go(t, "idle", "acquire")
    /\ UNCHANGED <<handle, call, performs, sessionVars, serverVars>>

\* Variant: the session is created without taking the mutex first.
TakeMutexUnguarded(t) ==
    /\ Go(t, "acquire", "malloc")
    /\ mutex' = t
    /\ UNCHANGED <<handle, call, performs, live, ng, conn, serverVars>>

TakeMutex(t) ==
    /\ mutex = None
    /\ Go(t, "acquire", "malloc")
    /\ mutex' = t
    /\ UNCHANGED <<handle, call, performs, live, ng, conn, serverVars>>

Malloc(t) ==
    /\ Go(t, "malloc", "tls")
    /\ \E s \in Sessions \ live :
          /\ live' = live \cup {s}
          /\ handle' = [handle EXCEPT ![t] = s]
    /\ performs' = [performs EXCEPT ![t] = 0]
    /\ UNCHANGED <<call, mutex, ng, conn, serverVars>>

\* http2_tls_init_: esp_tls_init can fail for want of memory.
InitTls(t) ==
    /\ \/ /\ Go(t, "tls", "ng")
          /\ conn' = [conn EXCEPT ![handle[t]] = "init"]
       \/ /\ Go(t, "tls", "unwind")
          /\ UNCHANGED conn
    /\ UNCHANGED <<handle, call, performs, mutex, live, ng, serverVars>>

\* http2_ng_init_: on failure the nghttp2 session does not exist.
InitNg(t) ==
    /\ \/ /\ Go(t, "ng", "acquired")
          /\ ng' = ng \cup {handle[t]}
       \/ /\ Go(t, "ng", "unwind")
          /\ UNCHANGED ng
    /\ UNCHANGED <<handle, call, performs, mutex, live, conn, serverVars>>

-----------------------------------------------------------------------------
(* http2_session_release, from the caller or from a failing acquire        *)

Destroy(t) ==
    /\ live' = live \ {handle[t]}
    /\ ng' = ng \ {handle[t]}
    /\ conn' = [conn EXCEPT ![handle[t]] = "none"]
    /\ handle' = [handle EXCEPT ![t] = None]

\* Callers reach their exit label after any failure, or with the work done.
CallRelease(t) ==
    /\ \E from \in {"acquired", "connected", "refused"} : Go(t, from, "free")
    /\ UNCHANGED <<handle, call, performs, sessionVars, serverVars>>

\* nghttp2_session_del, esp_tls_conn_destroy, free.
Free(t) ==
    /\ Go(t, "free", "give") \/ Go(t, "unwind", "unwind_give")
    /\ Destroy(t)
    /\ UNCHANGED <<call, performs, mutex, serverVars>>

\* Variant: a failing acquire returns with the mutex still taken.
GiveAfterUseOnly(t) ==
    /\ \/ Go(t, "give", "idle") /\ mutex' = None
       \/ Go(t, "unwind_give", "failed") /\ UNCHANGED mutex
    /\ UNCHANGED <<handle, call, performs, live, ng, conn, serverVars>>

Give(t) ==
    /\ Go(t, "give", "idle") \/ Go(t, "unwind_give", "failed")
    /\ mutex' = None
    /\ UNCHANGED <<handle, call, performs, live, ng, conn, serverVars>>

\* Variant: release gives the mutex although no session was acquired.
ReleaseNullGives(t) ==
    /\ Go(t, "failed", "idle")
    /\ mutex' = None
    /\ UNCHANGED <<handle, call, performs, live, ng, conn, serverVars>>

\* acquire returned NULL; the caller still calls release, which ignores NULL.
ReleaseNull(t) ==
    /\ Go(t, "failed", "idle")
    /\ UNCHANGED <<handle, call, performs, sessionVars, serverVars>>

-----------------------------------------------------------------------------
(* http2_session_connect and http2_perform, caller side                    *)

Send(t, type) ==
    /\ Len(queue) < QueueLength
    /\ queue' = Append(queue, [type |-> type, session |-> handle[t], requestor |-> t])
    /\ call' = [call EXCEPT ![t] = type]

CallConnect(t) ==
    /\ Go(t, "acquired", "sent")
    /\ Send(t, "connect")
    /\ UNCHANGED <<handle, performs, sessionVars, serving, outcome, notified>>

CallPerform(t) ==
    /\ performs[t] < MaxPerforms
    /\ Go(t, "connected", "sent")
    /\ Send(t, "perform")
    /\ performs' = [performs EXCEPT ![t] = @ + 1]
    /\ UNCHANGED <<handle, sessionVars, serving, outcome, notified>>

\* Variant: entering the wait discards a notification that is already there.
EnterWaitDiscards(t) ==
    /\ Go(t, "sent", "blocked")
    /\ notified' = [notified EXCEPT ![t] = None]
    /\ UNCHANGED <<handle, call, performs, sessionVars, queue, serving, outcome>>

\* xTaskNotifyWait clears the value on entry only while none is pending.
EnterWait(t) ==
    /\ Go(t, "sent", "blocked")
    /\ UNCHANGED <<handle, call, performs, sessionVars, serverVars>>

\* Where a caller goes with the result of its call.
AfterCall(type, rc) ==
    IF type = "connect" /\ rc = "fail" THEN "refused" ELSE "connected"

\* Variant: the wait has a timeout, after which the caller gives up.
ReturnOrTimeOut(t) ==
    /\ Go(t, "blocked", AfterCall(call[t], IF notified[t] = None THEN "fail" ELSE notified[t]))
    /\ notified' = [notified EXCEPT ![t] = None]
    /\ call' = [call EXCEPT ![t] = None]
    /\ UNCHANGED <<handle, performs, sessionVars, queue, serving, outcome>>

Return(t) ==
    /\ notified[t] # None
    /\ Go(t, "blocked", AfterCall(call[t], notified[t]))
    /\ notified' = [notified EXCEPT ![t] = None]
    /\ call' = [call EXCEPT ![t] = None]
    /\ UNCHANGED <<handle, performs, sessionVars, queue, serving, outcome>>

-----------------------------------------------------------------------------
(* http2_task_                                                             *)

Receive ==
    /\ serving = None
    /\ queue # <<>>
    /\ serving' = Head(queue)
    /\ queue' = Tail(queue)
    /\ UNCHANGED <<callerVars, sessionVars, outcome, notified>>

\* Variant: the handshake is started once instead of driven to its end.
HandleConnectOnce ==
    /\ serving # None /\ outcome = None
    /\ serving.type = "connect"
    /\ conn' = [conn EXCEPT ![serving.session] = "connecting"]
    /\ outcome' = "ok"
    /\ UNCHANGED <<callerVars, mutex, live, ng, queue, serving, notified>>

\* Variant: the final state of the handshake is not looked at.
HandleConnectLenient ==
    /\ serving # None /\ outcome = None
    /\ serving.type = "connect"
    /\ \E secure \in BOOLEAN, rc \in Results :
          /\ conn' = [conn EXCEPT ![serving.session] = IF secure THEN "done" ELSE "fail"]
          /\ outcome' = rc
    /\ UNCHANGED <<callerVars, mutex, live, ng, queue, serving, notified>>

\* The handshake succeeds or fails; submitting SETTINGS can fail after it.
HandleConnect ==
    /\ serving # None /\ outcome = None
    /\ serving.type = "connect"
    /\ \E secure \in BOOLEAN, rc \in Results :
          /\ rc = "ok" => secure
          /\ conn' = [conn EXCEPT ![serving.session] = IF secure THEN "done" ELSE "fail"]
          /\ outcome' = rc
    /\ UNCHANGED <<callerVars, mutex, live, ng, queue, serving, notified>>

HandlePerform ==
    /\ serving # None /\ outcome = None
    /\ serving.type = "perform"
    /\ \E rc \in Results :
          /\ rc = "ok" => conn[serving.session] = "done"
          /\ outcome' = rc
    /\ UNCHANGED <<callerVars, sessionVars, queue, serving, notified>>

\* Variant: only successful calls are reported back.
NotifySuccess ==
    /\ outcome # None
    /\ notified' = IF outcome = "ok" THEN [notified EXCEPT ![serving.requestor] = outcome]
                                     ELSE notified
    /\ serving' = None
    /\ outcome' = None
    /\ UNCHANGED <<callerVars, sessionVars, queue>>

\* xTaskNotify(event.requestor, rc, eSetValueWithOverwrite)
Notify ==
    /\ outcome # None
    /\ notified' = [notified EXCEPT ![serving.requestor] = outcome]
    /\ serving' = None
    /\ outcome' = None
    /\ UNCHANGED <<callerVars, sessionVars, queue>>

-----------------------------------------------------------------------------
Acquiring(t) == TakeMutex(t) \/ Malloc(t) \/ InitTls(t) \/ InitNg(t)
Calling(t)   == CallConnect(t) \/ CallPerform(t) \/ EnterWait(t) \/ Return(t)
Releasing(t) == CallRelease(t) \/ Free(t) \/ Give(t) \/ ReleaseNull(t)
Http2Task    == Receive \/ HandleConnect \/ HandlePerform \/ Notify

Next ==
    \/ \E t \in Tasks : CallAcquire(t) \/ Acquiring(t) \/ Calling(t) \/ Releasing(t)
    \/ Http2Task

Spec == Init /\ [][Next]_vars

\* A ready task is scheduled, and http2_task_ is never blocked while its queue
\* holds an event.  Nothing makes a task start a new acquisition.
Fairness ==
    /\ \A t \in Tasks : WF_vars(Acquiring(t) \/ Calling(t) \/ Releasing(t))
    /\ WF_vars(Http2Task)

FairSpec == Spec /\ Fairness

-----------------------------------------------------------------------------
(* What must hold                                                          *)

\* The task is between taking http2_mutex_ and giving it back.
Owns(t) == pc[t] \notin {"idle", "acquire", "failed"}
InCall(t) == pc[t] \in {"sent", "blocked"}

\* Events that http2_task_ has still to answer for task t.
Outstanding(t) ==
    {i \in DOMAIN queue : queue[i].requestor = t}
        \cup (IF serving # None /\ serving.requestor = t THEN {0} ELSE {})

\* The receive buffer of nghttp2 is one static array (http2_nghttp2_realloc_),
\* so two nghttp2 sessions must never exist at once, and none may outlive its
\* holder's ownership of the mutex.
RxBufferExclusive ==
    /\ \A r, s \in ng : r = s
    /\ \A s \in ng : mutex # None /\ handle[mutex] = s

\* Between acquire and release exactly the holder of the mutex has a session,
\* and whatever is allocated is reachable from it: nothing is leaked.
SessionsAccountedFor ==
    /\ \A t \in Tasks : Owns(t) <=> mutex = t
    /\ \A s \in live : \E t \in Tasks : mutex = t /\ handle[t] = s
    /\ \A t \in Tasks : handle[t] # None => handle[t] \in live

\* http2_task_ only ever touches a session that is allocated and whose owner
\* is parked inside the very call being served.
ServedSessionAlive ==
    \A e \in {queue[i] : i \in DOMAIN queue} \cup ({serving} \ {None}) :
        /\ e.session \in live
        /\ e.session = handle[e.requestor]
        /\ mutex = e.requestor
        /\ InCall(e.requestor)
        /\ e.type = call[e.requestor]

\* Every call in progress has exactly one of: its event queued or served, or
\* its notification pending; a task outside a call has none of them.  A stray
\* notification would be taken as the result of the task's next call.
OneReplyPerCall ==
    \A t \in Tasks :
        Cardinality(Outstanding(t)) + (IF notified[t] # None THEN 1 ELSE 0)
            = IF InCall(t) THEN 1 ELSE 0

\* xQueueSend waits with portMAX_DELAY while holding the session mutex: the
\* queue has room whenever a task that may send gets there.
SendNeverBlocks ==
    \A t \in Tasks : pc[t] \in {"acquired", "connected"} => Len(queue) < QueueLength

\* A task blocked in a call gets its answer.
EveryCallReturns == \A t \in Tasks : InCall(t) ~> ~InCall(t)

\* Whoever takes the session gives it back, so the others are not locked out.
MutexGivenBack == \A t \in Tasks : mutex = t ~> mutex = None

\* The refinement mapping to SessionService.
StageOf(t) ==
    CASE pc[t] \in {"idle", "failed"} -> "out"
      [] pc[t] = "acquire"            -> "wanting"
      [] InCall(t)                    -> IF notified[t] = None THEN "asking" ELSE "answered"
      [] OTHER                        -> "in"

Service == INSTANCE SessionService WITH
    holder   <- mutex,
    stage    <- [t \in Tasks |-> StageOf(t)],
    question <- call,
    answer   <- notified,
    secured  <- \E s \in Sessions : conn[s] = "done"

\* Http2 implements the promise: exclusive use, and one result per call, made
\* for that call, with no successful perform on an unconnected session.
ImplementsService == Service!Spec
=============================================================================
