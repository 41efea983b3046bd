---------------------------- MODULE Http2_proofs ----------------------------
(***************************************************************************)
(* Theorems about module Http2, for any number of tasks and addresses.     *)
(*                                                                         *)
(* None of the safety properties is inductive alone: that a served session *)
(* is alive rests on who owns the mutex, which rests on where every task   *)
(* stands.  IInv puts the three together.                                  *)
(***************************************************************************)
EXTENDS Http2, FiniteSetTheorems, SequenceTheorems, TLAPS

\* The labels at which a task's session pointer is set.
HasHandle(t) == pc[t] \in {"tls", "ng", "acquired", "sent", "blocked", "connected",
                           "refused", "free", "unwind"}

Ownership == \A t \in Tasks : Owns(t) <=> mutex = t

Handles ==
    /\ \A t \in Tasks : HasHandle(t) <=> handle[t] # None
    /\ \A t \in Tasks : handle[t] # None => handle[t] \in live
    /\ \A s \in live : mutex # None /\ handle[mutex] = s
    /\ \A s \in ng : mutex # None /\ handle[mutex] = s

Secured ==
    \A s \in Sessions :
        conn[s] # "none" => mutex # None /\ handle[mutex] = s

InCalls == \A t \in Tasks : InCall(t) <=> call[t] # None

\* The event e is the call its requestor is parked in.
Matches(e) ==
    /\ e.session = handle[e.requestor]
    /\ InCall(e.requestor)
    /\ e.type = call[e.requestor]

\* A call is nowhere, in the queue, being served, or answered: in one place.
AnsweredOrNone ==
    /\ queue = <<>> /\ serving = None /\ outcome = None
    /\ \A t \in Tasks : InCall(t) <=> notified[t] # None

Queued ==
    /\ Len(queue) = 1 /\ serving = None /\ outcome = None
    /\ Matches(queue[1])
    /\ \A t \in Tasks : notified[t] = None

Served ==
    /\ queue = <<>> /\ serving # None
    /\ Matches(serving)
    /\ \A t \in Tasks : notified[t] = None

Pipeline == AnsweredOrNone \/ Queued \/ Served

\* A call is reported as successful only on a connection that is up.
ResultSound == outcome = "ok" => conn[serving.session] = "done"

IInv == TypeOK /\ Ownership /\ Handles /\ Secured /\ InCalls /\ Pipeline /\ ResultSound

-----------------------------------------------------------------------------
(* What IInv says of the task that holds the mutex                         *)

\* The owner of the mutex is the only task with a session or a call, and
\* whatever is allocated or set up is its session.
LEMMA OwnerAlone ==
  ASSUME IInv, NEW t \in Tasks, Owns(t)
  PROVE  /\ mutex = t
         /\ \A u \in Tasks \ {t} : ~Owns(u) /\ ~InCall(u) /\ ~HasHandle(u)
                                   /\ handle[u] = None /\ call[u] = None
         /\ \A s \in live : handle[t] = s
         /\ \A s \in ng : handle[t] = s
         /\ \A s \in Sessions : conn[s] # "none" => handle[t] = s
<1>1. mutex = t
  BY DEF IInv, Ownership
<1>2. ASSUME NEW u \in Tasks \ {t}
      PROVE  ~Owns(u)
  BY <1>1 DEF IInv, Ownership
<1>3. ASSUME NEW u \in Tasks, ~Owns(u)
      PROVE  ~InCall(u) /\ ~HasHandle(u)
  BY <1>3 DEF Owns, InCall, HasHandle
<1>4. ASSUME NEW u \in Tasks, ~InCall(u), ~HasHandle(u)
      PROVE  handle[u] = None /\ call[u] = None
  BY <1>4 DEF IInv, Handles, InCalls
<1>5. /\ \A s \in live : handle[t] = s
      /\ \A s \in ng : handle[t] = s
      /\ \A s \in Sessions : conn[s] # "none" => handle[t] = s
  BY <1>1 DEF IInv, Handles, Secured
<1>. QED  BY <1>1, <1>2, <1>3, <1>4, <1>5

\* While the owner is not inside a call, no event and no notification exists.
LEMMA OwnerIdleServer ==
  ASSUME IInv, NEW t \in Tasks, Owns(t), ~InCall(t)
  PROVE  /\ queue = <<>> /\ serving = None /\ outcome = None
         /\ \A u \in Tasks : ~InCall(u) /\ notified[u] = None
<1>1. \A u \in Tasks : ~InCall(u)
  BY OwnerAlone
<1>2. ~Queued
  <2>1. ASSUME Queued
        PROVE  queue[1].requestor \in Tasks
    <3>1. queue \in Seq(Event) /\ Len(queue) = 1
      BY <2>1 DEF Queued, IInv, TypeOK
    <3>2. queue[1] \in Event
      BY <3>1, ElementOfSeq
    <3>. QED  BY <3>2 DEF Event
  <2>. QED  BY <1>1, <2>1 DEF Queued, Matches
<1>3. ~Served
  BY <1>1 DEF IInv, TypeOK, Served, Matches, Event
<1>. QED  BY <1>1, <1>2, <1>3 DEF IInv, Pipeline, AnsweredOrNone

\* The task whose event is being served owns the mutex and waits in the call.
LEMMA ServedOwner ==
  ASSUME IInv, serving # None
  PROVE  /\ serving \in Event
         /\ queue = <<>>
         /\ InCall(serving.requestor) /\ mutex = serving.requestor
         /\ serving.session = handle[serving.requestor]
         /\ \A u \in Tasks \ {serving.requestor} : ~InCall(u)
         /\ \A u \in Tasks : notified[u] = None
<1>1. serving \in Event /\ serving.requestor \in Tasks
  BY DEF IInv, TypeOK, Event
<1>2. /\ queue = <<>> /\ Matches(serving)
      /\ \A u \in Tasks : notified[u] = None
  BY DEF IInv, Pipeline, AnsweredOrNone, Queued, Served
<1>3. Owns(serving.requestor)
  BY <1>2 DEF Matches, InCall, Owns
<1>. QED  BY <1>1, <1>2, <1>3, OwnerAlone DEF Matches

-----------------------------------------------------------------------------
(* Every action keeps IInv                                                 *)

\* xSemaphoreTake has been called but not yet granted: nothing shared moves.
LEMMA CallAcquireKeeps ==
  ASSUME IInv, NEW t \in Tasks, CallAcquire(t)
  PROVE  IInv'
<1> USE NoneAssumption, MaxPerformsAssumption
    DEF IInv, TypeOK, Go, Labels, ConnStates, Results, Calls, Event,
        CallAcquire, callerVars, sessionVars, serverVars
<1>1. TypeOK'
  BY DEF HasHandle, Handles, InCall, InCalls, Pipeline, Served, AnsweredOrNone, Queued, Matches
<1>2. Ownership'
  BY DEF Ownership, Owns
<1>3. Handles'
  BY DEF Ownership, Owns, Handles, HasHandle
<1>4. Secured'
  BY DEF Ownership, Owns, Handles, HasHandle, Secured
<1>5. InCalls'
  BY DEF InCalls, InCall
<1>6. Pipeline'
  BY DEF Ownership, Owns, InCalls, InCall, Pipeline, AnsweredOrNone, Queued, Served, Matches
<1>7. ResultSound'
  BY DEF Ownership, Owns, InCall, Pipeline, AnsweredOrNone, Queued, Served, Matches, ResultSound, Secured, Handles, HasHandle
<1>. QED  BY <1>1, <1>2, <1>3, <1>4, <1>5, <1>6, <1>7

\* Taking the free http2_mutex_ makes this task the only owner.
LEMMA TakeMutexKeeps ==
  ASSUME IInv, NEW t \in Tasks, TakeMutex(t)
  PROVE  IInv'
<1> USE NoneAssumption, MaxPerformsAssumption
    DEF IInv, TypeOK, Go, Labels, ConnStates, Results, Calls, Event,
        TakeMutex, callerVars, sessionVars, serverVars
<1>1. TypeOK'
  BY DEF HasHandle, Handles, InCall, InCalls, Pipeline, Served, AnsweredOrNone, Queued, Matches
<1>2. Ownership'
  BY DEF Ownership, Owns
<1>3. Handles'
  BY DEF Ownership, Owns, Handles, HasHandle
<1>4. Secured'
  BY DEF Ownership, Owns, Handles, HasHandle, Secured
<1>5. InCalls'
  BY DEF InCalls, InCall
<1>6. Pipeline'
  BY DEF Ownership, Owns, InCalls, InCall, Pipeline, AnsweredOrNone, Queued, Served, Matches
<1>7. ResultSound'
  BY DEF Ownership, Owns, InCall, Pipeline, AnsweredOrNone, Queued, Served, Matches, ResultSound, Secured, Handles, HasHandle
<1>. QED  BY <1>1, <1>2, <1>3, <1>4, <1>5, <1>6, <1>7

\* The session just allocated is the only one, and it is the owner's.
LEMMA MallocKeeps ==
  ASSUME IInv, NEW t \in Tasks, Malloc(t)
  PROVE  IInv'
<1>1. Owns(t) /\ ~InCall(t)
  BY DEF Malloc, Go, Owns, InCall
<1>2. /\ mutex = t
      /\ \A u \in Tasks \ {t} : ~HasHandle(u) /\ handle[u] = None /\ call[u] = None
      /\ \A s \in live : handle[t] = s
      /\ \A s \in ng : handle[t] = s
      /\ \A s \in Sessions : conn[s] # "none" => handle[t] = s
  BY <1>1, OwnerAlone
<1>3. /\ queue = <<>> /\ serving = None /\ outcome = None
      /\ \A u \in Tasks : ~InCall(u) /\ notified[u] = None
  BY <1>1, OwnerIdleServer
<1> USE NoneAssumption, MaxPerformsAssumption
    DEF IInv, TypeOK, Go, Labels, ConnStates, Results, Calls, Event,
        Malloc, callerVars, sessionVars, serverVars
<1>4. TypeOK'
  BY <1>1, <1>2, <1>3 DEF HasHandle, Handles
<1>5. Ownership'
  BY <1>1, <1>2, <1>3 DEF Ownership, Owns, HasHandle, Handles
<1>6. Handles'
  BY <1>1, <1>2, <1>3 DEF Handles, HasHandle
<1>7. Secured'
  BY <1>1, <1>2, <1>3 DEF Secured, HasHandle, Handles
<1>8. InCalls'
  BY <1>1, <1>2, <1>3 DEF InCalls, InCall, HasHandle, Handles
<1>9. Pipeline'
  BY <1>1, <1>2, <1>3 DEF InCall, Pipeline, AnsweredOrNone, Queued, Served, Matches, HasHandle, Handles
<1>10. ResultSound'
  BY <1>1, <1>2, <1>3 DEF ResultSound, HasHandle, Handles
<1>. QED  BY <1>4, <1>5, <1>6, <1>7, <1>8, <1>9, <1>10

\* http2_tls_init_ touches the connection of the owner's session only.
LEMMA InitTlsKeeps ==
  ASSUME IInv, NEW t \in Tasks, InitTls(t)
  PROVE  IInv'
<1>1. Owns(t) /\ ~InCall(t)
  BY DEF InitTls, Go, Owns, InCall
<1>2. /\ mutex = t
      /\ \A u \in Tasks \ {t} : ~HasHandle(u) /\ handle[u] = None /\ call[u] = None
      /\ \A s \in live : handle[t] = s
      /\ \A s \in ng : handle[t] = s
      /\ \A s \in Sessions : conn[s] # "none" => handle[t] = s
  BY <1>1, OwnerAlone
<1>3. /\ queue = <<>> /\ serving = None /\ outcome = None
      /\ \A u \in Tasks : ~InCall(u) /\ notified[u] = None
  BY <1>1, OwnerIdleServer
<1> USE NoneAssumption, MaxPerformsAssumption
    DEF IInv, TypeOK, Go, Labels, ConnStates, Results, Calls, Event,
        InitTls, callerVars, sessionVars, serverVars
<1>4. TypeOK'
  BY <1>1, <1>2, <1>3 DEF HasHandle, Handles
<1>5. Ownership'
  BY <1>1, <1>2, <1>3 DEF Ownership, Owns, HasHandle, Handles
<1>6. Handles'
  BY <1>1, <1>2, <1>3 DEF Handles, HasHandle
<1>7. Secured'
  BY <1>1, <1>2, <1>3 DEF Secured, HasHandle, Handles
<1>8. InCalls'
  BY <1>1, <1>2, <1>3 DEF InCalls, InCall, HasHandle, Handles
<1>9. Pipeline'
  BY <1>1, <1>2, <1>3 DEF InCall, Pipeline, AnsweredOrNone, Queued, Served, Matches, HasHandle, Handles
<1>10. ResultSound'
  BY <1>1, <1>2, <1>3 DEF ResultSound, HasHandle, Handles
<1>. QED  BY <1>4, <1>5, <1>6, <1>7, <1>8, <1>9, <1>10

\* The nghttp2 side set up by http2_ng_init_ belongs to the owner's session.
LEMMA InitNgKeeps ==
  ASSUME IInv, NEW t \in Tasks, InitNg(t)
  PROVE  IInv'
<1>1. Owns(t) /\ ~InCall(t)
  BY DEF InitNg, Go, Owns, InCall
<1>2. /\ mutex = t
      /\ \A u \in Tasks \ {t} : ~HasHandle(u) /\ handle[u] = None /\ call[u] = None
      /\ \A s \in live : handle[t] = s
      /\ \A s \in ng : handle[t] = s
      /\ \A s \in Sessions : conn[s] # "none" => handle[t] = s
  BY <1>1, OwnerAlone
<1>3. /\ queue = <<>> /\ serving = None /\ outcome = None
      /\ \A u \in Tasks : ~InCall(u) /\ notified[u] = None
  BY <1>1, OwnerIdleServer
<1> USE NoneAssumption, MaxPerformsAssumption
    DEF IInv, TypeOK, Go, Labels, ConnStates, Results, Calls, Event,
        InitNg, callerVars, sessionVars, serverVars
<1>4. TypeOK'
  BY <1>1, <1>2, <1>3 DEF HasHandle, Handles
<1>5. Ownership'
  BY <1>1, <1>2, <1>3 DEF Ownership, Owns, HasHandle, Handles
<1>6. Handles'
  BY <1>1, <1>2, <1>3 DEF Handles, HasHandle
<1>7. Secured'
  BY <1>1, <1>2, <1>3 DEF Secured, HasHandle, Handles
<1>8. InCalls'
  BY <1>1, <1>2, <1>3 DEF InCalls, InCall, HasHandle, Handles
<1>9. Pipeline'
  BY <1>1, <1>2, <1>3 DEF InCall, Pipeline, AnsweredOrNone, Queued, Served, Matches, HasHandle, Handles
<1>10. ResultSound'
  BY <1>1, <1>2, <1>3 DEF ResultSound, HasHandle, Handles
<1>. QED  BY <1>4, <1>5, <1>6, <1>7, <1>8, <1>9, <1>10

\* http2_session_connect puts its event into an empty, idle pipeline.
LEMMA CallConnectKeeps ==
  ASSUME IInv, NEW t \in Tasks, CallConnect(t)
  PROVE  IInv'
<1>1. Owns(t) /\ ~InCall(t)
  BY DEF CallConnect, Go, Owns, InCall
<1>2. /\ mutex = t
      /\ \A u \in Tasks \ {t} : ~HasHandle(u) /\ handle[u] = None /\ call[u] = None
      /\ \A s \in live : handle[t] = s
      /\ \A s \in ng : handle[t] = s
      /\ \A s \in Sessions : conn[s] # "none" => handle[t] = s
  BY <1>1, OwnerAlone
<1>3. /\ queue = <<>> /\ serving = None /\ outcome = None
      /\ \A u \in Tasks : ~InCall(u) /\ notified[u] = None
  BY <1>1, OwnerIdleServer
<1> USE NoneAssumption, MaxPerformsAssumption
    DEF IInv, TypeOK, Go, Labels, ConnStates, Results, Calls, Event,
        CallConnect, Send, callerVars, sessionVars, serverVars
<1>4. TypeOK'
  BY <1>1, <1>2, <1>3 DEF HasHandle, Handles
<1>5. Ownership'
  BY <1>1, <1>2, <1>3 DEF Ownership, Owns, HasHandle, Handles
<1>6. Handles'
  BY <1>1, <1>2, <1>3 DEF Handles, HasHandle
<1>7. Secured'
  BY <1>1, <1>2, <1>3 DEF Secured, HasHandle, Handles
<1>8. InCalls'
  BY <1>1, <1>2, <1>3 DEF InCalls, InCall, HasHandle, Handles
<1>9. Pipeline'
  BY <1>1, <1>2, <1>3 DEF InCall, Pipeline, AnsweredOrNone, Queued, Served, Matches, HasHandle, Handles
<1>10. ResultSound'
  BY <1>1, <1>2, <1>3 DEF ResultSound, HasHandle, Handles
<1>. QED  BY <1>4, <1>5, <1>6, <1>7, <1>8, <1>9, <1>10

\* http2_perform puts its event into an empty, idle pipeline.
LEMMA CallPerformKeeps ==
  ASSUME IInv, NEW t \in Tasks, CallPerform(t)
  PROVE  IInv'
<1>1. Owns(t) /\ ~InCall(t)
  BY DEF CallPerform, Go, Owns, InCall
<1>2. /\ mutex = t
      /\ \A u \in Tasks \ {t} : ~HasHandle(u) /\ handle[u] = None /\ call[u] = None
      /\ \A s \in live : handle[t] = s
      /\ \A s \in ng : handle[t] = s
      /\ \A s \in Sessions : conn[s] # "none" => handle[t] = s
  BY <1>1, OwnerAlone
<1>3. /\ queue = <<>> /\ serving = None /\ outcome = None
      /\ \A u \in Tasks : ~InCall(u) /\ notified[u] = None
  BY <1>1, OwnerIdleServer
<1> USE NoneAssumption, MaxPerformsAssumption
    DEF IInv, TypeOK, Go, Labels, ConnStates, Results, Calls, Event,
        CallPerform, Send, callerVars, sessionVars, serverVars
<1>4. TypeOK'
  BY <1>1, <1>2, <1>3 DEF HasHandle, Handles
<1>5. Ownership'
  BY <1>1, <1>2, <1>3 DEF Ownership, Owns, HasHandle, Handles
<1>6. Handles'
  BY <1>1, <1>2, <1>3 DEF Handles, HasHandle
<1>7. Secured'
  BY <1>1, <1>2, <1>3 DEF Secured, HasHandle, Handles
<1>8. InCalls'
  BY <1>1, <1>2, <1>3 DEF InCalls, InCall, HasHandle, Handles
<1>9. Pipeline'
  BY <1>1, <1>2, <1>3 DEF InCall, Pipeline, AnsweredOrNone, Queued, Served, Matches, HasHandle, Handles
<1>10. ResultSound'
  BY <1>1, <1>2, <1>3 DEF ResultSound, HasHandle, Handles
<1>. QED  BY <1>4, <1>5, <1>6, <1>7, <1>8, <1>9, <1>10

\* Entering xTaskNotifyWait keeps a notification that is already there.
LEMMA EnterWaitKeeps ==
  ASSUME IInv, NEW t \in Tasks, EnterWait(t)
  PROVE  IInv'
<1> USE NoneAssumption, MaxPerformsAssumption
    DEF IInv, TypeOK, Go, Labels, ConnStates, Results, Calls, Event,
        EnterWait, callerVars, sessionVars, serverVars
<1>1. TypeOK'
  BY DEF HasHandle, Handles, InCall, InCalls, Pipeline, Served, AnsweredOrNone, Queued, Matches
<1>2. Ownership'
  BY DEF Ownership, Owns
<1>3. Handles'
  BY DEF Ownership, Owns, Handles, HasHandle
<1>4. Secured'
  BY DEF Ownership, Owns, Handles, HasHandle, Secured
<1>5. InCalls'
  BY DEF InCalls, InCall
<1>6. Pipeline'
  BY DEF Ownership, Owns, InCalls, InCall, Pipeline, AnsweredOrNone, Queued, Served, Matches
<1>7. ResultSound'
  BY DEF Ownership, Owns, InCall, Pipeline, AnsweredOrNone, Queued, Served, Matches, ResultSound, Secured, Handles, HasHandle
<1>. QED  BY <1>1, <1>2, <1>3, <1>4, <1>5, <1>6, <1>7

\* Taking the notification ends the call and leaves the pipeline empty.
LEMMA ReturnKeeps ==
  ASSUME IInv, NEW t \in Tasks, Return(t)
  PROVE  IInv'
<1> USE NoneAssumption, MaxPerformsAssumption
    DEF IInv, TypeOK, Go, Labels, ConnStates, Results, Calls, Event,
        Return, AfterCall, callerVars, sessionVars, serverVars
<1>1. TypeOK'
  BY DEF HasHandle, Handles, InCall, InCalls, Pipeline, Served, AnsweredOrNone, Queued, Matches
<1>2. Ownership'
  BY DEF Ownership, Owns
<1>3. Handles'
  BY DEF Ownership, Owns, Handles, HasHandle
<1>4. Secured'
  BY DEF Ownership, Owns, Handles, HasHandle, Secured
<1>5. InCalls'
  BY DEF InCalls, InCall
<1>6. Pipeline'
  BY DEF Ownership, Owns, InCalls, InCall, Pipeline, AnsweredOrNone, Queued, Served, Matches
<1>7. ResultSound'
  BY DEF Ownership, Owns, InCall, Pipeline, AnsweredOrNone, Queued, Served, Matches, ResultSound, Secured, Handles, HasHandle
<1>. QED  BY <1>1, <1>2, <1>3, <1>4, <1>5, <1>6, <1>7

\* A caller gives up its session only outside a call.
LEMMA CallReleaseKeeps ==
  ASSUME IInv, NEW t \in Tasks, CallRelease(t)
  PROVE  IInv'
<1> USE NoneAssumption, MaxPerformsAssumption
    DEF IInv, TypeOK, Go, Labels, ConnStates, Results, Calls, Event,
        CallRelease, callerVars, sessionVars, serverVars
<1>1. TypeOK'
  BY DEF HasHandle, Handles, InCall, InCalls, Pipeline, Served, AnsweredOrNone, Queued, Matches
<1>2. Ownership'
  BY DEF Ownership, Owns
<1>3. Handles'
  BY DEF Ownership, Owns, Handles, HasHandle
<1>4. Secured'
  BY DEF Ownership, Owns, Handles, HasHandle, Secured
<1>5. InCalls'
  BY DEF InCalls, InCall
<1>6. Pipeline'
  BY DEF Ownership, Owns, InCalls, InCall, Pipeline, AnsweredOrNone, Queued, Served, Matches
<1>7. ResultSound'
  BY DEF Ownership, Owns, InCall, Pipeline, AnsweredOrNone, Queued, Served, Matches, ResultSound, Secured, Handles, HasHandle
<1>. QED  BY <1>1, <1>2, <1>3, <1>4, <1>5, <1>6, <1>7

\* After http2_session_release has freed it, no session is left.
LEMMA FreeKeeps ==
  ASSUME IInv, NEW t \in Tasks, Free(t)
  PROVE  IInv'
<1>1. Owns(t) /\ ~InCall(t)
  BY DEF Free, Go, Owns, InCall
<1>2. /\ mutex = t
      /\ \A u \in Tasks \ {t} : ~HasHandle(u) /\ handle[u] = None /\ call[u] = None
      /\ \A s \in live : handle[t] = s
      /\ \A s \in ng : handle[t] = s
      /\ \A s \in Sessions : conn[s] # "none" => handle[t] = s
  BY <1>1, OwnerAlone
<1>3. /\ queue = <<>> /\ serving = None /\ outcome = None
      /\ \A u \in Tasks : ~InCall(u) /\ notified[u] = None
  BY <1>1, OwnerIdleServer
<1> USE NoneAssumption, MaxPerformsAssumption
    DEF IInv, TypeOK, Go, Labels, ConnStates, Results, Calls, Event,
        Free, Destroy, callerVars, sessionVars, serverVars
<1>4. TypeOK'
  BY <1>1, <1>2, <1>3 DEF HasHandle, Handles
<1>5. Ownership'
  BY <1>1, <1>2, <1>3 DEF Ownership, Owns, HasHandle, Handles
<1>6. Handles'
  BY <1>1, <1>2, <1>3 DEF Handles, HasHandle
<1>7. Secured'
  BY <1>1, <1>2, <1>3 DEF Secured, HasHandle, Handles
<1>8. InCalls'
  BY <1>1, <1>2, <1>3 DEF InCalls, InCall, HasHandle, Handles
<1>9. Pipeline'
  BY <1>1, <1>2, <1>3 DEF InCall, Pipeline, AnsweredOrNone, Queued, Served, Matches, HasHandle, Handles
<1>10. ResultSound'
  BY <1>1, <1>2, <1>3 DEF ResultSound, HasHandle, Handles
<1>. QED  BY <1>4, <1>5, <1>6, <1>7, <1>8, <1>9, <1>10

\* The mutex is given back when nothing of the session remains.
LEMMA GiveKeeps ==
  ASSUME IInv, NEW t \in Tasks, Give(t)
  PROVE  IInv'
<1>1. Owns(t) /\ ~InCall(t)
  BY DEF Give, Go, Owns, InCall
<1>2. /\ mutex = t
      /\ \A u \in Tasks \ {t} : ~HasHandle(u) /\ handle[u] = None /\ call[u] = None
      /\ \A s \in live : handle[t] = s
      /\ \A s \in ng : handle[t] = s
      /\ \A s \in Sessions : conn[s] # "none" => handle[t] = s
  BY <1>1, OwnerAlone
<1>3. /\ queue = <<>> /\ serving = None /\ outcome = None
      /\ \A u \in Tasks : ~InCall(u) /\ notified[u] = None
  BY <1>1, OwnerIdleServer
<1>4. handle[t] = None /\ live = {} /\ ng = {}
  <2>1. ~HasHandle(t)
    BY DEF Give, Go, HasHandle
  <2>2. handle[t] = None
    BY <2>1 DEF IInv, Handles
  <2>. QED  BY <1>2, <2>2, NoneAssumption DEF IInv, TypeOK
<1> USE NoneAssumption, MaxPerformsAssumption
    DEF IInv, TypeOK, Go, Labels, ConnStates, Results, Calls, Event,
        Give, callerVars, sessionVars, serverVars
<1>5. TypeOK'
  BY <1>1, <1>2, <1>3, <1>4 DEF HasHandle, Handles
<1>6. Ownership'
  BY <1>1, <1>2, <1>3, <1>4 DEF Ownership, Owns, HasHandle, Handles
<1>7. Handles'
  BY <1>1, <1>2, <1>3, <1>4 DEF Handles, HasHandle
<1>8. Secured'
  BY <1>1, <1>2, <1>3, <1>4 DEF Secured, HasHandle, Handles
<1>9. InCalls'
  BY <1>1, <1>2, <1>3, <1>4 DEF InCalls, InCall, HasHandle, Handles
<1>10. Pipeline'
  BY <1>1, <1>2, <1>3, <1>4 DEF InCall, Pipeline, AnsweredOrNone, Queued, Served, Matches, HasHandle, Handles
<1>11. ResultSound'
  BY <1>1, <1>2, <1>3, <1>4 DEF ResultSound, HasHandle, Handles
<1>. QED  BY <1>5, <1>6, <1>7, <1>8, <1>9, <1>10, <1>11

\* Releasing NULL changes nothing that is shared.
LEMMA ReleaseNullKeeps ==
  ASSUME IInv, NEW t \in Tasks, ReleaseNull(t)
  PROVE  IInv'
<1> USE NoneAssumption, MaxPerformsAssumption
    DEF IInv, TypeOK, Go, Labels, ConnStates, Results, Calls, Event,
        ReleaseNull, callerVars, sessionVars, serverVars
<1>1. TypeOK'
  BY DEF HasHandle, Handles, InCall, InCalls, Pipeline, Served, AnsweredOrNone, Queued, Matches
<1>2. Ownership'
  BY DEF Ownership, Owns
<1>3. Handles'
  BY DEF Ownership, Owns, Handles, HasHandle
<1>4. Secured'
  BY DEF Ownership, Owns, Handles, HasHandle, Secured
<1>5. InCalls'
  BY DEF InCalls, InCall
<1>6. Pipeline'
  BY DEF Ownership, Owns, InCalls, InCall, Pipeline, AnsweredOrNone, Queued, Served, Matches
<1>7. ResultSound'
  BY DEF Ownership, Owns, InCall, Pipeline, AnsweredOrNone, Queued, Served, Matches, ResultSound, Secured, Handles, HasHandle
<1>. QED  BY <1>1, <1>2, <1>3, <1>4, <1>5, <1>6, <1>7

\* xQueueReceive moves the one event from the queue to http2_task_.
LEMMA ReceiveKeeps ==
  ASSUME IInv, Receive
  PROVE  IInv'
<1>1. /\ Len(queue) = 1 /\ queue[1] \in Event /\ serving' = queue[1] /\ queue' = <<>>
      /\ Matches(queue[1]) /\ outcome = None
      /\ \A u \in Tasks : notified[u] = None
  <2>1. Queued
    BY DEF Receive, IInv, Pipeline, AnsweredOrNone, Served
  <2>2. queue \in Seq(Event) /\ Len(queue) = 1
    BY <2>1 DEF Queued, IInv, TypeOK
  <2>3. Tail(queue) = <<>> /\ Head(queue) = queue[1] /\ queue[1] \in Event
    BY <2>2, HeadTailProperties, ElementOfSeq
  <2>. QED  BY <2>1, <2>2, <2>3 DEF Receive, Queued
<1> USE NoneAssumption, MaxPerformsAssumption
    DEF IInv, TypeOK, Go, Labels, ConnStates, Results, Calls, Event,
        Receive, callerVars, sessionVars, serverVars
<1>2. TypeOK'
  BY <1>1 DEF HasHandle, Handles, InCall, InCalls, Pipeline, Served, AnsweredOrNone, Queued, Matches
<1>3. Ownership'
  BY <1>1 DEF Ownership, Owns
<1>4. Handles'
  BY <1>1 DEF Ownership, Owns, Handles, HasHandle
<1>5. Secured'
  BY <1>1 DEF Ownership, Owns, Handles, HasHandle, Secured
<1>6. InCalls'
  BY <1>1 DEF InCalls, InCall
<1>7. Pipeline'
  BY <1>1 DEF Ownership, Owns, InCalls, InCall, Pipeline, AnsweredOrNone, Queued, Served, Matches
<1>8. ResultSound'
  BY <1>1 DEF Ownership, Owns, InCall, Pipeline, AnsweredOrNone, Queued, Served, Matches, ResultSound, Secured, Handles, HasHandle
<1>. QED  BY <1>2, <1>3, <1>4, <1>5, <1>6, <1>7, <1>8

\* The connect handler works on the connection of the mutex owner's session.
LEMMA HandleConnectKeeps ==
  ASSUME IInv, HandleConnect
  PROVE  IInv'
<1>1. /\ serving \in Event /\ queue = <<>>
      /\ InCall(serving.requestor) /\ mutex = serving.requestor
      /\ serving.session = handle[serving.requestor]
      /\ \A u \in Tasks \ {serving.requestor} : ~InCall(u)
      /\ \A u \in Tasks : notified[u] = None
  BY ServedOwner DEF HandleConnect
<1> USE NoneAssumption, MaxPerformsAssumption
    DEF IInv, TypeOK, Go, Labels, ConnStates, Results, Calls, Event,
        HandleConnect, callerVars, sessionVars, serverVars
<1>2. TypeOK'
  BY <1>1 DEF HasHandle, Handles, InCall, InCalls, Pipeline, Served, AnsweredOrNone, Queued, Matches
<1>3. Ownership'
  BY <1>1 DEF Ownership, Owns
<1>4. Handles'
  BY <1>1 DEF Ownership, Owns, Handles, HasHandle
<1>5. Secured'
  BY <1>1 DEF Ownership, Owns, Handles, HasHandle, Secured
<1>6. InCalls'
  BY <1>1 DEF InCalls, InCall
<1>7. Pipeline'
  BY <1>1 DEF Ownership, Owns, InCalls, InCall, Pipeline, AnsweredOrNone, Queued, Served, Matches
<1>8. ResultSound'
  BY <1>1 DEF Ownership, Owns, InCall, Pipeline, AnsweredOrNone, Queued, Served, Matches, ResultSound, Secured, Handles, HasHandle
<1>. QED  BY <1>2, <1>3, <1>4, <1>5, <1>6, <1>7, <1>8

\* The perform handler reports success only on a connection that is up.
LEMMA HandlePerformKeeps ==
  ASSUME IInv, HandlePerform
  PROVE  IInv'
<1> USE NoneAssumption, MaxPerformsAssumption
    DEF IInv, TypeOK, Go, Labels, ConnStates, Results, Calls, Event,
        HandlePerform, callerVars, sessionVars, serverVars
<1>1. TypeOK'
  BY DEF HasHandle, Handles, InCall, InCalls, Pipeline, Served, AnsweredOrNone, Queued, Matches
<1>2. Ownership'
  BY DEF Ownership, Owns
<1>3. Handles'
  BY DEF Ownership, Owns, Handles, HasHandle
<1>4. Secured'
  BY DEF Ownership, Owns, Handles, HasHandle, Secured
<1>5. InCalls'
  BY DEF InCalls, InCall
<1>6. Pipeline'
  BY DEF Ownership, Owns, InCalls, InCall, Pipeline, AnsweredOrNone, Queued, Served, Matches
<1>7. ResultSound'
  BY DEF Ownership, Owns, InCall, Pipeline, AnsweredOrNone, Queued, Served, Matches, ResultSound, Secured, Handles, HasHandle
<1>. QED  BY <1>1, <1>2, <1>3, <1>4, <1>5, <1>6, <1>7

\* The result goes to the one task that waits for it.
LEMMA NotifyKeeps ==
  ASSUME IInv, Notify
  PROVE  IInv'
<1>1. /\ serving \in Event /\ queue = <<>>
      /\ InCall(serving.requestor) /\ mutex = serving.requestor
      /\ serving.session = handle[serving.requestor]
      /\ \A u \in Tasks \ {serving.requestor} : ~InCall(u)
      /\ \A u \in Tasks : notified[u] = None
  <2>1. serving # None
    BY DEF Notify, IInv, Pipeline, AnsweredOrNone, Queued, Served
  <2>. QED  BY <2>1, ServedOwner
<1> USE NoneAssumption, MaxPerformsAssumption
    DEF IInv, TypeOK, Go, Labels, ConnStates, Results, Calls, Event,
        Notify, callerVars, sessionVars, serverVars
<1>2. TypeOK'
  BY <1>1 DEF HasHandle, Handles, InCall, InCalls, Pipeline, Served, AnsweredOrNone, Queued, Matches
<1>3. Ownership'
  BY <1>1 DEF Ownership, Owns
<1>4. Handles'
  BY <1>1 DEF Ownership, Owns, Handles, HasHandle
<1>5. Secured'
  BY <1>1 DEF Ownership, Owns, Handles, HasHandle, Secured
<1>6. InCalls'
  BY <1>1 DEF InCalls, InCall
<1>7. Pipeline'
  BY <1>1 DEF Ownership, Owns, InCalls, InCall, Pipeline, AnsweredOrNone, Queued, Served, Matches
<1>8. ResultSound'
  BY <1>1 DEF Ownership, Owns, InCall, Pipeline, AnsweredOrNone, Queued, Served, Matches, ResultSound, Secured, Handles, HasHandle
<1>. QED  BY <1>2, <1>3, <1>4, <1>5, <1>6, <1>7, <1>8

-----------------------------------------------------------------------------
(* IInv is inductive                                                       *)

\* The task table, the queue and the mutex as http2_init leaves them.
LEMMA IInvInit == Init => IInv
<1> SUFFICES ASSUME Init PROVE IInv
  OBVIOUS
<1> USE NoneAssumption, MaxPerformsAssumption DEF Init
<1>1. TypeOK
  BY DEF TypeOK, Labels, ConnStates
<1>2. Ownership /\ Handles /\ Secured /\ InCalls
  BY DEF Ownership, Owns, Handles, HasHandle, Secured, InCalls, InCall
<1>3. Pipeline /\ ResultSound
  BY DEF Pipeline, AnsweredOrNone, InCall, ResultSound, Results
<1>. QED  BY <1>1, <1>2, <1>3 DEF IInv

\* No step of any task breaks IInv.
LEMMA IInvStep == IInv /\ [Next]_vars => IInv'
<1> SUFFICES ASSUME IInv, [Next]_vars PROVE IInv'
  OBVIOUS
<1>1. ASSUME NEW t \in Tasks, CallAcquire(t) \/ Acquiring(t)
      PROVE  IInv'
  BY <1>1, CallAcquireKeeps, TakeMutexKeeps, MallocKeeps, InitTlsKeeps, InitNgKeeps
     DEF Acquiring
<1>2. ASSUME NEW t \in Tasks, Calling(t)
      PROVE  IInv'
  BY <1>2, CallConnectKeeps, CallPerformKeeps, EnterWaitKeeps, ReturnKeeps DEF Calling
<1>3. ASSUME NEW t \in Tasks, Releasing(t)
      PROVE  IInv'
  BY <1>3, CallReleaseKeeps, FreeKeeps, GiveKeeps, ReleaseNullKeeps DEF Releasing
<1>4. CASE Http2Task
  BY <1>4, ReceiveKeeps, HandleConnectKeeps, HandlePerformKeeps, NotifyKeeps DEF Http2Task
<1>5. CASE UNCHANGED vars
  BY <1>5 DEF vars, callerVars, sessionVars, serverVars, IInv, TypeOK, Ownership, Owns,
     Handles, HasHandle, Secured, InCalls, InCall, Pipeline, AnsweredOrNone, Queued,
     Served, Matches, ResultSound
<1>. QED  BY <1>1, <1>2, <1>3, <1>4, <1>5 DEF Next

\* IInv holds throughout every behaviour of the two sides of http2.c.
THEOREM Invariance == Spec => []IInv
BY IInvInit, IInvStep, PTL DEF Spec

-----------------------------------------------------------------------------
(* The safety properties of Http2                                          *)

\* Every variable stays within its type; in particular the queue only ever
\* holds events whose session and requestor are set.
THEOREM TypeCorrect == Spec => []TypeOK
<1>1. IInv => TypeOK
  BY DEF IInv
<1>. QED  BY <1>1, Invariance, PTL

\* At most one nghttp2 session exists, and it is the mutex holder's: the static
\* receive buffer that http2_nghttp2_realloc_ hands out is never shared.
THEOREM RxBufferNeverShared == Spec => []RxBufferExclusive
<1>1. IInv => RxBufferExclusive
  BY DEF IInv, Handles, RxBufferExclusive
<1>. QED  BY <1>1, Invariance, PTL

\* Sessions are owned by the mutex holder, and acquire/release pair up on every
\* path, the failing ones included: no session is leaked or freed under a task.
THEOREM NoSessionLost == Spec => []SessionsAccountedFor
<1>1. IInv => SessionsAccountedFor
  BY DEF IInv, TypeOK, Ownership, Handles, SessionsAccountedFor
<1>. QED  BY <1>1, Invariance, PTL

\* http2_task_ never dereferences a session that its requestor has released.
THEOREM NoUseAfterRelease == Spec => []ServedSessionAlive
<1>1. IInv => ServedSessionAlive
  <2> SUFFICES ASSUME IInv,
                      NEW e \in {queue[i] : i \in DOMAIN queue} \cup ({serving} \ {None})
               PROVE  /\ e.session \in live
                      /\ e.session = handle[e.requestor]
                      /\ mutex = e.requestor
                      /\ InCall(e.requestor)
                      /\ e.type = call[e.requestor]
    BY DEF ServedSessionAlive
  <2>1. e \in Event /\ Matches(e)
    <3>1. CASE queue = <<>>
      BY <3>1, ServedOwner DEF IInv, Pipeline, AnsweredOrNone, Queued, Served
    <3>2. CASE queue # <<>>
      <4>1. Queued /\ queue \in Seq(Event) /\ DOMAIN queue = {1}
        BY <3>2, LenProperties
           DEF IInv, TypeOK, Pipeline, AnsweredOrNone, Queued, Served
      <4>2. queue[1] \in Event
        BY <4>1, ElementOfSeq DEF Queued
      <4>. QED  BY <4>1, <4>2 DEF Queued
    <3>. QED  BY <3>1, <3>2
  <2>2. e.requestor \in Tasks /\ e.session \in Sessions /\ InCall(e.requestor)
    BY <2>1 DEF Matches, Event
  <2>3. mutex = e.requestor
    BY <2>2, OwnerAlone DEF InCall, Owns
  <2>4. handle[e.requestor] \in live
    BY <2>1, <2>2, NoneAssumption DEF Matches, IInv, Handles
  <2>. QED  BY <2>1, <2>2, <2>3, <2>4 DEF Matches
<1>. QED  BY <1>1, Invariance, PTL

\* A sender always finds room in http2_event_queue_, so no task sleeps in
\* xQueueSend with the session mutex in its hand.
THEOREM SendersFindRoom == Spec => []SendNeverBlocks
<1>1. IInv => SendNeverBlocks
  <2> SUFFICES ASSUME IInv, NEW t \in Tasks, pc[t] \in {"acquired", "connected"}
               PROVE  Len(queue) < QueueLength
    BY DEF SendNeverBlocks
  <2>1. Owns(t) /\ ~InCall(t)
    BY DEF Owns, InCall
  <2>2. queue = <<>>
    BY <2>1, OwnerIdleServer
  <2>. QED  BY <2>2 DEF QueueLength
<1>. QED  BY <1>1, Invariance, PTL

\* Each task in a call is owed exactly one reply, and it is in exactly one of
\* the queue, http2_task_ and the notification: none is lost, none is stray.
THEOREM OneReply == Spec => []OneReplyPerCall
<1>1. IInv => OneReplyPerCall
  <2> SUFFICES ASSUME IInv, NEW t \in Tasks
               PROVE  Cardinality(Outstanding(t)) + (IF notified[t] # None THEN 1 ELSE 0)
                          = IF InCall(t) THEN 1 ELSE 0
    BY DEF OneReplyPerCall
  <2>1. Cardinality({}) = 0 /\ Cardinality({0}) = 1 /\ Cardinality({1}) = 1
    BY FS_EmptySet, FS_Singleton
  <2>2. DOMAIN queue = 1 .. Len(queue)
    BY LenProperties DEF IInv, TypeOK
  <2>3. CASE AnsweredOrNone
    <3>1. Outstanding(t) = {}
      BY <2>2, <2>3 DEF AnsweredOrNone, Outstanding
    <3>. QED  BY <2>1, <2>3, <3>1 DEF AnsweredOrNone
  <2>4. CASE Queued
    <3>1. DOMAIN queue = {1} /\ queue[1] \in Event
      <4>1. queue \in Seq(Event) /\ Len(queue) = 1
        BY <2>4 DEF Queued, IInv, TypeOK
      <4>. QED  BY <2>2, <4>1, ElementOfSeq
    <3>2. Outstanding(t) = IF queue[1].requestor = t THEN {1} ELSE {}
      BY <2>4, <3>1 DEF Queued, Outstanding
    <3>3. InCall(t) <=> queue[1].requestor = t
      <4>1. queue[1].requestor \in Tasks /\ InCall(queue[1].requestor)
        BY <2>4, <3>1 DEF Queued, Matches, Event
      <4>. QED  BY <4>1, OwnerAlone DEF InCall, Owns
    <3>. QED  BY <2>1, <2>4, <3>2, <3>3 DEF Queued
  <2>5. CASE Served
    <3>1. Outstanding(t) = IF serving.requestor = t THEN {0} ELSE {}
      BY <2>2, <2>5 DEF Served, Outstanding
    <3>2. InCall(t) <=> serving.requestor = t
      BY <2>5, ServedOwner DEF Served
    <3>. QED  BY <2>1, <2>5, <3>1, <3>2 DEF Served
  <2>. QED  BY <2>3, <2>4, <2>5 DEF IInv, Pipeline
<1>. QED  BY <1>1, Invariance, PTL

-----------------------------------------------------------------------------
(* Http2 implements SessionService                                         *)

\* A task changes its stage alone.
LEMMA StageMoves ==
  ASSUME NEW t \in Tasks, NEW a, NEW b, StageOf(t) = a, StageOf(t)' = b,
         \A u \in Tasks \ {t} : StageOf(u)' = StageOf(u)
  PROVE  Service!Move(t, a, b)
BY DEF Service!Move

\* The stage of a task depends on its label and its notification alone.
LEMMA StagesStay ==
  ASSUME NEW u \in Tasks, pc'[u] = pc[u], notified'[u] = notified[u]
  PROVE  StageOf(u)' = StageOf(u)
BY DEF StageOf, InCall

\* A caller's step is a step of the service or invisible to it.
LEMMA AcquiringImplements ==
  ASSUME IInv, NEW t \in Tasks, CallAcquire(t) \/ Acquiring(t)
  PROVE  [Service!Next]_(Service!vars)
<1> USE DEF Go, sessionVars, serverVars
<1>0. \A u \in Tasks \ {t} : StageOf(u)' = StageOf(u)
  BY StagesStay DEF CallAcquire, Acquiring, TakeMutex, Malloc, InitTls, InitNg, IInv, TypeOK
<1>1. CASE CallAcquire(t)
  <2>1. StageOf(t) = "out" /\ StageOf(t)' = "wanting"
    BY <1>1 DEF CallAcquire, StageOf, InCall, IInv, TypeOK
  <2>2. Service!Want(t)
    BY <1>0, <1>1, <2>1, StageMoves DEF CallAcquire, Service!Want
  <2>. QED  BY <2>2 DEF Service!Next
<1>2. CASE TakeMutex(t)
  <2>1. StageOf(t) = "wanting" /\ StageOf(t)' = "in"
    BY <1>2 DEF TakeMutex, StageOf, InCall, IInv, TypeOK
  <2>2. Service!Grab(t)
    BY <1>0, <1>2, <2>1, StageMoves DEF TakeMutex, Service!Grab
  <2>. QED  BY <2>2 DEF Service!Next
<1>3. CASE Malloc(t) \/ InitNg(t)
  <2>1. StageOf(t)' = StageOf(t)
    BY <1>3 DEF Malloc, InitNg, StageOf, InCall, IInv, TypeOK
  <2>2. UNCHANGED [u \in Tasks |-> StageOf(u)]
    BY <1>0, <2>1
  <2>. QED  BY <1>3, <2>2 DEF Malloc, InitNg, Service!vars
<1>4. CASE InitTls(t)
  <2>1. StageOf(t) = "in" /\ StageOf(t)' = "in"
    BY <1>4 DEF InitTls, StageOf, InCall, IInv, TypeOK
  <2>2. UNCHANGED [u \in Tasks |-> StageOf(u)]
    BY <1>0, <2>1
  <2>3. CASE UNCHANGED conn
    BY <1>4, <2>2, <2>3 DEF InitTls, Service!vars
  <2>4. CASE conn' = [conn EXCEPT ![handle[t]] = "init"]
    <3>1. mutex = t /\ \A s \in Sessions : conn[s] # "none" => handle[t] = s
      BY <1>4, OwnerAlone DEF InitTls, Owns
    <3>2. ~(\E s \in Sessions : conn[s] = "done")'
      BY <2>4, <3>1 DEF IInv, TypeOK
    <3>3. Service!Discard(t)
      BY <1>4, <2>1, <2>2, <3>1, <3>2 DEF InitTls, Service!Discard
    <3>. QED  BY <3>3 DEF Service!Next
  <2>. QED  BY <1>4, <2>3, <2>4 DEF InitTls
<1>. QED  BY <1>1, <1>2, <1>3, <1>4 DEF Acquiring

\* Queueing an event asks, taking the notification collects the answer.
LEMMA CallingImplements ==
  ASSUME IInv, NEW t \in Tasks, Calling(t)
  PROVE  [Service!Next]_(Service!vars)
<1> USE DEF Go, sessionVars, serverVars
<1>0. \A u \in Tasks \ {t} : StageOf(u)' = StageOf(u)
  BY StagesStay DEF Calling, CallConnect, CallPerform, Send, EnterWait, Return, IInv, TypeOK
<1>1. mutex = t
  BY OwnerAlone DEF Calling, CallConnect, CallPerform, EnterWait, Return, Owns
<1>2. ASSUME NEW q \in Calls, NEW from \in {"acquired", "connected"},
             Go(t, from, "sent"), Send(t, q), UNCHANGED <<sessionVars, notified>>
      PROVE  Service!Ask(t, q)
  <2>1. notified[t] = None
    BY <1>2, OwnerIdleServer DEF Owns, InCall
  <2>2. StageOf(t) = "in" /\ StageOf(t)' = "asking"
    BY <1>2, <2>1 DEF StageOf, InCall, IInv, TypeOK
  <2>. QED  BY <1>0, <1>1, <1>2, <2>2, StageMoves DEF Send, Service!Ask
<1>3. CASE CallConnect(t)
  <2>1. Service!Ask(t, "connect")
    BY <1>2, <1>3 DEF CallConnect, Calls
  <2>. QED  BY <2>1 DEF Service!Next, Service!Questions
<1>4. CASE CallPerform(t)
  <2>1. Service!Ask(t, "perform")
    BY <1>2, <1>4 DEF CallPerform, Calls
  <2>. QED  BY <2>1 DEF Service!Next, Service!Questions
<1>5. CASE EnterWait(t)
  <2>1. StageOf(t)' = StageOf(t)
    BY <1>5 DEF EnterWait, StageOf, InCall, IInv, TypeOK
  <2>2. UNCHANGED [u \in Tasks |-> StageOf(u)]
    BY <1>0, <2>1
  <2>. QED  BY <1>5, <2>2 DEF EnterWait, Service!vars
<1>6. CASE Return(t)
  <2>1. StageOf(t) = "answered" /\ StageOf(t)' = "in"
    BY <1>6 DEF Return, AfterCall, StageOf, InCall, IInv, TypeOK
  <2>2. Service!Collect(t)
    BY <1>0, <1>6, <2>1, StageMoves DEF Return, Service!Collect
  <2>. QED  BY <2>2 DEF Service!Next
<1>. QED  BY <1>3, <1>4, <1>5, <1>6 DEF Calling

\* Destroying the session discards it, giving the mutex back drops it.
LEMMA ReleasingImplements ==
  ASSUME IInv, NEW t \in Tasks, Releasing(t)
  PROVE  [Service!Next]_(Service!vars)
<1> USE DEF Go, sessionVars, serverVars
<1>0. \A u \in Tasks \ {t} : StageOf(u)' = StageOf(u)
  BY StagesStay DEF Releasing, CallRelease, Free, Give, ReleaseNull, IInv, TypeOK
<1>1. CASE CallRelease(t) \/ ReleaseNull(t)
  <2>1. StageOf(t)' = StageOf(t)
    BY <1>1 DEF CallRelease, ReleaseNull, StageOf, InCall, IInv, TypeOK
  <2>2. UNCHANGED [u \in Tasks |-> StageOf(u)]
    BY <1>0, <2>1
  <2>. QED  BY <1>1, <2>2 DEF CallRelease, ReleaseNull, Service!vars
<1>2. CASE Free(t)
  <2>1. StageOf(t) = "in" /\ StageOf(t)' = "in"
    BY <1>2 DEF Free, StageOf, InCall, IInv, TypeOK
  <2>2. UNCHANGED [u \in Tasks |-> StageOf(u)]
    BY <1>0, <2>1
  <2>3. mutex = t /\ \A s \in Sessions : conn[s] # "none" => handle[t] = s
    BY <1>2, OwnerAlone DEF Free, Owns
  <2>4. ~(\E s \in Sessions : conn[s] = "done")'
    BY <1>2, <2>3 DEF Free, Destroy, IInv, TypeOK
  <2>5. Service!Discard(t)
    BY <1>2, <2>1, <2>2, <2>3, <2>4 DEF Free, Service!Discard
  <2>. QED  BY <2>5 DEF Service!Next
<1>3. CASE Give(t)
  <2>1. StageOf(t) = "in" /\ StageOf(t)' = "out"
    BY <1>3 DEF Give, StageOf, InCall, IInv, TypeOK
  <2>2. mutex = t /\ \A s \in Sessions : conn[s] # "none" => handle[t] = s
    BY <1>3, OwnerAlone DEF Give, Owns
  <2>3. handle[t] = None
    <3>1. ~HasHandle(t)
      BY <1>3 DEF Give, HasHandle
    <3>. QED  BY <3>1 DEF IInv, Handles
  <2>4. ~\E s \in Sessions : conn[s] = "done"
    BY <2>2, <2>3, NoneAssumption
  <2>5. Service!Drop(t)
    BY <1>0, <1>3, <2>1, <2>2, <2>4, StageMoves DEF Give, Service!Drop
  <2>. QED  BY <2>5 DEF Service!Next
<1>. QED  BY <1>1, <1>2, <1>3 DEF Releasing

\* A step of http2_task_ is a step of the service on the requestor's behalf.
LEMMA Http2TaskImplements ==
  ASSUME IInv, Http2Task
  PROVE  [Service!Next]_(Service!vars)
<1> USE DEF callerVars, sessionVars
<1>1. CASE Receive \/ HandlePerform
  <2>1. UNCHANGED [u \in Tasks |-> StageOf(u)]
    BY <1>1, StagesStay DEF Receive, HandlePerform
  <2>. QED  BY <1>1, <2>1 DEF Receive, HandlePerform, Service!vars
<1>2. CASE HandleConnect
  <2>1. UNCHANGED [u \in Tasks |-> StageOf(u)]
    BY <1>2, StagesStay DEF HandleConnect
  <2>2. PICK t \in Tasks : t = serving.requestor
    BY <1>2, ServedOwner DEF HandleConnect, Event
  <2>3. StageOf(t) = "asking"
    BY <1>2, <2>2, ServedOwner DEF HandleConnect, StageOf, InCall
  <2>4. call[t] = "connect"
    BY <1>2, <2>2 DEF HandleConnect, IInv, Pipeline, AnsweredOrNone, Queued, Served, Matches
  <2>5. Service!Secure(t)
    BY <1>2, <2>1, <2>3, <2>4 DEF HandleConnect, Service!Secure
  <2>. QED  BY <2>5 DEF Service!Next
<1>3. CASE Notify
  <2>1. serving # None
    BY <1>3 DEF Notify, IInv, Pipeline, AnsweredOrNone, Queued, Served
  <2>2. PICK t \in Tasks : t = serving.requestor
    BY <2>1, ServedOwner DEF Event
  <2>3. InCall(t) /\ notified[t] = None /\ serving.session \in Sessions
    BY <2>1, <2>2, ServedOwner DEF Event
  <2>4. outcome \in Results /\ outcome # None
    BY <1>3 DEF Notify, IInv, TypeOK
  <2>5. notified' = [notified EXCEPT ![t] = outcome] /\ pc' = pc
    BY <1>3, <2>2 DEF Notify
  <2>6. StageOf(t) = "asking" /\ StageOf(t)' = "answered"
    BY <2>3, <2>4, <2>5 DEF StageOf, InCall, IInv, TypeOK
  <2>7. \A u \in Tasks \ {t} : StageOf(u)' = StageOf(u)
    BY <2>5, StagesStay DEF IInv, TypeOK
  <2>8. outcome = "ok" => \E s \in Sessions : conn[s] = "done"
    BY <2>3 DEF IInv, ResultSound
  <2>9. Service!Move(t, "asking", "answered")
    BY <2>6, <2>7, StageMoves
  <2>10. Service!Reply(t)
    BY <1>3, <2>4, <2>5, <2>8, <2>9 DEF Notify, Results, Service!Reply, Service!Results
  <2>. QED  BY <2>10 DEF Service!Next
<1>. QED  BY <1>1, <1>2, <1>3 DEF Http2Task

\* The queue, the task and the notification together behave as the abstract
\* service: exclusive use, one answer per call, no success before a handshake.
THEOREM Refinement == Spec => ImplementsService
<1>1. Init => Service!Init
  <2> SUFFICES ASSUME Init PROVE Service!Init
    OBVIOUS
  <2>1. [t \in Tasks |-> StageOf(t)] = [t \in Tasks |-> "out"]
    BY DEF Init, StageOf, InCall
  <2>2. (\E s \in Sessions : conn[s] = "done") = FALSE
    BY DEF Init
  <2>. QED  BY <2>1, <2>2 DEF Init, Service!Init
<1>2. IInv /\ [Next]_vars => [Service!Next]_(Service!vars)
  <2> SUFFICES ASSUME IInv, [Next]_vars PROVE [Service!Next]_(Service!vars)
    OBVIOUS
  <2>1. CASE UNCHANGED vars
    BY <2>1 DEF vars, callerVars, sessionVars, serverVars, Service!vars, StageOf, InCall
  <2>. QED  BY <2>1, AcquiringImplements, CallingImplements, ReleasingImplements,
               Http2TaskImplements DEF Next
<1>. QED  BY <1>1, <1>2, Invariance, PTL DEF Spec, ImplementsService, Service!Spec
=============================================================================
