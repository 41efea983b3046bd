------------------------ MODULE Measurements_proofs ------------------------
(***************************************************************************)
(* Theorems about modules Api and Measurements, for buckets of any size,   *)
(* any climate, and any interleaving of the tasks that share the session.  *)
(*                                                                         *)
(* The buffers of api.c are guarded by nothing but the session's mutex;    *)
(* CallInv says what each of them holds wherever the task that has the     *)
(* session stands.                                                         *)
(***************************************************************************)
EXTENDS Measurements, SequenceTheorems, TLAPS

-----------------------------------------------------------------------------
(* Calls: module Api                                                       *)

\* What is carried is a message of some set M.
CallTypes(M) ==
    /\ ApiTypeOK(M)
    /\ request \in [Callers -> M \cup {None}] /\ reply \in [Callers -> M \cup {None}]

Owned == \A t \in Tasks : holder = t <=> stage[t] \in {"in", "asking", "answered"}

\* Where a caller stands, the session does too.
Places ==
    \A t \in Callers :
        /\ pc[t] \in {"idle", "done"} => stage[t] = "out"
        /\ pc[t] = "acquire" => stage[t] = "wanting"
        /\ pc[t] \in {"unwind", "connect", "token", "pack", "perform", "log", "unpack",
                      "release", "give"} => stage[t] = "in"
        /\ pc[t] = "connecting" => stage[t] \in {"asking", "answered"} /\ question[t] = "connect"
        /\ pc[t] = "performing" => stage[t] \in {"asking", "answered"} /\ question[t] = "perform"

\* The buffers are those of the caller that has the session.
Prepared ==
    \A t \in Callers :
        /\ pc[t] \in {"pack", "perform", "performing"} => token = access
        /\ pc[t] \in {"perform", "performing"} => payload = request[t]
        /\ pc[t] = "performing" /\ stage[t] = "answered" /\ answer[t] = "ok" =>
              response = request[t]
        /\ pc[t] = "unpack" => response = request[t] /\ status[t] = "ok"

\* What the server has received is the request of the caller it is serving.
Exchanged ==
    exchange # "none" =>
        /\ holder \in Callers /\ Serving(holder)
        /\ got = [token |-> access, message |-> request[holder]]
        /\ exchange = "answered" => response = request[holder]

Replied ==
    \A t \in Callers :
        reply[t] # None => /\ pc[t] \in {"release", "give", "done"}
                           /\ status[t] = "ok" /\ reply[t] = request[t]

CallInv(M) == CallTypes(M) /\ Owned /\ Places /\ Prepared /\ Exchanged /\ Replied

\* A caller that is in the session is the one that has it.
LEMMA OneInSession ==
  ASSUME Owned, NEW t \in Callers, NEW u \in Tasks,
         stage[t] \in {"in", "asking", "answered"}, stage[u] \in {"in", "asking", "answered"}
  PROVE  t = u /\ holder = t
BY DEF Owned, Tasks

\* A task that takes the session finds nothing under way in it.
LEMMA NothingUnderWay ==
  ASSUME NEW M, CallInv(M), NEW t \in Tasks, holder = None \/ stage[t] \in {"in", "answered"}
  PROVE  exchange = "none"
<1>1. CASE holder = None
  BY <1>1, TasksAssumption DEF CallInv, Exchanged
<1>2. CASE stage[t] \in {"in", "answered"}
  BY <1>2 DEF CallInv, Exchanged, Owned, Serving
<1>. QED  BY <1>1, <1>2

\* http2_task serves a perform only while the caller waits for it.
LEMMA ServingPerforms ==
  ASSUME NEW M, CallInv(M), NEW t \in Callers, Serving(t)
  PROVE  pc[t] = "performing"
BY DEF CallInv, CallTypes, ApiTypeOK, Labels, Places, Serving

\* The steps that move the session and the caller, and leave the buffers alone.
LEMMA SessionStepsKeep ==
  ASSUME NEW M, CallInv(M), NEW t \in Callers,
         \/ Acquire(t) \/ Unwind(t) \/ Connect(t) \/ Connected(t) \/ Perform(t) \/ Release(t)
         \/ Give(t) \/ Log(t)
  PROVE  CallInv(M)'
<1> USE DEF CallInv, Go, Acquire, Unwind, Connect, Connected, Perform, Release, Give, Log,
            Session!Grab, Session!Drop, Session!Ask, Session!Collect, Session!Discard,
            Session!Move, sessionVars, bufferVars, serverVars
<1>0. /\ exchange = "none"
      /\ UNCHANGED <<request, status, reply, token, payload, response, access, exchange, got>>
  BY NothingUnderWay DEF Places, Owned, Tasks
<1>1. CallTypes(M)'
  BY <1>0 DEF CallTypes, ApiTypeOK, Session!TypeOK, Labels, Tasks, Session!Stages,
              Session!Questions
<1>2. Owned'
  BY TasksAssumption DEF CallTypes, ApiTypeOK, Session!TypeOK, Owned, Tasks
<1>3. Places'
  BY DEF CallTypes, ApiTypeOK, Session!TypeOK, Places, Tasks
<1>4. Prepared'
  BY <1>0 DEF CallTypes, ApiTypeOK, Session!TypeOK, Places, Prepared, Tasks
<1>5. Exchanged' /\ Replied'
  BY <1>0 DEF Exchanged, Replied, CallTypes, ApiTypeOK
<1>. QED  BY <1>1, <1>2, <1>3, <1>4, <1>5

\* A caller begins with nothing left of the call before.
LEMMA CallApiKeeps ==
  ASSUME NEW M, CallInv(M), NEW t \in Callers, NEW m \in M, CallApi(t, m)
  PROVE  CallInv(M)'
<1> USE DEF CallInv, Go, CallApi, Session!Want, Session!Move, bufferVars, serverVars
<1>1. CallTypes(M)'
  BY DEF CallTypes, ApiTypeOK, Session!TypeOK, Labels, Tasks, Session!Stages, Statuses
<1>2. Owned'
  BY DEF CallTypes, ApiTypeOK, Session!TypeOK, Owned, Tasks
<1>3. Places' /\ Prepared'
  BY DEF CallTypes, ApiTypeOK, Session!TypeOK, Places, Prepared, Tasks
<1>4. Exchanged' /\ Replied'
  BY DEF CallTypes, ApiTypeOK, Session!TypeOK, Places, Exchanged, Replied, Serving, Tasks
<1>. QED  BY <1>1, <1>2, <1>3, <1>4

\* The caller that has the session fills the token and payload buffers.
LEMMA PreparingKeeps ==
  ASSUME NEW M, CallInv(M), NEW t \in Callers, CopyToken(t) \/ Pack(t)
  PROVE  CallInv(M)'
<1> USE DEF CallInv, Go, CopyToken, Pack, sessionVars, serverVars
<1>0. exchange = "none" /\ UNCHANGED <<sessionVars, request, status, reply, response, access, exchange, got>>
  BY NothingUnderWay DEF Places, Owned, Tasks
<1>1. CallTypes(M)'
  BY DEF CallTypes, ApiTypeOK, Session!TypeOK, Labels
<1>2. Owned' /\ Exchanged'
  BY <1>0 DEF Owned, Exchanged
<1>3. Places' /\ Replied'
  BY DEF CallTypes, ApiTypeOK, Places, Replied
<1>4. Prepared'
  BY OneInSession DEF CallTypes, ApiTypeOK, Places, Prepared, Tasks
<1>. QED  BY <1>1, <1>2, <1>3, <1>4

\* The status is that of the call's own answer.
LEMMA PerformedKeeps ==
  ASSUME NEW M, CallInv(M), NEW t \in Callers, Performed(t)
  PROVE  CallInv(M)'
<1> USE DEF CallInv, Go, Performed, Session!Collect, Session!Move, bufferVars, serverVars
<1>0. exchange = "none" /\ stage[t] = "answered"
  BY NothingUnderWay DEF Places, Owned, Tasks
<1>1. CallTypes(M)'
  BY DEF CallTypes, ApiTypeOK, Session!TypeOK, Labels, Statuses, Tasks, Session!Stages
<1>2. Owned'
  BY DEF CallTypes, ApiTypeOK, Session!TypeOK, Owned, Tasks
<1>3. Places' /\ Exchanged'
  BY <1>0 DEF CallTypes, ApiTypeOK, Session!TypeOK, Places, Exchanged, Tasks
<1>4. Prepared'
  BY <1>0 DEF CallTypes, ApiTypeOK, Session!TypeOK, Prepared, Tasks
<1>5. Replied'
  BY DEF CallTypes, ApiTypeOK, Replied
<1>. QED  BY <1>1, <1>2, <1>3, <1>4, <1>5

\* What is unpacked is the response to the caller's own request.
LEMMA UnpackKeeps ==
  ASSUME NEW M, CallInv(M), NEW t \in Callers, Unpack(t)
  PROVE  CallInv(M)'
<1> USE DEF CallInv, Go, Unpack, sessionVars, bufferVars, serverVars
<1>1. CallTypes(M)'
  BY DEF CallTypes, ApiTypeOK, Session!TypeOK, Labels
<1>2. Owned' /\ Exchanged'
  BY DEF Owned, Exchanged, Serving
<1>3. Places' /\ Prepared'
  BY DEF CallTypes, ApiTypeOK, Places, Prepared
<1>4. Replied'
  BY DEF CallTypes, ApiTypeOK, Prepared, Replied
<1>. QED  BY <1>1, <1>2, <1>3, <1>4

\* The caller lets go of request and response.
LEMMA CallEndsKeeps ==
  ASSUME NEW M, CallInv(M), NEW t \in Callers, CallEnds(t),
         status' = status \/ status' = [status EXCEPT ![t] = "local"]
  PROVE  CallInv(M)'
<1> USE DEF CallInv, Go, CallEnds, sessionVars, bufferVars, serverVars
<1>1. CallTypes(M)'
  BY DEF CallTypes, ApiTypeOK, Session!TypeOK, Labels, Statuses
<1>2. Owned' /\ Places'
  BY DEF CallTypes, ApiTypeOK, Owned, Places
<1>3. Prepared' /\ Replied'
  BY DEF CallTypes, ApiTypeOK, Prepared, Replied
<1>4. Exchanged'
  BY DEF CallTypes, ApiTypeOK, Session!TypeOK, Exchanged, Serving, Owned, Places, Tasks
<1>. QED  BY <1>1, <1>2, <1>3, <1>4

\* What goes to the server is what the caller it serves has put into the buffers.
LEMMA ServerKeeps ==
  ASSUME NEW M, CallInv(M), NEW t \in Callers, Secure(t) \/ Deliver(t) \/ Respond(t)
  PROVE  CallInv(M)'
<1> USE DEF CallInv, Secure, Deliver, Respond, Session!Secure, sessionVars, callVars, bufferVars,
            serverVars
<1>0. holder = t /\ UNCHANGED <<holder, stage, question, answer, pc, request, status, reply, token,
                                payload, access>>
  BY DEF Owned, Serving, Tasks
<1>1. CallTypes(M)'
  BY <1>0 DEF CallTypes, ApiTypeOK, Session!TypeOK, Exchanges, Exchanged
<1>2. Owned' /\ Places' /\ Replied'
  BY <1>0 DEF Owned, Places, Replied
<1>3. Prepared'
  BY <1>0, OneInSession DEF Prepared, Places, Serving, Tasks
<1>4. Exchanged'
  <2>1. CASE Secure(t)
    BY <2>1 DEF Exchanged, Serving
  <2>2. CASE Deliver(t)
    BY <1>0, <2>2, ServingPerforms DEF Exchanged, Prepared, Serving
  <2>3. CASE Respond(t)
    BY <1>0, <2>3 DEF Exchanged, Serving
  <2>. QED  BY <2>1, <2>2, <2>3
<1>. QED  BY <1>1, <1>2, <1>3, <1>4

\* A perform is answered "ok" only with the response in the buffer.
LEMMA ReplyKeeps ==
  ASSUME NEW M, CallInv(M), NEW t \in Callers, Reply(t)
  PROVE  CallInv(M)'
<1> USE DEF CallInv, Reply, Session!Reply, Session!Move, callVars, bufferVars
<1>0. holder = t /\ stage[t] = "asking"
  BY DEF Owned, Tasks
<1>1. CallTypes(M)'
  BY DEF CallTypes, ApiTypeOK, Session!TypeOK, Exchanges, Session!Stages, Session!Results
<1>2. Owned'
  BY DEF CallTypes, ApiTypeOK, Session!TypeOK, Owned, Tasks
<1>3. Places' /\ Replied'
  BY DEF CallTypes, ApiTypeOK, Session!TypeOK, Places, Replied, Tasks
<1>4. Prepared'
  BY <1>0 DEF CallTypes, ApiTypeOK, Session!TypeOK, Prepared, Places, Exchanged, Tasks
<1>5. Exchanged'
  BY DEF Exchanged
<1>. QED  BY <1>1, <1>2, <1>3, <1>4, <1>5

\* auth_task renews the token only while it has the session itself.
LEMMA AuthTaskKeeps ==
  ASSUME NEW M, CallInv(M), AuthTask
  PROVE  CallInv(M)'
<1> USE TasksAssumption, MaxTokensAssumption DEF CallInv, AuthTask, AuthAcquires, AuthStores,
            AuthReleases, AuthIdle, Session!Want, Session!Grab, Session!Drop, Session!Move,
            sessionVars, callVars, bufferVars, serverVars
<1>0. /\ UNCHANGED <<pc, request, status, reply, token, payload, response, exchange, got, question,
                     answer>>
      /\ \A t \in Callers : stage'[t] = stage[t] /\ t # Auth
      /\ Auth \in Tasks
  BY DEF CallTypes, ApiTypeOK, Session!TypeOK, Tasks
<1>1. CallTypes(M)'
  BY DEF CallTypes, ApiTypeOK, Session!TypeOK, Session!Stages, Tasks
<1>2. Owned'
  BY DEF CallTypes, ApiTypeOK, Session!TypeOK, Owned, Tasks
<1>3. Places' /\ Replied'
  BY <1>0 DEF Places, Replied
<1>4. Prepared'
  BY <1>0, OneInSession DEF Prepared, Places
<1>5. Exchanged'
  BY <1>0 DEF Exchanged, Serving, Owned, Tasks
<1>. QED  BY <1>1, <1>2, <1>3, <1>4, <1>5

\* Of all this only the token in flash outlives a restart.
LEMMA RestartKeeps ==
  ASSUME NEW M, CallInv(M), Restart
  PROVE  CallInv(M)'
<1> USE TasksAssumption, MaxTokensAssumption DEF CallInv, Restart
<1>1. CallTypes(M)'
  <2>1. Session!TypeOK'
    BY DEF Session!TypeOK, Session!Stages, Tasks, CallTypes, ApiTypeOK
  <2>2. pc' \in [Callers -> Labels] /\ status' \in [Callers -> Statuses]
    BY DEF Labels, Statuses
  <2>3. {token', access'} \subseteq 0 .. MaxTokens
    BY DEF CallTypes, ApiTypeOK
  <2>. QED  BY <2>1, <2>2, <2>3 DEF CallTypes, ApiTypeOK, Exchanges
<1>2. Owned' /\ Places' /\ Prepared' /\ Exchanged' /\ Replied'
  BY DEF Owned, Places, Prepared, Exchanged, Replied, Tasks
<1>. QED  BY <1>1, <1>2

\* At reset nobody has the session and the buffers are empty.
LEMMA ApiInitHolds ==
  ASSUME NEW M, ApiInit
  PROVE  CallInv(M)
<1> USE TasksAssumption, MaxTokensAssumption DEF ApiInit, Session!Init
<1>1. CallTypes(M)
  <2>1. Session!TypeOK
    BY DEF Session!TypeOK, Session!Stages, Tasks
  <2>2. pc \in [Callers -> Labels] /\ status \in [Callers -> Statuses]
    BY DEF Labels, Statuses
  <2>3. {token, access} \subseteq 0 .. MaxTokens
    BY DEF CallTypes, ApiTypeOK
  <2>. QED  BY <2>1, <2>2, <2>3 DEF CallTypes, ApiTypeOK, Exchanges
<1>2. Owned /\ Places /\ Prepared /\ Exchanged /\ Replied
  BY DEF Owned, Places, Prepared, Exchanged, Replied, Tasks
<1>. QED  BY <1>1, <1>2 DEF CallInv

\* What measurements_task does for itself does not touch a call.
LEMMA ApiUntouched ==
  ASSUME NEW M, CallInv(M), UNCHANGED apiVars
  PROVE  CallInv(M)'
BY DEF CallInv, CallTypes, ApiTypeOK, Session!TypeOK, Owned, Places, Prepared, Exchanged, Replied,
       Serving, apiVars, sessionVars, callVars, bufferVars, serverVars

\* No step of another task disturbs a call.
LEMMA CallStepKeeps ==
  ASSUME NEW M, CallInv(M), NEW t \in Callers, CallStep(t)
  PROVE  CallInv(M)'
BY SessionStepsKeep, PreparingKeeps, PerformedKeeps, UnpackKeeps DEF CallStep

-----------------------------------------------------------------------------
(* What the sensor's frames decode to                                      *)

\* Whatever the bus makes of a frame, eight numbers arrive.
LEMMA FramesAreNumbers ==
  ASSUME NEW f \in Response, NEW r \in BusReads(f)
  PROVE  \A i \in 1 .. 8 : r[i] \in Int
<1>1. \A b \in 0 .. 7 : 2^b \in Int
  OBVIOUS
<1>2. f = [i \in 1 .. 8 |-> f[i]] /\ \A i \in 1 .. 8 : f[i] \in Int
  BY DEF Response, Byte
<1>3. CASE r \in {f, [i \in 1 .. 8 |-> 0], [i \in 1 .. 8 |-> 255]}
  BY <1>2, <1>3
<1>4. CASE r \in {[f EXCEPT ![i] = IF b \in Bits[@] THEN @ - 2^b ELSE @ + 2^b] :
                      i \in 1 .. 8, b \in 0 .. 7}
  <2>1. PICK i \in 1 .. 8, b \in 0 .. 7 :
           r = [f EXCEPT ![i] = IF b \in Bits[f[i]] THEN f[i] - 2^b ELSE f[i] + 2^b]
    BY <1>4
  <2>. QED  BY <1>1, <1>2, <2>1
<1>. QED  BY <1>3, <1>4 DEF BusReads

\* So a sample is two numbers, genuine or not.
LEMMA SamplesAreNumbers ==
  ASSUME NEW x \in Accepted, NEW t \in 1 .. MaxTime, x[1] = Climate[t].frame
  PROVE  RelativeHumidity(x[2]) \in Int /\ Temperature(x[2]) \in Int
<1>1. PICK u \in 1 .. MaxTime : x[2] \in BusReads(Climate[u].frame)
  BY DEF Accepted
<1>2. Climate[u].frame \in Response
  BY ClimateAssumption
<1>3. \A i \in 1 .. 8 : x[2][i] \in Int
  BY <1>1, <1>2, FramesAreNumbers
<1>. QED  BY <1>3 DEF RelativeHumidity, Temperature, Int16

-----------------------------------------------------------------------------
(* Measurements: the bucket and its upload                                 *)

\* Between the allocation of the list and the call.
Building == {"build", "timestamp", "atmosphere", "cleanup_timestamp", "cleanup_measurement"}

\* Samples are taken one after the other; a push waits for a full bucket.
Bucket ==
    /\ \A i \in 1 .. cursor : timestamps[i] \in 1 .. time
    /\ \A i, j \in 1 .. cursor : i < j => timestamps[i] < timestamps[j]
    /\ mpc \in Building \cup {"call"} => cursor = BucketSize

\* What is allocated wherever measurements_task stands: what was built and, in the middle
\* of a measurement, its first parts.  A list that is NULL is alone.
Blocks ==
    /\ mpc = "sample" => blocks = {}
    /\ mpc = "build" => blocks = Built \/ (blocks = {} /\ allocated = 0)
    /\ mpc \in {"timestamp", "cleanup_measurement"} =>
          blocks = Built \cup {Block("measurement")} /\ allocated < BucketSize
    /\ mpc \in {"atmosphere", "cleanup_timestamp"} =>
          blocks = Built \cup {Block("measurement"), Block("timestamp")} /\ allocated < BucketSize
    /\ mpc \in {"call", "cleanup"} => blocks = Built
    /\ mpc = "call" => allocated = BucketSize

\* While the call lasts, its request is what is in the bucket.
Calling ==
    /\ mpc = "call" <=> pc[Measurer] # "idle"
    /\ mpc = "call" => request[Measurer] = [i \in Slots |-> Sample(i)]

UploadedTimes == {uploaded[i].timestamp : i \in DOMAIN uploaded}

\* The server has not received the bucket yet.
NotSent ==
    \/ mpc \in Building \cup {"sample"}
    \/ /\ mpc = "call"
       /\ \/ pc[Measurer] \in {"acquire", "connect", "connecting", "token", "pack", "perform"}
          \/ pc[Measurer] = "performing" /\ stage[Measurer] = "asking" /\ exchange = "none"

\* The server has received it, for certain.
Sent ==
    \/ /\ mpc = "call"
       /\ \/ exchange # "none" /\ holder = Measurer
          \/ pc[Measurer] = "performing" /\ stage[Measurer] = "answered" /\ answer[Measurer] = "ok"
          \/ status[Measurer] = "ok"
    \/ mpc = "cleanup" /\ PushSucceeded

Uploaded ==
    /\ \A j \in DOMAIN uploaded : uploaded[j].timestamp <= time
    /\ NotSent => \A j \in DOMAIN uploaded, i \in 1 .. cursor :
                     uploaded[j].timestamp < timestamps[i]
    /\ \A i, j \in DOMAIN uploaded : i < j => uploaded[i].timestamp < uploaded[j].timestamp
    /\ Sent => InBucket \subseteq UploadedTimes
    /\ taken = lost \cup InBucket \cup UploadedTimes

IInv == CallInv(Message) /\ TypeOK /\ Bucket /\ Blocks /\ Calling /\ Uploaded

\* What the server has are samples, each with its time.
LEMMA UploadedAreEntries ==
  ASSUME TypeOK
  PROVE  /\ DOMAIN uploaded = 1 .. Len(uploaded) /\ Len(uploaded) \in Nat
         /\ \A j \in DOMAIN uploaded : uploaded[j] \in Entries
BY DEF TypeOK

Times(s)   == {s[i].timestamp : i \in DOMAIN s}
Ordered(s) == \A i, j \in DOMAIN s : i < j => s[i].timestamp < s[j].timestamp

\* Later samples behind earlier ones are still in order.
LEMMA Concatenated ==
  ASSUME NEW s \in Seq(Entries), NEW b \in Seq(Entries), Ordered(s), Ordered(b),
         \A i \in DOMAIN s, j \in DOMAIN b : s[i].timestamp < b[j].timestamp
  PROVE  /\ s \o b \in Seq(Entries)
         /\ Times(s \o b) = Times(s) \cup Times(b)
         /\ Ordered(s \o b)
<1> DEFINE both == s \o b
<1>1. /\ both \in Seq(Entries) /\ Len(both) = Len(s) + Len(b)
      /\ \A i \in 1 .. Len(s) + Len(b) : both[i] = IF i <= Len(s) THEN s[i] ELSE b[i - Len(s)]
  BY ConcatProperties
<1> HIDE DEF both
<1>2. /\ Len(s) \in Nat /\ Len(b) \in Nat
      /\ DOMAIN s = 1 .. Len(s) /\ DOMAIN b = 1 .. Len(b) /\ DOMAIN both = 1 .. Len(s) + Len(b)
  BY <1>1
<1>3. /\ \A i \in DOMAIN s : s[i].timestamp \in Nat
      /\ \A i \in DOMAIN b : b[i].timestamp \in Nat
  <2>1. /\ \A i \in DOMAIN s : s[i] \in Entries
        /\ \A i \in DOMAIN b : b[i] \in Entries
    BY <1>2
  <2>. QED  BY <2>1, BucketAssumption DEF Entries
<1>4. /\ \A i \in DOMAIN s : i \in DOMAIN both /\ both[i] = s[i]
      /\ \A i \in DOMAIN b : Len(s) + i \in DOMAIN both /\ both[Len(s) + i] = b[i]
  BY <1>1, <1>2
<1>5. \A i \in DOMAIN both : \/ i \in DOMAIN s /\ both[i] = s[i]
                             \/ i > Len(s) /\ i - Len(s) \in DOMAIN b /\ both[i] = b[i - Len(s)]
  BY <1>1, <1>2
<1>6. Times(both) = Times(s) \cup Times(b)
  <2>1. Times(both) \subseteq Times(s) \cup Times(b)
    BY <1>5 DEF Times
  <2>2. Times(s) \cup Times(b) \subseteq Times(both)
    BY <1>4 DEF Times
  <2>. QED  BY <2>1, <2>2
<1>7. Ordered(both)
  <2> SUFFICES ASSUME NEW i \in DOMAIN both, NEW j \in DOMAIN both, i < j
               PROVE  both[i].timestamp < both[j].timestamp
    BY DEF Ordered
  <2>1. CASE j \in DOMAIN s
    BY <1>2, <1>5, <2>1 DEF Ordered
  <2>2. CASE i \in DOMAIN s /\ j \notin DOMAIN s
    BY <1>4, <1>5, <2>2
  <2>3. CASE i \notin DOMAIN s /\ j \notin DOMAIN s
    BY <1>2, <1>5, <2>3 DEF Ordered
  <2>. QED  BY <1>2, <2>1, <2>2, <2>3
<1>. QED  BY <1>1, <1>6, <1>7 DEF both

\* A bucket that is full makes a request.
LEMMA BucketIsMessage ==
  ASSUME TypeOK, Bucket, cursor = BucketSize
  PROVE  /\ [i \in Slots |-> Sample(i)] \in Seq(Entries)
         /\ Len([i \in Slots |-> Sample(i)]) = BucketSize
<1>1. BucketSize \in Nat \ {0} /\ MaxTime \in Nat \ {0}
  BY BucketAssumption
<1>2. \A i \in Slots : Sample(i) \in Entries
  BY <1>1 DEF TypeOK, Bucket, Sample, Entry, Entries, Slots
<1>. QED  BY <1>1, <1>2 DEF Slots

\* Every sample is a step of the clock later than the one before, and than what the
\* server has.
LEMMA AcquireSampleKeeps ==
  ASSUME IInv, AcquireSample
  PROVE  IInv'
<1> USE BucketAssumption DEF IInv, AcquireSample, Tick, apiVars, uploadVars
<1>1. CallInv(Message)'
  BY ApiUntouched
<1>2. PICK x \in Accepted :
         /\ x[1] = Climate[time'].frame
         /\ humidities' = [humidities EXCEPT ![cursor + 1] = RelativeHumidity(x[2])]
         /\ temperatures' = [temperatures EXCEPT ![cursor + 1] = Temperature(x[2])]
  OBVIOUS
<1>3. /\ time' \in 1 .. MaxTime /\ time' = time + 1 /\ time \in Nat
      /\ cursor + 1 \in Slots /\ cursor' = cursor + 1 /\ cursor \in Nat
      /\ timestamps \in [Slots -> 0 .. MaxTime]
  BY DEF TypeOK, Slots
<1>4. TypeOK'
  <2>1. humidities' \in [Slots -> Int] /\ temperatures' \in [Slots -> Int]
    BY <1>2, <1>3, SamplesAreNumbers DEF TypeOK
  <2>. QED  BY <1>1, <1>3, <2>1 DEF TypeOK, CallInv, CallTypes
<1>5. Bucket'
  <2>1. \A i \in 1 .. cursor' : timestamps'[i] = IF i <= cursor THEN timestamps[i] ELSE time'
    BY <1>3 DEF Slots
  <2>2. \A i \in 1 .. cursor : timestamps[i] \in 1 .. time
    BY DEF Bucket
  <2>3. \A i \in 1 .. cursor' : i \in 1 .. cursor \/ i = cursor'
    BY <1>3
  <2>. QED  BY <1>3, <2>1, <2>2, <2>3 DEF Bucket
<1>6. Blocks' /\ Calling'
  BY DEF Blocks, Calling, callVars, sessionVars
<1>7. InBucket' = InBucket \cup {time'} /\ UploadedTimes' = UploadedTimes
  BY <1>3 DEF InBucket, UploadedTimes
<1>8. Uploaded'
  <2>1. NotSent /\ ~Sent'
    BY DEF NotSent, Sent
  <2>2. \A j \in DOMAIN uploaded : uploaded[j].timestamp \in Int
    BY UploadedAreEntries DEF Entries
  <2>. QED  BY <1>3, <1>7, <2>1, <2>2 DEF Uploaded
<1>. QED  BY <1>1, <1>4, <1>5, <1>6, <1>8

\* The sensor, the bus or the checksum fails: time passes.
LEMMA SampleFailsKeeps ==
  ASSUME IInv, SampleFails
  PROVE  IInv'
<1> USE BucketAssumption DEF IInv, SampleFails, Tick, apiVars, bucketVars, uploadVars, history
<1>1. CallInv(Message)'
  BY ApiUntouched
<1>2. time' = time + 1 /\ time' \in 1 .. MaxTime /\ time \in Nat
  BY DEF TypeOK
<1>3. TypeOK' /\ Bucket'
  BY <1>1, <1>2 DEF TypeOK, CallInv, CallTypes, Bucket
<1>4. Blocks' /\ Calling'
  BY DEF Blocks, Calling, Sample, callVars, sessionVars
<1>5. Uploaded'
  <2>1. \A j \in DOMAIN uploaded : uploaded[j].timestamp \in Int
    BY UploadedAreEntries DEF Entries
  <2>2. NotSent /\ ~Sent'
    BY DEF NotSent, Sent
  <2>. QED  BY <1>2, <2>1, <2>2 DEF Uploaded, InBucket, UploadedTimes
<1>. QED  BY <1>1, <1>3, <1>4, <1>5

\* What allocation and its clean-up do not touch: the calls, the bucket, the server.
LEMMA BuildingLeaves ==
  ASSUME IInv, UNCHANGED <<apiVars, time, bucketVars, history>>,
         mpc' \in Building \/ (mpc' = "cleanup" /\ allocated' # BucketSize),
         (mpc = "sample" /\ cursor = BucketSize) \/ mpc \in Building,
         allocated' \in 0 .. BucketSize, Blocks'
  PROVE  IInv'
<1> USE BucketAssumption DEF IInv, apiVars, bucketVars, history, Building
<1>1. CallInv(Message)'
  BY ApiUntouched
<1>2. TypeOK'
  <2>1. (1 .. allocated') \X Parts \subseteq Slots \X Parts
    BY DEF TypeOK, Slots
  <2>2. \A part \in Parts : allocated' < BucketSize => Block(part)' \in Slots \X Parts
    BY DEF TypeOK, Slots, Block
  <2>3. blocks' \subseteq {List} \cup (Slots \X Parts)
    BY <2>1, <2>2 DEF Blocks, Built, Parts
  <2>4. mpc' \in {"build", "timestamp", "atmosphere", "cleanup_timestamp", "cleanup_measurement",
                  "call", "cleanup"}
    OBVIOUS
  <2>. QED  BY <1>1, <2>3, <2>4 DEF TypeOK, CallInv, CallTypes
<1>3. Bucket' /\ Calling'
  BY DEF Bucket, Calling, Sample, callVars, sessionVars
<1>4. Uploaded'
  <2>1. NotSent /\ ~Sent'
    BY DEF NotSent, Sent, PushSucceeded
  <2>. QED  BY <2>1 DEF Uploaded, InBucket, UploadedTimes
<1>. QED  BY <1>1, <1>2, <1>3, <1>4

\* The list is allocated, or is NULL.
LEMMA StartPushKeeps ==
  ASSUME IInv, StartPush
  PROVE  IInv'
<1> USE BucketAssumption DEF IInv, StartPush
<1>1. Blocks'
  BY DEF Blocks, Built
<1>. QED  BY <1>1, BuildingLeaves DEF Building

\* Each block of a measurement is allocated behind those before it; the last of them
\* completes the measurement.
LEMMA BuildKeeps ==
  ASSUME IInv, BuildMeasurement \/ BuildTimestamp \/ BuildAtmosphere
  PROVE  IInv'
<1> USE BucketAssumption DEF IInv, BuildMeasurement, BuildTimestamp, BuildAtmosphere, Malloc
<1>1. allocated \in Nat /\ BucketSize \in Nat /\ allocated < BucketSize
  BY DEF TypeOK, Blocks
<1>2. (1 .. allocated + 1) \X Parts = ((1 .. allocated) \X Parts)
          \cup {Block("measurement"), Block("timestamp"), Block("atmosphere")}
  <2>1. 1 .. allocated + 1 = (1 .. allocated) \cup {allocated + 1}
    BY <1>1
  <2>. QED  BY <2>1 DEF Block, Parts
<1>3. Blocks'
  <2>1. CASE BuildMeasurement
    BY <1>1, <2>1 DEF Blocks, Built, Block
  <2>2. CASE BuildTimestamp
    BY <1>1, <2>2 DEF Blocks, Built, Block
  <2>3. CASE BuildAtmosphere /\ mpc' = "build"
    <3>1. /\ allocated' = allocated + 1
          /\ blocks' = Built \cup {Block("measurement"), Block("timestamp"), Block("atmosphere")}
      BY <2>3 DEF Blocks
    <3>2. blocks' = {List} \cup ((1 .. allocated') \X Parts)
      BY <1>2, <3>1 DEF Built
    <3>3. blocks' = Built' /\ mpc' = "build"
      BY <2>3, <3>2 DEF Built
    <3>. QED  BY <3>3 DEF Blocks
  <2>4. CASE BuildAtmosphere /\ mpc' # "build"
    BY <1>1, <2>4 DEF Blocks, Built, Block
  <2>. QED  BY <2>1, <2>2, <2>3, <2>4
<1>4. allocated' \in 0 .. BucketSize /\ (mpc' = "cleanup" => allocated' # BucketSize)
  BY <1>1
<1>. QED  BY <1>3, <1>4, BuildingLeaves DEF Building

\* What was begun of a measurement is freed, the last block first.
LEMMA UndoKeeps ==
  ASSUME IInv, CleanupTimestamp \/ CleanupMeasurement
  PROVE  IInv'
<1> USE BucketAssumption DEF IInv, CleanupTimestamp, CleanupMeasurement
<1>1. allocated \in Nat /\ BucketSize \in Nat /\ allocated < BucketSize /\ allocated' = allocated
  BY DEF TypeOK, Blocks
<1>2. Block("timestamp") \notin Built /\ Block("measurement") \notin Built
  BY <1>1 DEF Built, Block, List
<1>3. Block("timestamp") # Block("measurement")
  BY DEF Block
<1>4. Blocks'
  BY <1>1, <1>2, <1>3 DEF Blocks, Built, Block
<1>. QED  BY <1>1, <1>4, BuildingLeaves DEF Building

\* The bucket becomes the request of a call.
LEMMA PushKeeps ==
  ASSUME IInv, Push
  PROVE  IInv'
<1> USE BucketAssumption, CallersAssumption DEF IInv, Push, bucketVars, uploadVars, history
<1>1. cursor = BucketSize /\ Measurer \in Callers
  BY DEF Bucket, Building
<1>2. CallInv(Message)'
  BY <1>1, BucketIsMessage, CallApiKeeps DEF Message
<1>3. TypeOK'
  BY <1>2 DEF TypeOK, CallInv, CallTypes
<1>4. Bucket' /\ Blocks'
  BY DEF Bucket, Building, Blocks, Built, Block
<1>5. Calling'
  BY <1>1 DEF Calling, CallApi, Go, CallInv, CallTypes, ApiTypeOK, Sample
<1>6. Uploaded'
  <2>1. NotSent
    BY DEF NotSent, Building
  <2>2. ~Sent'
    BY <1>1, <1>2 DEF Sent, CallApi, Go, CallInv, CallTypes, ApiTypeOK, Owned, Places, Tasks,
                     Session!Want, Session!Move
  <2>. QED  BY <2>1, <2>2 DEF Uploaded, InBucket, UploadedTimes
<1>. QED  BY <1>2, <1>3, <1>4, <1>5, <1>6

\* The call is over; its status stays.
LEMMA PushedKeeps ==
  ASSUME IInv, Pushed
  PROVE  IInv'
<1> USE BucketAssumption, CallersAssumption DEF IInv, Pushed, bucketVars, uploadVars, history
<1>1. CallInv(Message)'
  BY CallEndsKeeps
<1>2. TypeOK'
  BY <1>1 DEF TypeOK, CallInv, CallTypes
<1>3. Bucket' /\ Blocks'
  BY DEF Bucket, Building, Blocks, Built
<1>4. Calling'
  BY DEF Calling, CallEnds, Go, CallInv, CallTypes, ApiTypeOK
<1>5. Uploaded'
  <2>1. ~NotSent' /\ (Sent' => Sent)
    BY DEF NotSent, Building, Sent, PushSucceeded, CallEnds
  <2>. QED  BY <2>1 DEF Uploaded, InBucket, UploadedTimes
<1>. QED  BY <1>1, <1>2, <1>3, <1>4, <1>5

\* All that was built is freed, and the bucket is emptied: samples the server does
\* not have for certain are given up.
LEMMA CleanupKeeps ==
  ASSUME IInv, Cleanup
  PROVE  IInv'
<1> USE BucketAssumption DEF IInv, Cleanup, apiVars
<1>1. CallInv(Message)'
  BY ApiUntouched
<1>2. blocks' = {}
  BY DEF Blocks
<1>3. TypeOK'
  <2>1. lost' \subseteq 1 .. MaxTime
    BY DEF TypeOK, Bucket, InBucket
  <2>. QED  BY <1>1, <1>2, <2>1 DEF TypeOK, CallInv, CallTypes
<1>4. Bucket' /\ Blocks' /\ Calling'
  BY <1>2 DEF Bucket, Building, Blocks, Calling, callVars
<1>5. Uploaded'
  <2>1. InBucket' = {} /\ UploadedTimes' = UploadedTimes
    BY DEF InBucket, UploadedTimes
  <2>2. Sent <=> PushSucceeded
    BY DEF Sent
  <2>3. ~Sent'
    BY DEF Sent
  <2>. QED  BY <2>1, <2>2, <2>3 DEF Uploaded
<1>. QED  BY <1>1, <1>3, <1>4, <1>5

\* What another task does leaves the request and its progress alone; the call itself
\* never goes back to where nothing was sent, and ends "ok" only if all was.
LEMMA OthersLeave ==
  ASSUME IInv, UNCHANGED measureVars, CallInv(Message)',
         pc'[Measurer] = "idle" <=> pc[Measurer] = "idle",
         request'[Measurer] = request[Measurer],
         NotSent' => NotSent, Sent' => Sent
  PROVE  IInv'
<1> USE DEF IInv, measureVars, bucketVars, uploadVars, history
<1>1. TypeOK' /\ Bucket' /\ Blocks'
  BY DEF TypeOK, CallInv, CallTypes, Bucket, Building, Blocks, Built, Block
<1>2. Calling'
  BY DEF Calling, Sample
<1>3. Uploaded'
  BY DEF Uploaded, InBucket, UploadedTimes
<1>. QED  BY <1>1, <1>2, <1>3

\* poll_task asks and is answered.
LEMMA PollKeeps ==
  ASSUME IInv, Poll \/ Polled
  PROVE  IInv'
<1> USE CallersAssumption DEF IInv, Poll, Polled, CallApi, CallEnds, Go
<1>1. CallInv(Message)'
  BY CallApiKeeps, CallEndsKeeps DEF Message
<1>2. /\ pc'[Measurer] = pc[Measurer] /\ request'[Measurer] = request[Measurer]
      /\ status'[Measurer] = status[Measurer]
  BY DEF CallInv, CallTypes, ApiTypeOK
<1>3. /\ stage'[Measurer] = stage[Measurer]
      /\ UNCHANGED <<exchange, holder, answer, measureVars>>
  BY DEF CallInv, CallTypes, ApiTypeOK, Session!TypeOK, Session!Want, Session!Move, Tasks,
         sessionVars, serverVars
<1>4. (NotSent' => NotSent) /\ (Sent' => Sent)
  BY <1>2, <1>3 DEF NotSent, Sent, PushSucceeded, measureVars, uploadVars
<1>. QED  BY <1>1, <1>2, <1>3, <1>4, OthersLeave

\* auth_task has the session to itself or not at all.
LEMMA AuthStepsKeep ==
  ASSUME IInv, AuthSteps
  PROVE  IInv'
<1> USE CallersAssumption, TasksAssumption
    DEF IInv, AuthSteps, AuthTask, AuthAcquires, AuthStores, AuthReleases, AuthIdle
<1>1. CallInv(Message)'
  BY AuthTaskKeeps
<1>2. /\ UNCHANGED <<pc, request, status, exchange, answer, measureVars>>
      /\ stage'[Measurer] = stage[Measurer]
      /\ holder' = Measurer => holder = Measurer
  BY DEF CallInv, CallTypes, ApiTypeOK, Session!TypeOK, Session!Want, Session!Grab, Session!Drop,
         Session!Move, Tasks, callVars, serverVars, sessionVars
<1>3. (NotSent' => NotSent) /\ (Sent' => Sent)
  BY <1>2 DEF NotSent, Sent, PushSucceeded, measureVars, uploadVars
<1>. QED  BY <1>1, <1>2, <1>3, OthersLeave

\* Either task makes its call; what is not sent before a step may be after it, and
\* what succeeds was sent.
LEMMA CallsKeep ==
  ASSUME IInv, Calls
  PROVE  IInv'
<1> USE CallersAssumption DEF IInv, Calls
<1>1. PICK t \in Callers : CallStep(t)
  OBVIOUS
<1> USE DEF CallStep, Acquire, Unwind, Connect, Connected, CopyToken, Pack, Perform, Performed, Log,
            Unpack, Release, Give, Go, Session!Grab, Session!Drop, Session!Ask, Session!Collect,
            Session!Discard, Session!Move, sessionVars, bufferVars, serverVars
<1>2. CallInv(Message)'
  BY <1>1, CallStepKeeps
<1>3. /\ request' = request /\ exchange' = exchange
      /\ pc[t] # "idle" /\ pc'[t] # "idle"
      /\ \A u \in Callers \ {t} : pc'[u] = pc[u] /\ status'[u] = status[u]
  BY <1>1 DEF CallInv, CallTypes, ApiTypeOK
<1>4. pc'[Measurer] = "idle" <=> pc[Measurer] = "idle"
  BY <1>3
<1>5. exchange = "none"
  BY <1>1, NothingUnderWay DEF CallInv, Places, Tasks
<1>6. NotSent' => NotSent
  BY <1>1, <1>3, <1>5 DEF NotSent, CallInv, CallTypes, ApiTypeOK, Session!TypeOK, Places,
     Tasks, measureVars
<1>7. ASSUME mpc = "call", Sent'
      PROVE  Sent
  <2>1. CASE t = Measurer
    <3>1. ~(pc'[t] = "performing" /\ stage'[t] = "answered")
      BY <1>1 DEF CallInv, CallTypes, ApiTypeOK, Session!TypeOK, Tasks
    <3>2. status'[t] = "ok"
      BY <1>3, <1>5, <1>7, <2>1, <3>1 DEF Sent, measureVars
    <3>3. \/ status[t] = "ok"
          \/ pc[t] = "performing" /\ stage[t] = "answered" /\ answer[t] = "ok"
      <4>1. \/ status' = status
            \/ /\ pc[t] = "performing" /\ stage[t] = "answered"
               /\ \E r \in IF answer[t] = "ok" THEN {"ok"} ELSE {"remote", "local"} :
                     status' = [status EXCEPT ![t] = r]
        BY <1>1
      <4>2. t \in DOMAIN status
        BY DEF CallInv, CallTypes, ApiTypeOK
      <4>3. CASE status' = status
        BY <3>2, <4>3
      <4>4. CASE status' # status
        <5>1. PICK r \in IF answer[t] = "ok" THEN {"ok"} ELSE {"remote", "local"} :
                 status' = [status EXCEPT ![t] = r]
          BY <4>1, <4>4
        <5>2. r = "ok"
          BY <3>2, <4>2, <5>1
        <5>3. answer[t] = "ok"
          BY <5>1, <5>2
        <5>. QED  BY <4>1, <4>4, <5>3
      <4>. QED  BY <4>3, <4>4
    <3>. QED  BY <1>7, <2>1, <3>3 DEF Sent
  <2>2. CASE t # Measurer
    <3>1. stage'[Measurer] = stage[Measurer] /\ answer'[Measurer] = answer[Measurer]
      BY <1>1, <2>2 DEF CallInv, CallTypes, ApiTypeOK, Session!TypeOK, Tasks
    <3>. QED  BY <1>3, <1>5, <1>7, <2>2, <3>1 DEF Sent, measureVars
  <2>. QED  BY <2>1, <2>2
<1>8. ASSUME mpc # "call", Sent'
      PROVE  Sent
  <2>1. t # Measurer
    BY <1>3, <1>8 DEF Calling
  <2>. QED  BY <1>3, <1>8, <2>1 DEF Sent, PushSucceeded, measureVars, uploadVars
<1>9. Sent' => Sent
  BY <1>7, <1>8
<1>. QED  BY <1>2, <1>3, <1>4, <1>6, <1>9, OthersLeave

\* http2_task serves whoever has the session; "ok" comes after the response.
LEMMA ServedKeeps ==
  ASSUME IInv, Served
  PROVE  IInv'
<1> USE CallersAssumption DEF IInv, Served, Secure, Respond, Reply, Session!Secure, Session!Reply,
            Session!Move, callVars
<1>1. PICK t \in Callers : Secure(t) \/ Respond(t) \/ Reply(t)
  OBVIOUS
<1>2. CallInv(Message)'
  BY <1>1, ServerKeeps, ReplyKeeps
<1>3. UNCHANGED <<pc, request, status, holder>> /\ holder = t /\ stage[t] = "asking"
  BY <1>1 DEF CallInv, Owned, Serving, Tasks, sessionVars
<1>4. NotSent' => NotSent
  BY <1>1, <1>3 DEF NotSent, CallInv, CallTypes, ApiTypeOK, Session!TypeOK, Owned, Tasks,
     measureVars, sessionVars, serverVars
<1>5. Sent' => Sent
  BY <1>1, <1>3 DEF Sent, CallInv, CallTypes, ApiTypeOK, Session!TypeOK, Places, Tasks,
     PushSucceeded, measureVars, uploadVars, sessionVars, serverVars
<1>. QED  BY <1>1, <1>2, <1>3, <1>4, <1>5, OthersLeave

\* The bucket reaches the server once, after everything the server has already.
LEMMA DeliveredKeeps ==
  ASSUME IInv, Delivered
  PROVE  IInv'
<1> USE CallersAssumption, BucketAssumption
    DEF IInv, Delivered, bucketVars, uploadVars
<1>1. PICK t \in Callers :
         /\ Deliver(t)
         /\ uploaded' = IF t = Measurer THEN uploaded \o payload ELSE uploaded
  OBVIOUS
<1>2. CallInv(Message)'
  BY <1>1, ServerKeeps
<1>3. /\ UNCHANGED <<stage, question, answer, pc, request, status, holder, payload>>
      /\ holder = t /\ stage[t] = "asking" /\ pc[t] = "performing"
      /\ exchange = "none" /\ exchange' = "received"
  BY <1>1, ServingPerforms DEF CallInv, Owned, Deliver, Serving, Tasks, sessionVars, callVars, bufferVars
<1>4. Bucket' /\ Blocks' /\ Calling'
  BY <1>3 DEF Bucket, Building, Blocks, Built, Block, Calling, Sample
<1>5. InBucket' = InBucket
  BY DEF InBucket
<1>6. CASE t # Measurer
  <2>1. uploaded' = uploaded
    BY <1>1, <1>6
  <2>2. TypeOK'
    BY <1>2, <2>1 DEF TypeOK, CallInv, CallTypes
  <2>3. (NotSent' => NotSent) /\ (Sent' => Sent)
    BY <1>3, <1>6 DEF NotSent, Sent, PushSucceeded
  <2>4. Uploaded'
    BY <1>5, <2>1, <2>3 DEF Uploaded, UploadedTimes
  <2>. QED  BY <1>2, <1>4, <2>2, <2>4
<1>7. CASE t = Measurer
  <2> DEFINE bucket == [i \in Slots |-> Sample(i)]
  <2>1. mpc = "call" /\ cursor = BucketSize /\ payload = bucket
    BY <1>3, <1>7 DEF CallInv, Prepared, Calling, Bucket
  <2>2. /\ bucket \in Seq(Entries) /\ Len(bucket) = BucketSize
        /\ \A i \in 1 .. BucketSize : bucket[i].timestamp = timestamps[i]
    BY <2>1, BucketIsMessage DEF Slots, Sample, Entry
  <2> HIDE DEF bucket
  <2>3. NotSent /\ ~NotSent'
    BY <1>3, <1>7, <2>1 DEF NotSent, Building
  <2>4. DOMAIN bucket = 1 .. cursor /\ Times(bucket) = InBucket /\ Ordered(bucket)
    <3>1. DOMAIN bucket = 1 .. cursor
      BY <2>1, <2>2
    <3>2. Times(bucket) = InBucket
      BY <2>1, <2>2, <3>1 DEF Times, InBucket
    <3>3. Ordered(bucket)
      BY <2>1, <2>2, <3>1 DEF Ordered, Bucket
    <3>. QED  BY <3>1, <3>2, <3>3
  <2>5. /\ uploaded \in Seq(Entries) /\ Times(uploaded) = UploadedTimes /\ Ordered(uploaded)
        /\ \A i \in DOMAIN uploaded, j \in DOMAIN bucket :
              uploaded[i].timestamp < bucket[j].timestamp
    BY <2>1, <2>2, <2>3, <2>4 DEF TypeOK, Uploaded, UploadedTimes, Times, Ordered
  <2>6. uploaded' = uploaded \o bucket
    BY <1>1, <1>7, <2>1
  <2>7. /\ uploaded' \in Seq(Entries) /\ Ordered(uploaded')
        /\ Times(uploaded') = UploadedTimes \cup InBucket
    BY <2>2, <2>4, <2>5, <2>6, Concatenated
  <2>8. TypeOK'
    BY <1>2, <2>7 DEF TypeOK, CallInv, CallTypes
  <2>9. \A j \in DOMAIN uploaded' : uploaded'[j].timestamp <= time'
    <3>1. \A u \in UploadedTimes : u <= time
      BY DEF Uploaded, UploadedTimes
    <3>2. \A u \in InBucket : u <= time
      BY DEF InBucket, Bucket, TypeOK
    <3>3. \A j \in DOMAIN uploaded' : uploaded'[j].timestamp \in UploadedTimes \cup InBucket
      BY <2>7 DEF Times
    <3>. QED  BY <3>1, <3>2, <3>3
  <2>10. UploadedTimes' = UploadedTimes \cup InBucket
    BY <2>7 DEF Times, UploadedTimes
  <2>11. Uploaded'
    BY <1>5, <2>3, <2>7, <2>9, <2>10 DEF Uploaded, Ordered
  <2>. QED  BY <1>2, <1>4, <2>8, <2>11
<1>. QED  BY <1>6, <1>7

\* What was in the bucket is lost with RAM.
LEMMA PanicKeeps ==
  ASSUME IInv, Panic \/ ListPanics
  PROVE  IInv'
<1>0. RestartDevice
  BY DEF Panic, ListPanics
<1> USE <1>0, CallersAssumption, BucketAssumption DEF IInv, RestartDevice
<1>1. CallInv(Message)'
  BY RestartKeeps
<1>2. TypeOK'
  <2>1. lost' \subseteq 1 .. MaxTime
    <3>1. InBucket \subseteq 1 .. MaxTime
      BY DEF TypeOK, Bucket, InBucket
    <3>. QED  BY <3>1 DEF TypeOK
  <2>. QED  BY <1>1, <2>1 DEF TypeOK, CallInv, CallTypes, Zeros, Slots
<1>3. Bucket' /\ Blocks' /\ Calling'
  BY DEF Bucket, Building, Blocks, Calling, Restart
<1>4. Uploaded'
  <2>1. InBucket' = {} /\ UploadedTimes' = UploadedTimes
    BY DEF InBucket, UploadedTimes
  <2>2. ~Sent'
    BY DEF Sent
  <2>. QED  BY <2>1, <2>2 DEF Uploaded
<1>. QED  BY <1>1, <1>2, <1>3, <1>4

\* The bucket is empty and the server has nothing.
LEMMA InitIInv ==
  ASSUME Init
  PROVE  IInv
<1> USE CallersAssumption, BucketAssumption DEF Init
<1>1. CallInv(Message)
  BY ApiInitHolds
<1>2. TypeOK
  BY <1>1 DEF TypeOK, CallInv, CallTypes, Zeros, Slots
<1>3. Bucket /\ Blocks /\ Calling
  BY DEF Bucket, Building, Blocks, Calling, ApiInit
<1>4. InBucket = {} /\ UploadedTimes = {} /\ DOMAIN uploaded = {}
  BY DEF InBucket, UploadedTimes
<1>5. Uploaded
  BY <1>4 DEF Uploaded
<1>. QED  BY <1>1, <1>2, <1>3, <1>5 DEF IInv

-----------------------------------------------------------------------------
\* The inductive invariant: the session's buffers, the bucket, and what of it the
\* server has.
THEOREM Invariance == Spec => []IInv
<1>1. Init => IInv
  BY InitIInv
<1>2. IInv /\ [Next]_vars => IInv'
  <2> SUFFICES ASSUME IInv, [Next]_vars PROVE IInv'
    OBVIOUS
  <2>1. CASE UNCHANGED vars
    <3>1. CallInv(Message)'
      BY <2>1, ApiUntouched DEF vars, IInv
    <3>. QED  BY <2>1, <3>1, OthersLeave
              DEF vars, apiVars, sessionVars, callVars, serverVars, measureVars, uploadVars,
                  NotSent, Sent, PushSucceeded
  <2>2. CASE Upload
    BY <2>2, StartPushKeeps, BuildKeeps, UndoKeeps, PanicKeeps, PushKeeps, PushedKeeps, CleanupKeeps
       DEF Upload
  <2>3. CASE ~Upload
    BY <2>1, <2>3, AcquireSampleKeeps, SampleFailsKeeps, PollKeeps, CallsKeep, ServedKeeps,
       DeliveredKeeps, AuthStepsKeep, PanicKeeps DEF Next
  <2>. QED  BY <2>2, <2>3
<1>. QED  BY <1>1, <1>2, PTL DEF Spec

-----------------------------------------------------------------------------
(* What follows from it                                                    *)

\* Messages, bucket and buffers keep their types, panics or not.
THEOREM TypeCorrect == Spec => []TypeOK
BY Invariance, PTL DEF IInv

\* Every caller has its own message delivered, under the token that is valid then,
\* and finds the answer to it, although all callers share the same static buffers.
THEOREM CallsNeverMix == Spec => []CallsKeepApart
<1>1. IInv => CallsKeepApart
  BY DEF IInv, CallInv, Exchanged, Replied, CallsKeepApart
<1>. QED  BY <1>1, Invariance, PTL

\* What a push allocates is freed, once, whichever of its allocations fails.
THEOREM HeapStaysBalanced == Spec => []HeapBalanced
<1>1. IInv => HeapBalanced
  <2> SUFFICES ASSUME IInv PROVE HeapBalanced
    OBVIOUS
  <2>1. mpc \in DOMAIN Frees => Frees[mpc] \subseteq blocks
    BY DEF IInv, Blocks, Frees
  <2>. QED  BY <2>1 DEF IInv, Blocks, HeapBalanced, Built, Slots
<1>. QED  BY <1>1, Invariance, PTL

\* Each sample reaches the server at most once and in its turn, and none disappears
\* without a failed upload or a panic: for any sensor and any bus.
OnceInOrder ==
    /\ \A i, j \in DOMAIN uploaded : i < j => uploaded[i].timestamp < uploaded[j].timestamp
    /\ taken = lost \cup InBucket \cup {uploaded[i].timestamp : i \in DOMAIN uploaded}

\* A push that reports a failure may have arrived, and is not repeated.
THEOREM SamplesOnceInOrder == Spec => []OnceInOrder
<1>1. IInv => OnceInOrder
  BY DEF IInv, Uploaded, UploadedTimes, OnceInOrder
<1>. QED  BY <1>1, Invariance, PTL

-----------------------------------------------------------------------------
(* Genuine samples                                                         *)

\* What the theorem below asks of the checksum: it accepts no reading of a frame
\* that would be taken for another measurement.  Whether it does is computed byte by
\* byte, over the frames of Climate; the run of Measurements would find a sample that
\* is not genuine if it did not.
ChecksumSuffices ==
    \A t \in 1 .. MaxTime : \A x \in Accepted :
        x[1] = Climate[t].frame =>
            /\ RelativeHumidity(x[2]) = Climate[t].relative_humidity
            /\ Temperature(x[2]) = Climate[t].temperature

AllGenuine ==
    /\ \A i \in 1 .. cursor : Genuine(Sample(i))
    /\ \A i \in DOMAIN uploaded : Genuine(uploaded[i])

\* A sample is genuine when it is taken, and is uploaded as it was taken.
LEMMA StaysGenuine ==
  ASSUME ChecksumSuffices, IInv, AllGenuine, [Next]_vars
  PROVE  AllGenuine'
<1> USE DEF AllGenuine
<1>1. CASE AcquireSample
  <2>1. PICK x \in Accepted :
           /\ x[1] = Climate[time'].frame
           /\ humidities' = [humidities EXCEPT ![cursor + 1] = RelativeHumidity(x[2])]
           /\ temperatures' = [temperatures EXCEPT ![cursor + 1] = Temperature(x[2])]
    BY <1>1 DEF AcquireSample
  <2>2. /\ timestamps' = [timestamps EXCEPT ![cursor + 1] = time']
        /\ cursor \in Nat /\ cursor' = cursor + 1 /\ cursor + 1 \in Slots
        /\ time' \in 1 .. MaxTime /\ uploaded' = uploaded
        /\ timestamps \in [Slots -> 0 .. MaxTime]
        /\ humidities \in [Slots -> Int] /\ temperatures \in [Slots -> Int]
    BY <1>1, BucketAssumption DEF AcquireSample, Tick, IInv, TypeOK, Slots
  <2>3. /\ RelativeHumidity(x[2]) = Climate[time'].relative_humidity
        /\ Temperature(x[2]) = Climate[time'].temperature
    BY <2>1, <2>2 DEF ChecksumSuffices
  <2> DEFINE NewSample(i) == Entry(timestamps'[i], humidities'[i], temperatures'[i])
  <2>4. NewSample(cursor + 1) = Entry(time', RelativeHumidity(x[2]), Temperature(x[2]))
    BY <2>1, <2>2
  <2>5. Genuine(NewSample(cursor + 1))
    BY <2>3, <2>4 DEF Genuine, Entry
  <2>6. \A i \in 1 .. cursor : NewSample(i) = Sample(i)
    BY <2>1, <2>2 DEF Sample, Slots
  <2>7. \A i \in 1 .. cursor' : Genuine(NewSample(i))
    <3>1. \A i \in 1 .. cursor' : i \in 1 .. cursor \/ i = cursor + 1
      BY <2>2
    <3> HIDE DEF NewSample
    <3>. QED  BY <2>5, <2>6, <3>1
  <2>. QED  BY <2>2, <2>7 DEF Genuine, Sample
<1>2. CASE Delivered
  <2>1. PICK t \in Callers :
           /\ Deliver(t)
           /\ uploaded' = IF t = Measurer THEN uploaded \o payload ELSE uploaded
    BY <1>2 DEF Delivered
  <2>2. UNCHANGED bucketVars
    BY <1>2 DEF Delivered
  <2>3. CASE t # Measurer
    BY <2>1, <2>2, <2>3 DEF Genuine, Sample, bucketVars
  <2>4. CASE t = Measurer
    <3> DEFINE bucket == [i \in Slots |-> Sample(i)]
    <3>1. pc[t] = "performing" /\ mpc = "call" /\ cursor = BucketSize /\ payload = bucket
      BY <2>1, <2>4, ServingPerforms DEF IInv, Deliver, CallInv, Prepared, Calling, Bucket
    <3>2. bucket \in Seq(Entries) /\ Len(bucket) = BucketSize
      BY <3>1, BucketIsMessage DEF IInv
    <3>3. \A i \in 1 .. BucketSize : Genuine(bucket[i])
      BY <3>1 DEF Slots
    <3> HIDE DEF bucket
    <3>4. uploaded \in Seq(Entries) /\ uploaded' = uploaded \o bucket
      BY <2>1, <2>4, <3>1 DEF IInv, TypeOK
    <3>5. \A i \in DOMAIN uploaded' : Genuine(uploaded'[i])
      BY <3>2, <3>3, <3>4, ConcatProperties
    <3>. QED  BY <2>2, <3>5 DEF Genuine, Sample, bucketVars
  <2>. QED  BY <2>3, <2>4
<1>3. CASE Cleanup \/ Panic \/ ListPanics
  BY <1>3 DEF Cleanup, Panic, ListPanics, RestartDevice, Genuine
<1>4. CASE \/ SampleFails \/ StartPush \/ BuildMeasurement \/ BuildTimestamp \/ BuildAtmosphere
           \/ CleanupTimestamp \/ CleanupMeasurement \/ Push \/ Pushed
           \/ Poll \/ Polled \/ Calls \/ Served \/ AuthSteps \/ UNCHANGED vars
  <2>1. UNCHANGED <<bucketVars, uploaded>>
    BY <1>4 DEF SampleFails, StartPush, BuildMeasurement, BuildTimestamp, BuildAtmosphere,
                CleanupTimestamp, CleanupMeasurement, Push, Pushed, Poll, Polled, Calls, Served, AuthSteps, vars, measureVars, history
  <2>. QED  BY <2>1 DEF Genuine, Sample, bucketVars
<1>. QED  BY <1>1, <1>2, <1>3, <1>4 DEF Next, Upload

\* What the server has is what the sensor measured, each sample once and in order, if
\* the checksum suffices for the frames the sensor sends.
THEOREM UploadsGenuine ==
  ASSUME ChecksumSuffices
  PROVE  Spec => []UploadsAreTheSamples
<1>1. Init => AllGenuine
  BY DEF Init, AllGenuine
<1>2. IInv /\ AllGenuine /\ [Next]_vars => AllGenuine'
  BY StaysGenuine
<1>3. IInv /\ AllGenuine => UploadsAreTheSamples
  BY DEF IInv, Uploaded, UploadedTimes, AllGenuine, UploadsAreTheSamples
<1>. QED  BY <1>1, <1>2, <1>3, Invariance, PTL DEF Spec
=============================================================================
