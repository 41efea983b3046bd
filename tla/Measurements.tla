---------------------------- MODULE Measurements ----------------------------
(***************************************************************************)
(* app/measurements.c: measurements_task reads the sensor once a minute    *)
(* into a bucket of three parallel arrays and uploads the bucket when it   *)
(* is full, whatever comes of the upload.  Composed with Api: poll_task    *)
(* and auth_task compete for the session, and a panic restarts all.        *)
(***************************************************************************)
EXTENDS Api, Am2320, FiniteSets

CONSTANTS
    Measurer, Poller,  \* measurements_task and poll_task
    Polls,             \* poll requests, told apart by their uptime
    BucketSize,        \* CONFIG_MEASUREMENTS_BUCKET_SIZE
    MaxTime,           \* acquisition intervals in a behaviour
    Climate,           \* [1 .. MaxTime -> what the sensor measures, and its frame]
    PayloadBufferLen   \* CONFIG_GRPC_PAYLOAD_BUFFER_LEN

ASSUME CallersAssumption == Callers = {Measurer, Poller} /\ Measurer # Poller
ASSUME BucketAssumption == {BucketSize, MaxTime} \subseteq Nat \ {0}
ASSUME ClimateAssumption ==
    Climate \in [1 .. MaxTime -> [relative_humidity : 0 .. 1000, temperature : -400 .. 800,
                                  frame : Response]]

VARIABLES
    mpc,           \* where measurements_task stands
    time,          \* the clock, in acquisition intervals
    cursor,        \* samples in the bucket
    timestamps, humidities, temperatures,  \* the bucket
    allocated,     \* measurements built for the request, all three blocks of each
    blocks,        \* what is allocated for it
    taken,         \* (history) times at which a sample was read
    uploaded,      \* (history) samples the server has received, in order
    lost           \* (history) times of samples given up with a failed upload

bucketVars  == <<cursor, timestamps, humidities, temperatures>>
uploadVars  == <<allocated, blocks>>
history     == <<taken, uploaded, lost>>
measureVars == <<mpc, time, bucketVars, uploadVars, history>>
vars == <<apiVars, measureVars>>

Slots  == 1 .. BucketSize
Parts  == {"measurement", "timestamp", "atmosphere"}
List   == <<0, "list">>

Entry(t, h, c) == [timestamp |-> t, relative_humidity |-> h, temperature |-> c]
Sample(i)      == Entry(timestamps[i], humidities[i], temperatures[i])
InBucket       == {timestamps[i] : i \in 1 .. cursor}

\* What the bus may deliver of a frame: the frame, the frame with a bit turned, nothing
\* but zeros, nothing but ones.
BusReads(f) ==
    {f, [i \in 1 .. 8 |-> 0], [i \in 1 .. 8 |-> 255]} \cup
        {[f EXCEPT ![i] = IF b \in Bits[@] THEN @ - 2^b ELSE @ + 2^b] : i \in 1 .. 8, b \in 0 .. 7}

\* am2320_read: what it accepts of each frame.
Accepted ==
    UNION {{<<f, r>> : r \in {r \in BusReads(f) : CheckCrc(r)}} :
              f \in {Climate[t].frame : t \in 1 .. MaxTime}}

Entries == [timestamp : 1 .. MaxTime, relative_humidity : Int, temperature : Int]
Message == Polls \cup Seq(Entries)

TypeOK ==
    /\ ApiTypeOK(Message)
    /\ mpc \in {"sample", "build", "timestamp", "atmosphere", "cleanup_timestamp",
               "cleanup_measurement", "call", "cleanup"}
    /\ time \in 0 .. MaxTime
    /\ cursor \in 0 .. BucketSize
    /\ timestamps \in [Slots -> 0 .. MaxTime]
    /\ {humidities, temperatures} \subseteq [Slots -> Int]
    /\ allocated \in 0 .. BucketSize
    /\ blocks \subseteq {List} \cup (Slots \X Parts)
    /\ uploaded \in Seq(Entries)
    /\ taken \cup lost \subseteq 1 .. MaxTime

\* The static arrays start at zero.
Zeros == [i \in Slots |-> 0]

Init ==
    /\ ApiInit
    /\ mpc = "sample" /\ time = 0 /\ cursor = 0
    /\ timestamps = Zeros /\ humidities = Zeros /\ temperatures = Zeros
    /\ allocated = 0 /\ blocks = {}
    /\ taken = {} /\ uploaded = <<>> /\ lost = {}

-----------------------------------------------------------------------------
(* measurements_task_                                                      *)

\* vTaskDelay
Tick ==
    /\ mpc = "sample" /\ cursor < BucketSize
    /\ time < MaxTime /\ time' = time + 1

\* am2320_readf, then the time.
AcquireSample ==
    /\ Tick
    /\ \E x \in Accepted :
          /\ x[1] = Climate[time'].frame
          /\ humidities' = [humidities EXCEPT ![cursor + 1] = RelativeHumidity(x[2])]
          /\ temperatures' = [temperatures EXCEPT ![cursor + 1] = Temperature(x[2])]
    /\ timestamps' = [timestamps EXCEPT ![cursor + 1] = time']
    /\ cursor' = cursor + 1
    /\ taken' = taken \cup {time'}
    /\ UNCHANGED <<apiVars, mpc, uploadVars, uploaded, lost>>

\* Variant: a failed read is counted like any other.
SampleFailsCounts ==
    /\ Tick
    /\ cursor' = cursor + 1
    /\ UNCHANGED <<apiVars, mpc, timestamps, humidities, temperatures, uploadVars, history>>

\* The bus, the sensor or the CRC fails: the slot waits for the next sample.
SampleFails ==
    /\ Tick
    /\ UNCHANGED <<apiVars, mpc, bucketVars, uploadVars, history>>

-----------------------------------------------------------------------------
(* measurements_push_                                                      *)

\* The list may be NULL, which nobody looks at.
StartPush ==
    /\ mpc = "sample" /\ mpc' = "build"
    /\ cursor = BucketSize
    /\ allocated' = 0
    /\ blocks' \in {{List}, {}}
    /\ UNCHANGED <<apiVars, time, bucketVars, history>>

(* measurements_build_atmosphere_measurement_, into the next entry of the list:   *)
(* a block for each of the three parts, and where to go when there is none.       *)

Block(part) == <<allocated + 1, part>>

Malloc(part, next, failed) ==
    \/ mpc' = next   /\ blocks' = blocks \cup {Block(part)}
    \/ mpc' = failed /\ UNCHANGED blocks

BuildMeasurement ==
    /\ mpc = "build" /\ List \in blocks
    /\ allocated < BucketSize
    /\ Malloc("measurement", "timestamp", "cleanup")
    /\ UNCHANGED <<apiVars, time, bucketVars, allocated, history>>

BuildTimestamp ==
    /\ mpc = "timestamp"
    /\ Malloc("timestamp", "atmosphere", "cleanup_measurement")
    /\ UNCHANGED <<apiVars, time, bucketVars, allocated, history>>

\* Variant: the label of the allocation before.
BuildAtmosphereMislabelled ==
    /\ mpc = "atmosphere"
    /\ Malloc("atmosphere", "build", "cleanup_measurement")
    /\ allocated' = IF mpc' = "build" THEN allocated + 1 ELSE allocated
    /\ UNCHANGED <<apiVars, time, bucketVars, history>>

\* Only a measurement that has all of its parts is counted.
BuildAtmosphere ==
    /\ mpc = "atmosphere"
    /\ Malloc("atmosphere", "build", "cleanup_timestamp")
    /\ allocated' = IF mpc' = "build" THEN allocated + 1 ELSE allocated
    /\ UNCHANGED <<apiVars, time, bucketVars, history>>

CleanupTimestamp ==
    /\ mpc = "cleanup_timestamp" /\ mpc' = "cleanup_measurement"
    /\ blocks' = blocks \ {Block("timestamp")}
    /\ UNCHANGED <<apiVars, time, bucketVars, allocated, history>>

\* The push is over.  It has not failed: rc is still ESP_OK.
CleanupMeasurement ==
    /\ mpc = "cleanup_measurement" /\ mpc' = "cleanup"
    /\ blocks' = blocks \ {Block("measurement")}
    /\ UNCHANGED <<apiVars, time, bucketVars, allocated, history>>

Push ==
    /\ mpc = "build" /\ mpc' = "call"
    /\ allocated = BucketSize
    /\ CallApi(Measurer, [i \in Slots |-> Sample(i)])
    /\ UNCHANGED <<time, bucketVars, uploadVars, history>>

Pushed ==
    /\ mpc = "call" /\ mpc' = "cleanup"
    /\ CallEnds(Measurer)
    /\ UNCHANGED <<status, time, bucketVars, uploadVars, history>>

\* What the loop over the measurements built and the free of the list release.
Built == {List} \cup ((1 .. allocated) \X Parts)

PushSucceeded == allocated = BucketSize /\ status[Measurer] = "ok"

\* Variant: after a failed upload the bucket is kept.
CleanupKeepsBucket ==
    /\ mpc = "cleanup" /\ mpc' = "sample"
    /\ blocks' = blocks \ Built
    /\ allocated' = 0
    /\ cursor' = IF PushSucceeded THEN 0 ELSE BucketSize
    /\ UNCHANGED <<apiVars, time, timestamps, humidities, temperatures, history>>

\* The measurements that were built are freed, and the bucket is emptied whatever
\* the push returned.
Cleanup ==
    /\ mpc = "cleanup" /\ mpc' = "sample"
    /\ blocks' = blocks \ Built
    /\ allocated' = 0
    /\ cursor' = 0
    /\ lost' = IF PushSucceeded THEN lost ELSE lost \cup InBucket
    /\ UNCHANGED <<apiVars, time, timestamps, humidities, temperatures, taken, uploaded>>

-----------------------------------------------------------------------------
(* The rest of the device                                                  *)

\* poll_task_ asks, and takes what comes and frees it.
Poll ==
    /\ \E p \in Polls : CallApi(Poller, p)
    /\ UNCHANGED measureVars

Polled ==
    /\ CallEnds(Poller)
    /\ status' = [status EXCEPT ![Poller] = "local"]
    /\ UNCHANGED measureVars

Calls == (\E t \in Callers : CallStep(t)) /\ UNCHANGED measureVars

Served ==
    /\ \E t \in Callers : Secure(t) \/ Respond(t) \/ Reply(t)
    /\ UNCHANGED measureVars

Delivered ==
    /\ \E t \in Callers :
          /\ Deliver(t)
          /\ uploaded' = IF t = Measurer THEN uploaded \o payload ELSE uploaded
    /\ UNCHANGED <<mpc, time, bucketVars, uploadVars, taken, lost>>

AuthSteps == AuthTask /\ UNCHANGED measureVars

\* A restart keeps flash, the clock (SNTP sets it) and what the server has.
RestartDevice ==
    /\ Restart
    /\ mpc' = "sample" /\ cursor' = 0
    /\ timestamps' = Zeros /\ humidities' = Zeros /\ temperatures' = Zeros
    /\ allocated' = 0 /\ blocks' = {}
    /\ lost' = lost \cup InBucket
    /\ UNCHANGED <<time, taken, uploaded>>

Panic == (\E t \in Callers : LogPanics(t)) /\ RestartDevice

\* The first entry of a list that is NULL is written.
ListPanics ==
    /\ mpc = "build" /\ List \notin blocks
    /\ RestartDevice

-----------------------------------------------------------------------------
Upload == StartPush \/ BuildMeasurement \/ BuildTimestamp \/ BuildAtmosphere \/ CleanupTimestamp
          \/ CleanupMeasurement \/ ListPanics \/ Push \/ Pushed \/ Cleanup

Next == AcquireSample \/ SampleFails \/ Upload \/ Poll \/ Polled \/ Calls \/ Served
        \/ Delivered \/ AuthSteps \/ Panic

Spec == Init /\ [][Next]_vars

\* Ready tasks run and http2_task_ answers what it serves.  The mutex goes to its
\* waiters by priority and, within one, in the order in which they came, and
\* nobody holds it without end.  Nothing makes auth_task or poll_task start.
Fairness ==
    /\ WF_vars(Upload \/ (CallStep(Measurer) /\ UNCHANGED measureVars))
    /\ WF_vars(CallStep(Poller) /\ UNCHANGED measureVars)
    /\ WF_vars((\E t \in Callers : Reply(t)) /\ UNCHANGED measureVars)
    /\ WF_vars(AuthReleases /\ UNCHANGED measureVars)
    /\ SF_vars(Acquire(Measurer) /\ UNCHANGED measureVars)

FairSpec == Spec /\ Fairness

-----------------------------------------------------------------------------
(* What must hold                                                          *)

Genuine(e) ==
    /\ e.relative_humidity = Climate[e.timestamp].relative_humidity
    /\ e.temperature = Climate[e.timestamp].temperature

\* What the server gets is what the sensor measured, each sample at most once and
\* in order, whatever the bus makes of a frame and although a push that reports a
\* failure may have arrived; and what it does not get is in the bucket, or went
\* with an upload that failed.
UploadsAreTheSamples ==
    /\ \A i \in DOMAIN uploaded : Genuine(uploaded[i])
    /\ \A i, j \in DOMAIN uploaded : i < j => uploaded[i].timestamp < uploaded[j].timestamp
    /\ taken = lost \cup InBucket \cup {uploaded[i].timestamp : i \in DOMAIN uploaded}

\* What the labels of the two functions free.
Frees == [cleanup_timestamp |-> {Block("timestamp")}, cleanup_measurement |-> {Block("measurement")},
          cleanup |-> Built]

\* Whichever allocation fails, nothing allocated for an upload outlives it, nothing is
\* freed that is not allocated, although the blocks of a measurement that was begun are
\* freed by one function and those that were built by another; and the call is made with
\* all of the request.  A list that cannot be allocated frees nothing: the device restarts.
HeapBalanced ==
    /\ mpc = "sample" => blocks = {}
    /\ mpc \in DOMAIN Frees => Frees[mpc] \subseteq blocks
    /\ mpc = "call" => blocks = {List} \cup (Slots \X Parts)

\* A full bucket does not stop the acquisition for good, although the task that
\* samples waits for the session, the handshake and the server.
UploadsEnd == cursor = BucketSize ~> cursor < BucketSize

\* The protobuf encoding of a push, with the gRPC prefix: per measurement two bytes
\* of framing, a device id of 36 characters (38), a time after 1978 (8), and two
\* floats in two bytes of framing, of which a zero is left out (2 + 2 * 5).
PackedLength(samples) ==
    LET ZeroFields == {x \in (1 .. Len(samples)) \X {"relative_humidity", "temperature"} :
                          samples[x[1]][x[2]] = 0}
    IN  5 + Len(samples) * (2 + 38 + 8 + 12) - 5 * Cardinality(ZeroFields)

\* Kconfig: "Length of buffer for payload sent to Ganymede server (bytes)".  A
\* request that is packed fits the buffer it is packed into.
PayloadFits ==
    pc[Measurer] = "perform" => PackedLength(payload) <= PayloadBufferLen
=============================================================================
