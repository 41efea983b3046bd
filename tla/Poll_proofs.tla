---------------------------- MODULE Poll_proofs ----------------------------
(***************************************************************************)
(* Theorems about module Poll, for any number of configurations, any time  *)
(* zones, and any number of power losses and panics.                       *)
(*                                                                         *)
(* What is in flash is at least as new as what was ever applied, because a *)
(* response is stored before it is handled and the server's answers never  *)
(* go back: IInv follows the response from the call to the handler.  Where *)
(* it cannot be read back, unread says so.                                 *)
(***************************************************************************)
EXTENDS Poll, SequenceTheorems, TLAPS

\* Where there is a response to be stored or handled.
Responded == pc \in {"apply_stored", "store", "handle"} => response # 0

\* A new response is not older than what was applied; the stored one is itself.
Newer ==
    /\ pc \in {"store", "handle"} => response >= highest
    /\ pc = "apply_stored" => response = stored

\* Flash keeps up with what is about to be applied, if it was written.
Kept ==
    ~lossy => /\ stored >= highest
              /\ pc = "handle" => stored = response

IInv == TypeOK /\ Responded /\ Newer /\ Kept /\ ConfigSurvivesRestart /\ ZoneFollowsConfig

-----------------------------------------------------------------------------
(* Time zones                                                              *)

\* An offset to the west, or of whole hours, survives printing and tzset.
THEOREM ZoneRoundTrip ==
  ASSUME NEW m \in -720 .. 840, m < 0 \/ m % 60 = 0
  PROVE  TzSet(TimeZone(m)) = m
<1>1. CASE m < 0
  <2> DEFINE min == (-m) % 60
             hour == (-m - min) \div 60
  <2>1. TimeZone(m) = [hour |-> hour, min |-> min]
    BY <1>1 DEF TimeZone, Remainder
  <2>2. min \in 0 .. 59 /\ min % 65536 = min
    BY <1>1
  <2>3. hour \in 0 .. 12 /\ 60 * hour + min = -m
    BY <1>1, <2>2
  <2>. QED  BY <2>1, <2>2, <2>3 DEF TzSet
<1>2. CASE m = 0
  <2>1. Remainder(-m, 60) = 0
    BY <1>2 DEF Remainder
  <2>2. TimeZone(m) = [hour |-> 0, min |-> 0]
    BY <1>2, <2>1 DEF TimeZone
  <2>. QED  BY <1>2, <2>2 DEF TzSet
<1>3. CASE m > 0
  <2>1. PICK k \in 1 .. 14 : m = 60 * k
    BY <1>3
  <2>2. Remainder(-m, 60) = 0
    BY <1>3 DEF Remainder
  <2>3. TimeZone(m) = [hour |-> -k, min |-> 0]
    BY <2>1, <2>2 DEF TimeZone
  <2>. QED  BY <2>1, <2>3 DEF TzSet
<1>. QED  BY <1>1, <1>2, <1>3

\* Any other offset does not: the minutes are printed with a sign, which tzset reads into
\* an unsigned number.
THEOREM ZoneMisread ==
  ASSUME NEW m \in -720 .. 840, Misprinted(m)
  PROVE  TzSet(TimeZone(m)) # m
<1> DEFINE r == m % 60
           k == m \div 60
<1>1. m \in 1 .. 840 /\ r \in 1 .. 59 /\ k \in 0 .. 14 /\ m = 60 * k + r
  BY DEF Misprinted
<1>2. Remainder(-m, 60) = -r
  BY <1>1 DEF Remainder
<1>3. (-m - (-r)) \div 60 = -k
  BY <1>1
<1>4. TimeZone(m) = [hour |-> -k, min |-> -r]
  BY <1>2, <1>3 DEF TimeZone
<1>5. (-r) % 65536 = 65536 - r
  BY <1>1
<1> HIDE DEF r, k
<1>6. CASE k > 0
  <2>1. TzSet(TimeZone(m)) = 60 * k + (65536 - r)
    BY <1>1, <1>4, <1>5, <1>6 DEF TzSet
  <2>. QED  BY <1>1, <2>1
<1>7. CASE k = 0
  <2>1. TzSet(TimeZone(m)) = -(65536 - r)
    BY <1>1, <1>4, <1>5, <1>7 DEF TzSet
  <2>. QED  BY <1>1, <2>1
<1>. QED  BY <1>1, <1>6, <1>7

\* tzset is never given what it cannot turn into minutes.
LEMMA ZoneType ==
  ASSUME NEW m \in -720 .. 840
  PROVE  TzSet(TimeZone(m)) \in Int
<1>1. Remainder(-m, 60) \in Int
  BY DEF Remainder
<1>2. (-m - Remainder(-m, 60)) \div 60 \in Int
  BY <1>1
<1>. QED  BY <1>1, <1>2 DEF TimeZone, TzSet

-----------------------------------------------------------------------------
(* Every action keeps IInv                                                 *)

\* What follows from the types of the constants and of what is published.
LEMMA LatestType ==
  ASSUME TypeOK
  PROVE  /\ Latest \in Nat /\ MaxVersions \in Nat /\ Stopped \in Nat
         /\ highest \in Nat /\ response \in Nat /\ stored \in Nat /\ applied \in Nat
         /\ \A v \in 1 .. Latest : configs[v] \in Config /\ Offset[v] \in -720 .. 840
BY BoundsAssumption, OffsetAssumption DEF TypeOK, Latest, Stopped

\* What the server publishes comes after everything the device has seen.
LEMMA PublishKeeps ==
  ASSUME IInv, Publish
  PROVE  IInv'
<1>1. PICK c \in Config : configs' = Append(configs, c)
  BY DEF Publish
<1>2. UNCHANGED <<pc, main, bits, response, timer, applied, zone, stored, owed, highest, lossy,
               unread>>
  BY DEF Publish, ram, history
<1>3. /\ configs \in Seq(Config) /\ configs' \in Seq(Config)
      /\ Latest \in Nat /\ Latest' = Latest + 1 /\ Latest' \in 1 .. MaxVersions
      /\ \A v \in 1 .. Latest : configs'[v] = configs[v]
  BY <1>1, BoundsAssumption DEF IInv, TypeOK, Latest, Publish
<1>4. timer' \in {0, Stopped} \cup {v \in 1 .. Latest' : configs'[v].long}
  <2>1. CASE timer \in {0, Stopped}
    BY <1>2, <2>1
  <2>2. CASE timer \in {v \in 1 .. Latest : configs[v].long}
    <3>1. timer \in 1 .. Latest /\ configs[timer].long
      BY <2>2
    <3>2. timer \in 1 .. Latest' /\ configs'[timer] = configs[timer]
      BY <1>3, <3>1
    <3>. QED  BY <1>2, <3>1, <3>2, Zenon
  <2>. QED  BY <2>1, <2>2 DEF IInv, TypeOK
<1>5. TypeOK'
  BY <1>2, <1>3, <1>4 DEF IInv, TypeOK, Stopped
<1>6. Responded' /\ Newer' /\ Kept' /\ ConfigSurvivesRestart' /\ ZoneFollowsConfig'
  BY <1>2 DEF IInv, Responded, Newer, Kept, ConfigSurvivesRestart, ZoneFollowsConfig
<1>. QED  BY <1>5, <1>6 DEF IInv

\* RAM starts from nothing; flash and the server are as they were.
LEMMA RestartKeeps ==
  ASSUME IInv, Restart
  PROVE  IInv'
<1> USE DEF IInv, Restart
<1>1. TypeOK'
  <2>1. owed' \in BOOLEAN /\ lossy' \in BOOLEAN /\ unread' \in BOOLEAN
    BY DEF TypeOK
  <2>. QED  BY <2>1, LatestType DEF TypeOK, Latest, Stopped
<1>2. Responded' /\ Newer' /\ Kept' /\ ConfigSurvivesRestart' /\ ZoneFollowsConfig'
  BY DEF Responded, Newer, Kept, ConfigSurvivesRestart, ZoneFollowsConfig
<1>. QED  BY <1>1, <1>2

\* Event bits, the start of the timer and waiting say nothing about configurations.
LEMMA EventsKeep ==
  ASSUME IInv, \/ GotIp \/ LostIp \/ Disconnected \/ RequestRefresh \/ TimerCallback
               \/ InitRequests \/ InitStartsTimer \/ RegisterIpHandler \/ RegisterWifiHandler
               \/ WaitBoth \/ PollFails \/ Clear
  PROVE  IInv'
<1> USE DEF IInv, GotIp, LostIp, Disconnected, RequestRefresh, TimerCallback, Request,
            InitRequests, InitStartsTimer, RegisterIpHandler, RegisterWifiHandler, WaitBoth,
            PollFails, Clear, Go, history
<1>1. /\ UNCHANGED <<response, applied, zone, stored, configs, highest, lossy, unread>>
      /\ timer' \in {0, timer}
      /\ \/ pc' = pc
         \/ /\ pc \notin {"boot", "apply_stored", "handle"}
            /\ pc' \in {"register_wifi", "wait", "poll", "clear"}
  OBVIOUS
<1>2. TypeOK'
  <2>1. bits' \subseteq {"connected", "refresh"} /\ main' \in {"request", "start", "done"}
        /\ owed' \in BOOLEAN
    BY DEF TypeOK
  <2>. QED  BY <1>1, <2>1 DEF TypeOK, Latest, Stopped
<1>3. Responded' /\ Newer' /\ Kept' /\ ConfigSurvivesRestart' /\ ZoneFollowsConfig'
  BY <1>1 DEF Responded, Newer, Kept, ConfigSurvivesRestart, ZoneFollowsConfig
<1>. QED  BY <1>2, <1>3

\* Nothing stored means that nothing was ever applied, or that a write failed; what is
\* stored is applied, or unread.
LEMMA ReadStoredKeeps ==
  ASSUME IInv, ReadStored
  PROVE  IInv'
<1> USE DEF IInv, ReadStored, Go, history
<1>1. TypeOK'
  <2>1. unread' \in BOOLEAN
    BY DEF TypeOK
  <2>. QED  BY <2>1, LatestType DEF TypeOK, Latest, Stopped
<1>2. Responded' /\ Newer' /\ Kept' /\ ZoneFollowsConfig'
  BY LatestType DEF Responded, Newer, Kept, ZoneFollowsConfig
<1>3. ConfigSurvivesRestart'
  <2>1. CASE stored # 0
    <3>1. pc' = "apply_stored" \/ unread'
      BY <2>1
    <3>. QED  BY <3>1 DEF ConfigSurvivesRestart
  <2>2. CASE stored = 0
    <3>1. ~lossy => applied >= highest
      BY <2>2, LatestType DEF Kept
    <3>2. UNCHANGED <<applied, highest, lossy>>
      OBVIOUS
    <3>. QED  BY <3>1, <3>2 DEF ConfigSurvivesRestart
  <2>. QED  BY <2>1, <2>2
<1>. QED  BY <1>1, <1>2, <1>3

\* The answer is the latest configuration, so no older than what was applied.
LEMMA PollAnsweredKeeps ==
  ASSUME IInv, PollAnswered
  PROVE  IInv'
<1> USE DEF IInv, PollAnswered, Go
<1>1. TypeOK'
  <2>1. owed' \in BOOLEAN /\ lossy' \in BOOLEAN /\ unread' \in BOOLEAN
    BY DEF TypeOK
  <2>. QED  BY <2>1, LatestType DEF TypeOK, Latest, Stopped
<1>2. Responded' /\ Newer' /\ Kept'
  BY LatestType DEF Responded, Newer, Kept, TypeOK
<1>3. ConfigSurvivesRestart' /\ ZoneFollowsConfig'
  BY DEF ConfigSurvivesRestart, ZoneFollowsConfig
<1>. QED  BY <1>1, <1>2, <1>3

\* If the write succeeds, flash holds what is about to be handled.
LEMMA StoreKeeps ==
  ASSUME IInv, Store
  PROVE  IInv'
<1> USE DEF IInv, Store, Go
<1>1. TypeOK'
  <2>1. lossy' \in BOOLEAN /\ UNCHANGED <<owed, highest, unread>>
    BY DEF TypeOK
  <2>. QED  BY <2>1, LatestType DEF TypeOK, Latest, Stopped
<1>2. Responded' /\ Newer' /\ Kept' /\ ConfigSurvivesRestart' /\ ZoneFollowsConfig'
  BY LatestType DEF Responded, Newer, Kept, ConfigSurvivesRestart, ZoneFollowsConfig
<1>. QED  BY <1>1, <1>2

\* What is applied becomes what flash holds, and sets its own time zone.
LEMMA HandleKeeps ==
  ASSUME IInv, Handle
  PROVE  IInv'
<1> USE DEF IInv, Handle, Go
<1>1. response \in 1 .. Latest /\ Offset[response] \in -720 .. 840
  BY LatestType DEF Responded, TypeOK
<1>2. TypeOK'
  <2>1. zone' \in Int /\ highest' \in 0 .. Latest /\ unread' \in BOOLEAN
    BY <1>1, ZoneType DEF TypeOK
  <2>. QED  BY <1>1, <2>1 DEF TypeOK, Latest, Stopped
<1>3. Responded' /\ Newer'
  BY DEF Responded, Newer
<1>4. Kept' /\ ConfigSurvivesRestart'
  BY LatestType DEF Newer, Kept, ConfigSurvivesRestart
<1>5. ZoneFollowsConfig'
  <2>1. CASE Misprinted(Offset[response])
    BY <1>1, <2>1, ZoneMisread DEF ZoneFollowsConfig
  <2>2. CASE ~Misprinted(Offset[response])
    <3>1. Offset[response] < 0 \/ Offset[response] % 60 = 0
      BY <1>1, <2>2 DEF Misprinted
    <3>. QED  BY <1>1, <2>2, <3>1, ZoneRoundTrip DEF ZoneFollowsConfig
  <2>. QED  BY <2>1, <2>2
<1>. QED  BY <1>2, <1>3, <1>4, <1>5

-----------------------------------------------------------------------------
\* The inductive invariant: the way of a response from the server to flash and into
\* effect, and back from flash after a restart.
THEOREM Invariance == Spec => []IInv
<1>1. Init => IInv
  <2> SUFFICES ASSUME Init PROVE IInv
    OBVIOUS
  <2> USE DEF Init
  <2>1. PICK c \in Config : configs = <<c>>
    OBVIOUS
  <2>2. configs \in Seq(Config) /\ Len(configs) = 1
    BY <2>1
  <2>3. TypeOK
    <3>1. owed \in BOOLEAN /\ lossy \in BOOLEAN /\ unread \in BOOLEAN
      OBVIOUS
    <3>. QED  BY <2>2, <3>1, BoundsAssumption DEF TypeOK, Latest
  <2>4. Responded /\ Newer /\ Kept /\ ConfigSurvivesRestart /\ ZoneFollowsConfig
    BY DEF Responded, Newer, Kept, ConfigSurvivesRestart, ZoneFollowsConfig
  <2>. QED  BY <2>3, <2>4 DEF IInv
<1>2. IInv /\ [Next]_vars => IInv'
  <2> SUFFICES ASSUME IInv, [Next]_vars PROVE IInv'
    OBVIOUS
  <2>1. CASE UNCHANGED vars
    BY <2>1 DEF vars, ram, history, IInv, TypeOK, Latest, Stopped, Responded, Newer, Kept,
                ConfigSurvivesRestart, ZoneFollowsConfig
  <2>2. CASE PollTask
    BY <2>2, ReadStoredKeeps, PollAnsweredKeeps, StoreKeeps, HandleKeeps, RestartKeeps,
       EventsKeep DEF PollTask, Panic
  <2>3. CASE ~PollTask
    BY <2>1, <2>3, EventsKeep, PublishKeeps, RestartKeeps DEF Next, MainTask, PowerLoss
  <2>. QED  BY <2>2, <2>3
<1>. QED  BY <1>1, <1>2, PTL DEF Spec

-----------------------------------------------------------------------------
(* What follows from it                                                    *)

\* Only configurations that the server has published are handled, and only a long
\* enough period drives the timer.
THEOREM TypeCorrect == Spec => []TypeOK
BY Invariance, PTL DEF IInv

\* A configuration that was in effect is in effect again after every restart, unless the
\* latest answer could not be written to flash or this start could not read it.
THEOREM ConfigSurvives == Spec => []ConfigSurvivesRestart
BY Invariance, PTL DEF IInv

\* Local time is that of the configuration in effect where the TZ string is well formed,
\* and only there.
THEOREM ZoneFollows == Spec => []ZoneFollowsConfig
BY Invariance, PTL DEF IInv
=============================================================================
