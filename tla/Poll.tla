-------------------------------- MODULE Poll --------------------------------
(***************************************************************************)
(* app/poll.c: poll_task asks the server for the device's configuration    *)
(* when the timer or the console requests it, keeps the response in flash, *)
(* applies it, and applies the stored one after a restart.                 *)
(*                                                                         *)
(* The server publishes configurations one after the other and a poll is   *)
(* answered with the latest, named by its number.  Two attributes of a     *)
(* configuration steer the code: whether the messages it dereferences      *)
(* (light_config, poll_period) are present, and whether the poll period is *)
(* long enough for the timer to be restarted with it.                      *)
(***************************************************************************)
EXTENDS Integers, Sequences

CONSTANTS
    MaxVersions,  \* configurations the server publishes
    Offset,       \* [1 .. MaxVersions -> timezone_offset_minutes of each]
    MaxCrashes    \* power losses (a panic restarts the device without limit)

ASSUME BoundsAssumption == MaxVersions \in Nat \ {0} /\ MaxCrashes \in Nat
ASSUME OffsetAssumption == Offset \in [1 .. MaxVersions -> -720 .. 840]

VARIABLES
    pc,        \* where poll_task stands
    main,      \* where app_poll_init stands, in the main task
    bits,      \* poll_event_group_
    response,  \* the configuration being handled, 0 for a NULL response
    timer,     \* poll_refresh_timer_: "stopped", or whose period it runs on
    applied,   \* the configuration handed to identity, time zone and lights
    zone,      \* what the C library takes local time to be ahead of UTC, in minutes
    stored,    \* "poll_response" in flash, 0 if absent
    configs,   \* what the server has published
    owed,      \* (history) a poll was requested since the last answer was made
    highest,   \* (history) the newest configuration ever applied
    lossy,     \* (history) the latest answer could not be written to flash
    unread,    \* (history) flash has a response that could not be read at this start
    crashes

ram == <<pc, main, bits, response, timer, applied, zone>>
history == <<owed, highest, lossy, unread>>
vars == <<ram, stored, configs, history, crashes>>

Config   == [complete : BOOLEAN, long : BOOLEAN]
Versions == 0 .. MaxVersions
Stopped  == MaxVersions + 1
Latest   == Len(configs)

TypeOK ==
    /\ pc \in {"boot", "apply_stored", "register", "register_wifi", "wait", "poll", "store", "handle",
              "clear"}
    /\ main \in {"request", "start", "done"}
    /\ bits \subseteq {"connected", "refresh"}
    /\ response \in 0 .. Latest /\ applied \in 0 .. Latest /\ stored \in 0 .. Latest
    /\ zone \in Int
    /\ timer \in {0, Stopped} \cup {v \in 1 .. Latest : configs[v].long}
    /\ configs \in Seq(Config) /\ Latest \in 1 .. MaxVersions
    /\ owed \in BOOLEAN /\ highest \in 0 .. Latest /\ lossy \in BOOLEAN /\ unread \in BOOLEAN

Init ==
    /\ pc = "boot" /\ main = "request" /\ bits = {}
    /\ response = 0 /\ timer = Stopped /\ applied = 0 /\ zone = 0
    /\ stored = 0
    /\ configs \in {<<c>> : c \in Config}
    /\ owed = FALSE /\ highest = 0 /\ lossy = FALSE /\ unread = FALSE
    /\ crashes = 0

\* Power loss or panic; what is in flash stays.
Restart ==
    /\ pc' = "boot" /\ main' = "request" /\ bits' = {}
    /\ response' = 0 /\ timer' = Stopped /\ applied' = 0 /\ zone' = 0
    /\ owed' = FALSE /\ unread' = FALSE
    /\ UNCHANGED <<stored, configs, highest, lossy>>

Go(from, to) == pc = from /\ pc' = to

-----------------------------------------------------------------------------
(* Other tasks                                                             *)

Publish ==
    /\ Latest < MaxVersions
    /\ \E c \in Config : configs' = Append(configs, c)
    /\ UNCHANGED <<ram, stored, history, crashes>>

PowerLoss ==
    /\ crashes < MaxCrashes
    /\ crashes' = crashes + 1
    /\ Restart

\* The handlers are registered by the task itself, after the stored response: the one
\* for IP events first, then the one for the loss of the access point.
IpRegistered   == pc \notin {"boot", "apply_stored", "register"}
WifiRegistered == IpRegistered /\ pc # "register_wifi"

GotIp ==
    /\ bits' = IF IpRegistered THEN bits \cup {"connected"} ELSE bits
    /\ UNCHANGED <<pc, main, response, timer, applied, zone, stored, configs, history, crashes>>

LostIp ==
    /\ bits' = IF IpRegistered THEN bits \ {"connected"} ELSE bits
    /\ UNCHANGED <<pc, main, response, timer, applied, zone, stored, configs, history, crashes>>

Disconnected ==
    /\ bits' = IF WifiRegistered THEN bits \ {"connected"} ELSE bits
    /\ UNCHANGED <<pc, main, response, timer, applied, zone, stored, configs, history, crashes>>

\* A request that comes before the server has made up the answer to the poll in
\* progress is served by that answer.
Request ==
    /\ bits' = bits \cup {"refresh"}
    /\ owed' = IF pc = "poll" THEN owed ELSE TRUE
    /\ UNCHANGED <<pc, response, applied, zone, stored, configs, highest, lossy, unread, crashes>>

\* poll_request_refresh, from the console once app_main is through
RequestRefresh == main = "done" /\ Request /\ UNCHANGED <<main, timer>>

\* Variant: the timer is started once instead of periodically.
TimerCallbackOnce ==
    /\ timer # Stopped
    /\ timer' = Stopped
    /\ Request
    /\ UNCHANGED main

\* poll_timer_callback_
TimerCallback == timer # Stopped /\ Request /\ UNCHANGED <<main, timer>>

\* The end of app_poll_init: the first request, then the hourly timer.  The task
\* has a higher priority than main and may be anywhere by now.
InitRequests ==
    /\ main = "request" /\ main' = "start"
    /\ Request
    /\ UNCHANGED timer

InitStartsTimer ==
    /\ main = "start" /\ main' = "done"
    /\ timer' = 0
    /\ UNCHANGED <<pc, bits, response, applied, zone, stored, configs, history, crashes>>

-----------------------------------------------------------------------------
(* poll_task_                                                              *)

\* poll_read_response_from_storage_.  Where flash cannot be opened or read, or what it
\* has is not unpacked (for want of memory), the task goes on without.
ReadStored ==
    /\ \/ stored # 0 /\ Go("boot", "apply_stored") /\ response' = stored
          /\ UNCHANGED unread
       \/ Go("boot", "register") /\ unread' = (stored # 0) /\ UNCHANGED response
    /\ UNCHANGED <<main, bits, timer, applied, zone, stored, configs, owed, highest, lossy,
                   crashes>>

RegisterIpHandler ==
    /\ Go("register", "register_wifi")
    /\ UNCHANGED <<main, bits, response, timer, applied, zone, stored, configs, history, crashes>>

RegisterWifiHandler ==
    /\ Go("register_wifi", "wait")
    /\ UNCHANGED <<main, bits, response, timer, applied, zone, stored, configs, history, crashes>>

WaitBoth ==
    /\ {"connected", "refresh"} \subseteq bits
    /\ Go("wait", "poll")
    /\ UNCHANGED <<main, bits, response, timer, applied, zone, stored, configs, history, crashes>>

\* Variant: the response takes effect before it is in flash.
PollAnsweredAndApplied ==
    /\ Go("poll", "store")
    /\ response' = Latest /\ owed' = FALSE
    /\ applied' = Latest /\ highest' = Latest
    /\ UNCHANGED <<main, bits, timer, zone, stored, configs, lossy, unread, crashes>>

\* The call succeeds with the configuration the server has at that moment.
PollAnswered ==
    /\ Go("poll", "store")
    /\ response' = Latest
    /\ owed' = FALSE
    /\ UNCHANGED <<main, bits, timer, applied, zone, stored, configs, highest, lossy, unread,
                   crashes>>

\* A status other than OK, or OK with a message that does not unpack (NULL,
\* which the writer and the handler both pass over).
PollFails ==
    /\ Go("poll", "clear")
    /\ owed' = FALSE
    /\ UNCHANGED <<main, bits, response, timer, applied, zone, stored, configs, highest, lossy,
                   unread, crashes>>

\* poll_write_response_to_storage_, whose result nobody looks at.
Store ==
    /\ Go("store", "handle")
    /\ \/ stored' = response /\ lossy' = FALSE
       \/ lossy' = TRUE /\ UNCHANGED stored
    /\ UNCHANGED <<main, bits, response, timer, applied, zone, configs, owed, highest, unread,
                   crashes>>

\* The C remainder has the sign of the dividend.
Remainder(a, b) == IF a >= 0 THEN a % b ELSE -((-a) % b)

\* Variant: the sign is not inverted.
TimeZoneInLine(minutes) ==
    LET min == Remainder(minutes, 60) IN [hour |-> (minutes - min) \div 60, min |-> min]

\* poll_set_timezone_: the numbers it prints as "XXX%+03d:%02d", to the west of UTC.
TimeZone(minutes) ==
    LET offset == -minutes
        min    == Remainder(offset, 60)
    IN  [hour |-> (offset - min) \div 60, min |-> min]

\* tzset reads a sign and two unsigned shorts; the sign is that of the hour, which is
\* printed "+00" when it is zero.
TzSet(tz) ==
    LET west == 60 * (IF tz.hour < 0 THEN -tz.hour ELSE tz.hour) + (tz.min % 65536)
    IN  IF tz.hour < 0 THEN west ELSE -west

\* Variant: a configuration without poll_period is left alone half-way.
HandleSkipsIncomplete ==
    /\ Go("handle", "clear") \/ Go("apply_stored", "register")
    /\ IF configs[response].complete THEN applied' = response /\ highest' = response
                                          /\ zone' = TzSet(TimeZone(Offset[response]))
                                     ELSE UNCHANGED <<applied, zone, highest>>
    /\ UNCHANGED <<main, bits, response, timer, stored, configs, owed, lossy, unread, crashes>>

\* Variant: every period is given to the timer, however short.
HandleAnyPeriod ==
    /\ Go("handle", "clear") \/ Go("apply_stored", "register")
    /\ configs[response].complete
    /\ applied' = response /\ zone' = TzSet(TimeZone(Offset[response]))
    /\ highest' = IF response > highest THEN response ELSE highest
    /\ timer' = IF timer # Stopped THEN response ELSE timer
    /\ unread' = FALSE
    /\ UNCHANGED <<main, bits, response, stored, configs, owed, lossy, crashes>>

\* poll_handle_response_: identity, time zone and lights, then the timer, which
\* esp_timer_restart leaves alone if it is not running.
Handle ==
    /\ Go("handle", "clear") \/ Go("apply_stored", "register")
    /\ configs[response].complete
    /\ applied' = response /\ zone' = TzSet(TimeZone(Offset[response]))
    /\ highest' = IF response > highest THEN response ELSE highest
    /\ timer' = IF configs[response].long /\ timer # Stopped THEN response ELSE timer
    /\ unread' = FALSE
    /\ UNCHANGED <<main, bits, response, stored, configs, owed, lossy, crashes>>

\* A NULL light_config or poll_period is dereferenced: panic and restart.
Panic ==
    /\ pc \in {"handle", "apply_stored"}
    /\ ~configs[response].complete
    /\ Restart
    /\ UNCHANGED crashes

\* Cleared after the poll, with any request that came in during it.
Clear ==
    /\ Go("clear", "wait")
    /\ bits' = bits \ {"refresh"}
    /\ UNCHANGED <<main, response, timer, applied, zone, stored, configs, history, crashes>>

-----------------------------------------------------------------------------
PollTask == ReadStored \/ RegisterIpHandler \/ RegisterWifiHandler \/ WaitBoth \/ PollAnswered
            \/ PollFails \/ Store \/ Handle \/ Panic \/ Clear
MainTask == InitRequests \/ InitStartsTimer

Next == PollTask \/ MainTask \/ TimerCallback \/ RequestRefresh \/ GotIp \/ LostIp
        \/ Disconnected \/ Publish \/ PowerLoss

Spec == Init /\ [][Next]_vars

\* Ready tasks run and a periodic timer keeps firing.
Fairness == WF_vars(PollTask) /\ WF_vars(MainTask) /\ WF_vars(TimerCallback)

\* A server that is asked again and again answers in the end.
FairSpec == Spec /\ Fairness /\ SF_vars(PollAnswered)
-----------------------------------------------------------------------------
(* What must hold                                                          *)

\* A configuration that has been in effect is in effect again once poll_task has come up
\* after a power loss or a panic: the response is stored before it is handled.  Only two
\* failures excuse it, a write of the latest answer that failed and was not made good by a
\* later one, and a read that failed at this very start, until the next answer is handled.
ConfigSurvivesRestart ==
    pc \notin {"boot", "apply_stored", "handle"} => applied >= highest \/ lossy \/ unread

\* A positive offset with minutes is printed with a sign of their own: "XXX-05:-30".
Misprinted(minutes) == minutes > 0 /\ minutes % 60 # 0

\* Local time, by which the lights are switched, is that of the configuration in effect
\* (UTC + offset, device.proto:69), after a restart too, for exactly the offsets whose TZ
\* string is well formed: wherever the offset is +05:30 it is wrong.
ZoneFollowsConfig ==
    applied # 0 => (zone = Offset[applied] <=> ~Misprinted(Offset[applied]))

\* On a connection that stays up, a request for a poll is followed by a poll.
\* Clear can lose the bit of a request; the periodic timer makes up for it.
RequestsServed ==
    <>[]("connected" \in bits) => (owed ~> ~owed)

\* On a connection that stays up (which a device that restarts again and again
\* does not have), what the server published last is put into effect.
ConfigConverges ==
    <>[]("connected" \in bits) => []<>(applied = Latest)

\* poll.c:31: "EventBiT: a Poll was requested (manually, or the timer elapsed)".
\* While a request has not been answered by a poll, the bit says so.
RequestOnRecord == owed => "refresh" \in bits
=============================================================================
