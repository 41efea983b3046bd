-------------------------------- MODULE Boot --------------------------------
(***************************************************************************)
(* app/main.c and net/wifi/wifi.c: app_main creates the mutexes, queues,   *)
(* timers and tasks one by one while the tasks that exist already run; and *)
(* the default event loop tells the handlers that wifi_task, auth_task and *)
(* poll_task register, each in its own time, how the network fares.        *)
(*                                                                         *)
(* A task is a script: the sets of objects that its steps use, of which    *)
(* the last stands for its loop.                                           *)
(***************************************************************************)
EXTENDS Naturals, Sequences, SequencesExt

CONSTANT MaxRestarts  \* panics, failed ERROR_CHECKs and power losses

ASSUME RestartsAssumption == MaxRestarts \in Nat

VARIABLES
    boot,      \* steps of app_main done
    step,      \* [task -> steps of its script done]
    events,    \* the queue of the default event loop
    link,      \* what the Wi-Fi driver does
    leased,    \* the interface has an address
    bits,      \* [Listeners -> the network bits of the task's event group]
    missed,    \* (history) listeners that were not registered for the last GOT_IP
    inRange,   \* the access point can be reached
    restarts

network == <<events, link, leased>>
heard   == <<bits, missed>>
vars == <<boot, step, network, heard, inRange, restarts>>

\* Variant: the device id gets its mutex after the tasks that use it.
BootSequenceIdentityLast == <<
    "event_loop", "nvs",
    "wifi_event_group_", "wifi_task",
    "http2_mutex_", "http2_event_queue_", "http2_task",
    "auth_event_group_", "auth_refresh_timer_", "auth_task",
    "poll_event_group_", "poll_refresh_timer_", "poll_task",
    "lights_task", "device_id_mutex_", "am2320_handle_", "measurements_task">>

\* What app_main creates, in this order; a task runs once it is created.
BootSequence == <<
    "event_loop", "nvs",
    "wifi_event_group_", "wifi_task",
    "http2_mutex_", "http2_event_queue_", "http2_task",
    "auth_event_group_", "auth_refresh_timer_", "auth_task",
    "device_id_mutex_",
    "poll_event_group_", "poll_refresh_timer_", "poll_task",
    "lights_task", "am2320_handle_", "measurements_task">>

Http2 == {"http2_mutex_", "http2_event_queue_"}

\* wifi_task_ registers its handlers, reads its configuration, starts and waits.
WifiScript == <<{"event_loop"}, {"nvs"}, {}, {"wifi_event_group_"}>>

AuthScript == <<{"event_loop"}, {"auth_event_group_", "nvs"} \cup Http2>>

\* poll_task_ reads what is stored, applies it, registers its handlers and polls.
PollScript ==
    <<{"nvs"}, {"device_id_mutex_", "poll_refresh_timer_"}, {"event_loop"},
      {"poll_event_group_", "nvs", "device_id_mutex_", "poll_refresh_timer_"} \cup Http2>>

MeasurementsScript == <<{"am2320_handle_", "device_id_mutex_", "nvs"} \cup Http2>>

Script == [wifi_task |-> WifiScript, http2_task |-> <<{"http2_event_queue_"}>>,
           auth_task |-> AuthScript, poll_task |-> PollScript, lights_task |-> <<{}>>,
           measurements_task |-> MeasurementsScript]

Tasks     == DOMAIN Script
Created   == ToSet(SubSeq(BootSequence, 1, boot))
Listeners == {"wifi_task", "auth_task", "poll_task"}

\* Past the first use of the event loop.
Registered(t) == \E i \in 1 .. step[t] : "event_loop" \in Script[t][i]

Init ==
    /\ boot = 0 /\ step = [t \in Tasks |-> 0]
    /\ events = <<>> /\ link = "off" /\ leased = FALSE
    /\ bits = [t \in Listeners |-> {}] /\ missed = {}
    /\ inRange \in BOOLEAN /\ restarts = 0

\* A panic, a power loss, or an initialisation that fails under ERROR_CHECK.
Restart ==
    /\ restarts < MaxRestarts /\ restarts' = restarts + 1
    /\ boot' = 0 /\ step' = [t \in Tasks |-> 0]
    /\ events' = <<>> /\ link' = "off" /\ leased' = FALSE
    /\ bits' = [t \in Listeners |-> {}] /\ missed' = {}
    /\ UNCHANGED inRange

-----------------------------------------------------------------------------
AppMain ==
    /\ boot < Len(BootSequence)
    /\ boot' = boot + 1
    /\ UNCHANGED <<step, network, heard, inRange, restarts>>

Proceed(t) ==
    /\ t \in Created
    /\ step[t] < Len(Script[t])
    /\ step' = [step EXCEPT ![t] = @ + 1]

Run(t) ==
    /\ Proceed(t)
    /\ t = "wifi_task" => step[t] < 2
    /\ UNCHANGED <<boot, network, heard, inRange, restarts>>

\* esp_wifi_start
WifiStart ==
    /\ step["wifi_task"] = 2
    /\ Proceed("wifi_task")
    /\ link' = "idle" /\ events' = Append(events, "start")
    /\ UNCHANGED <<boot, leased, heard, inRange, restarts>>

\* The loop of wifi_task waits for a bit, and clears both to log one line.
WifiWaits ==
    /\ step["wifi_task"] = 3 /\ bits["wifi_task"] # {}
    /\ Proceed("wifi_task")
    /\ UNCHANGED <<boot, network, heard, inRange, restarts>>

WifiClears ==
    /\ step["wifi_task"] = 4
    /\ step' = [step EXCEPT !["wifi_task"] = 3]
    /\ bits' = [bits EXCEPT !["wifi_task"] = {}]
    /\ UNCHANGED <<boot, network, missed, inRange, restarts>>

-----------------------------------------------------------------------------
(* The event loop                                                          *)

\* What the handlers make of their bits: wifi_event_handler_ only sets them;
\* auth_event_handler_ and poll_event_handler_ follow the connection.
Handled(t, event) ==
    CASE event = "got_ip" -> bits[t] \cup {"connected"}
      [] event = "disconnected" /\ t = "wifi_task" -> bits[t] \cup {"fail"}
      [] event \in {"disconnected", "lost_ip"} /\ t # "wifi_task" -> bits[t] \ {"connected"}
      [] OTHER -> bits[t]

Hear(event) ==
    /\ events # <<>> /\ event = Head(events) /\ events' = Tail(events)
    /\ bits' = [t \in Listeners |-> IF Registered(t) THEN Handled(t, event) ELSE bits[t]]
    /\ missed' = IF event = "got_ip" THEN {t \in Listeners : ~Registered(t)} ELSE missed
    /\ UNCHANGED <<boot, step, leased, inRange, restarts>>

\* Variant: a connection that fails is not tried again.
DispatchConnectsOnce ==
    \E event \in {"start", "disconnected", "got_ip", "lost_ip"} :
        /\ Hear(event)
        /\ link' = IF Registered("wifi_task") /\ event = "start" THEN "connecting" ELSE link

\* One event to all its handlers; wifi_event_handler_ calls esp_wifi_connect.
Dispatch ==
    \E event \in {"start", "disconnected", "got_ip", "lost_ip"} :
        /\ Hear(event)
        /\ link' = IF Registered("wifi_task") /\ event \in {"start", "disconnected"}
                   THEN "connecting" ELSE link

-----------------------------------------------------------------------------
(* The Wi-Fi driver, the interface and the world                           *)

Driver(from, to, event) ==
    /\ link = from /\ link' = to
    /\ events' = Append(events, event)
    /\ UNCHANGED <<boot, step, heard, inRange, restarts>>

Associate    == inRange /\ Driver("connecting", "associated", "got_ip") /\ leased' = TRUE
ConnectFails == Driver("connecting", "idle", "disconnected") /\ UNCHANGED leased
LinkLost     == ~inRange /\ Driver("associated", "idle", "disconnected") /\ UNCHANGED leased

\* The address of an interface that has been down for some time.
LeaseLost ==
    /\ leased /\ link # "associated"
    /\ leased' = FALSE
    /\ events' = Append(events, "lost_ip")
    /\ UNCHANGED <<boot, step, link, heard, inRange, restarts>>

Roam == inRange' = ~inRange /\ UNCHANGED <<boot, step, network, heard, restarts>>

-----------------------------------------------------------------------------
WifiTask == WifiStart \/ WifiWaits \/ WifiClears
Network  == Associate \/ ConnectFails \/ LinkLost \/ LeaseLost

Next == AppMain \/ (\E t \in Tasks : Run(t)) \/ WifiTask \/ Dispatch \/ Network \/ Roam \/ Restart

Spec == Init /\ [][Next]_vars

\* Ready tasks run, the event loop's among them.  An access point that can be
\* reached is reached by one of the attempts to connect.
Fairness ==
    /\ WF_vars(AppMain) /\ WF_vars(Dispatch) /\ WF_vars(WifiTask)
    /\ \A t \in Tasks : WF_vars(Run(t))
    /\ SF_vars(Associate)

FairSpec == Spec /\ Fairness

-----------------------------------------------------------------------------
(* What must hold                                                          *)

\* No task, however early it runs, uses a mutex, a queue, a timer or an event group
\* that app_main has not created; nor does a handler, which runs in the event
\* loop's task as soon as it is registered.
InitBeforeUse ==
    /\ \A t \in Tasks : \A i \in 1 .. step[t] : Script[t][i] \subseteq Created
    /\ Registered("wifi_task") => "wifi_event_group_" \in Created
    /\ Registered("auth_task") => "auth_event_group_" \in Created
    /\ Registered("poll_task") => "poll_event_group_" \in Created

\* Once the access point stays in reach the device is connected for good, and auth
\* and poll know it, unless they registered after the address had come: a task
\* that did does nothing before the connection is lost and comes back.
LinkRegained ==
    <>[]inRange => <>[]( /\ link = "associated"
                         /\ \A t \in {"auth_task", "poll_task"} :
                               "connected" \in bits[t] \/ t \in missed )
=============================================================================
