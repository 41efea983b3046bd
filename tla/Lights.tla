------------------------------- MODULE Lights -------------------------------
(***************************************************************************)
(* app/lights.c: poll_task hands a clone of every configuration to         *)
(* lights_task through the unprotected pointer incoming_light_config.      *)
(* lights_task adopts it, frees the one it replaces, and drives one GPIO   *)
(* per luminaire by the schedules of the configuration it has adopted.     *)
(*                                                                         *)
(* lights_task has the lower priority: poll_task can replace the pointer   *)
(* between any two of its reads.                                           *)
(***************************************************************************)
EXTENDS Naturals, Sequences

CONSTANTS
    Addresses,   \* where protobuf_c_message_unpack can put a configuration
    LightConfig, \* configurations: sequences of luminaires
    Day,         \* seconds in a day, in a coarser unit
    None         \* NULL

Daytime   == 0 .. Day - 1
Schedule  == [start : Daytime, stop : Daytime, intensity : 0 .. 255]
\* What the SDK makes of a pin number above 63 is undefined.
Luminaire == [port : 0 .. 63, active_high : BOOLEAN, photo_period : SUBSET Schedule]

ASSUME DayAssumption == Day \in Nat \ {0}
ASSUME LightConfigAssumption == LightConfig \subseteq Seq(Luminaire)
ASSUME NoneAssumption == None \notin Addresses \cup LightConfig

\* The GPIOs of an ESP32-S2, of which the last is an input.
ValidGpio  == (0 .. 21) \cup (26 .. 46)
OutputGpio == ValidGpio \ {46}

VARIABLES
    pc,        \* where lights_task stands
    incoming,  \* incoming_light_config
    adopted,   \* light_config
    new,       \* the new_config that the pins are being reconfigured for
    heap,      \* [Addresses -> LightConfig or None] what is allocated
    timeinfo,  \* the time of day lights_task works with
    outputs,   \* the pins that are enabled as outputs
    high,      \* the pins that are set high, outputs or not
    dropped,   \* (history) replaced before they were adopted
    drift      \* (history) pins that a reconfiguration for another configuration left apart

task == <<pc, adopted, new, timeinfo>>
pins == <<outputs, high>>
history == <<dropped, drift>>
vars == <<task, incoming, heap, pins, history>>

Labels == {"wait", "take", "first", "time", "recompute", "compare", "argument", "reconfigure",
           "free", "adopt", "recompute_again", "sleep"}
Live   == {a \in Addresses : heap[a] # None}

Luminaires(a) == {heap[a][i] : i \in DOMAIN heap[a]}

\* 1 << port shifts an int by the low five bits of port.  Bit 31 is its sign, which
\* widens to all the bits above when the mask becomes 64 bits long.
Mask(port) == IF port % 32 = 31 THEN 31 .. 63 ELSE {port % 32}

\* lights_compute_pin_mask_
PinsOf(a) == IF a = None THEN {} ELSE UNION {Mask(l.port) : l \in Luminaires(a)}

TypeOK ==
    /\ pc \in Labels
    /\ {incoming, adopted, new} \subseteq Addresses \cup {None}
    /\ heap \in [Addresses -> LightConfig \cup {None}]
    /\ timeinfo \in Daytime
    /\ outputs \subseteq OutputGpio /\ high \subseteq OutputGpio
    /\ dropped \subseteq Addresses /\ drift \subseteq 0 .. 63

Init ==
    /\ pc = "wait" /\ incoming = None /\ adopted = None /\ new = None
    /\ heap = [a \in Addresses |-> None]
    /\ timeinfo = 0
    /\ outputs = {} /\ high = {}
    /\ dropped = {} /\ drift = {}

Go(from, to) == pc = from /\ pc' = to

-----------------------------------------------------------------------------
(* lights_update_config, in poll_task                                      *)

\* Whatever the pointer held is forgotten; only lights_task frees, and only what
\* it has adopted.  At "adopt" its own pointer dangles.
Replace(a) ==
    /\ incoming' = a
    /\ dropped' = IF incoming = None \/ (incoming = adopted /\ pc # "adopt")
                  THEN dropped ELSE dropped \cup {incoming}

\* Variant: what is replaced is freed, as if lights_task could not have it.
UpdateFrees ==
    /\ \E a \in Addresses \ Live, config \in LightConfig :
          /\ heap' = [heap EXCEPT ![incoming] = None, ![a] = config]
          /\ Replace(a)
    /\ UNCHANGED <<task, pins, drift>>

UpdateConfig ==
    /\ \E a \in Addresses \ Live, config \in LightConfig :
          /\ heap' = [heap EXCEPT ![a] = config]
          /\ Replace(a)
    /\ UNCHANGED <<task, pins, drift>>

\* The clone cannot be allocated: the pointer is overwritten all the same.
UpdateFails ==
    /\ Live = Addresses
    /\ Replace(None)
    /\ UNCHANGED <<task, heap, pins, drift>>

-----------------------------------------------------------------------------
(* lights_task_                                                            *)

WaitForConfig ==
    /\ incoming # None
    /\ Go("wait", "take")
    /\ UNCHANGED <<incoming, adopted, new, heap, timeinfo, pins, history>>

\* A second read of the pointer.
TakeFirst ==
    /\ Go("take", "first")
    /\ adopted' = incoming
    /\ UNCHANGED <<incoming, new, heap, timeinfo, pins, history>>

\* The luminaires whose pins are not among those of the old configuration.
Entering(old, config) == {l \in Luminaires(config) : Mask(l.port) \cap PinsOf(old) = {}}
Leaving(old, config)  == PinsOf(old) \ PinsOf(config)

\* gpio_config and gpio_set_level refuse a pin that the chip does not have.
Refused(old, config) ==
    \/ ~(Leaving(old, config) \subseteq ValidGpio)
    \/ \E l \in Entering(old, config) : ~({l.port} \cup Mask(l.port) \subseteq OutputGpio)

\* Variant: pins that leave the configuration stay enabled.
EnableOnly(old, config) ==
    /\ config # None
    /\ ~Refused(old, config)
    /\ outputs' = outputs \cup UNION {Mask(l.port) : l \in Entering(old, config)}
    /\ high' = high \ {l.port : l \in Entering(old, config)}
    /\ drift' = drift \ (Leaving(old, config) \cup Leaving(config, old))

\* lights_reconfigure_gpio_: what leaves the configuration is disabled, what enters it is
\* set low and enabled.  These pins are right now, whatever they were.
ReconfigureGpio(old, config) ==
    /\ config # None
    /\ ~Refused(old, config)
    /\ outputs' = (outputs \ Leaving(old, config))
                      \cup UNION {Mask(l.port) : l \in Entering(old, config)}
    /\ high' = high \ {l.port : l \in Entering(old, config)}
    /\ drift' = drift \ (Leaving(old, config) \cup Leaving(config, old))

ReconfigureFirst ==
    /\ Go("first", "time")
    /\ ReconfigureGpio(None, adopted)
    /\ UNCHANGED <<incoming, adopted, new, heap, timeinfo, dropped>>

\* Variant: the day has one moment too many.
ReadTimeInclusive ==
    /\ Go("time", "recompute")
    /\ timeinfo' \in 0 .. Day
    /\ UNCHANGED <<incoming, adopted, new, heap, pins, history>>

ReadTime ==
    /\ Go("time", "recompute")
    /\ timeinfo' \in Daytime
    /\ UNCHANGED <<incoming, adopted, new, heap, pins, history>>

IsInSchedule(now, schedule) == schedule.start <= now /\ now < schedule.stop

\* Active in any of the photo periods, whatever their intensity; inverted for an
\* active-low luminaire.
Signal(l, now) == l.active_high <=> \E s \in l.photo_period : IsInSchedule(now, s)

\* The last luminaire of each port has the last word.
LastOnPort(a) ==
    {heap[a][i] : i \in {i \in DOMAIN heap[a] :
                            \A j \in DOMAIN heap[a] : heap[a][j].port = heap[a][i].port => j <= i}}

\* lights_recompute_, before and after a new configuration is adopted.  The refusal of a
\* port that the chip does not have is ignored here.
Recompute ==
    /\ adopted # None
    /\ Go("recompute", "compare") \/ Go("recompute_again", "sleep")
    /\ LET driven == {l \in LastOnPort(adopted) : l.port \in OutputGpio}
       IN  high' = (high \ {l.port : l \in driven})
                     \cup {l.port : l \in {l \in driven : Signal(l, timeinfo)}}
    /\ UNCHANGED <<incoming, adopted, new, heap, timeinfo, outputs, history>>

\* Variant: only the first configuration is ever adopted.
CompareToNothing ==
    /\ Go("compare", IF adopted = None THEN "argument" ELSE "sleep")
    /\ UNCHANGED <<incoming, adopted, new, heap, timeinfo, pins, history>>

Compare ==
    /\ Go("compare", IF adopted # incoming THEN "argument" ELSE "sleep")
    /\ UNCHANGED <<incoming, adopted, new, heap, timeinfo, pins, history>>

\* The pointer may be read again for the argument of the call.
TakeArgument ==
    /\ Go("argument", "reconfigure")
    /\ new' = incoming
    /\ UNCHANGED <<incoming, adopted, heap, timeinfo, pins, history>>

Reconfigure ==
    /\ Go("reconfigure", "free")
    /\ ReconfigureGpio(adopted, new)
    /\ UNCHANGED <<incoming, adopted, new, heap, timeinfo, dropped>>

\* Variant: the configuration that is replaced is not freed.
FreeNothing ==
    /\ Go("free", "adopt")
    /\ UNCHANGED <<incoming, adopted, new, heap, timeinfo, pins, history>>

FreeOld ==
    /\ Go("free", "adopt")
    /\ heap' = [heap EXCEPT ![adopted] = None]
    /\ UNCHANGED <<incoming, adopted, new, timeinfo, pins, history>>

\* And read once more.  If it has changed since, the pins that the two configurations do
\* not share are not what the adopted one asks for: those that were, stop being so.
Adopt ==
    /\ Go("adopt", "recompute_again")
    /\ adopted' = incoming /\ new' = None
    /\ LET apart == Leaving(new, incoming) \cup Leaving(incoming, new)
       IN  drift' = (drift \ apart) \cup (apart \ drift)
    /\ UNCHANGED <<incoming, heap, timeinfo, pins, dropped>>

Sleep ==
    /\ Go("sleep", "time")
    /\ UNCHANGED <<incoming, adopted, new, heap, timeinfo, pins, history>>

\* NULL is dereferenced, or ERROR_CHECK meets a refusal: the device restarts.
Panic ==
    /\ \/ pc \in {"first", "recompute_again"} /\ adopted = None
       \/ pc = "reconfigure" /\ new = None
       \/ pc = "first" /\ adopted # None /\ Refused(None, adopted)
       \/ pc = "reconfigure" /\ new # None /\ Refused(adopted, new)
    /\ pc' = "wait" /\ incoming' = None /\ adopted' = None /\ new' = None
    /\ heap' = [a \in Addresses |-> None]
    /\ timeinfo' = 0
    /\ outputs' = {} /\ high' = {}
    /\ dropped' = {} /\ drift' = {}

-----------------------------------------------------------------------------
LightsTask == WaitForConfig \/ TakeFirst \/ ReconfigureFirst \/ ReadTime \/ Recompute \/ Compare
              \/ TakeArgument \/ Reconfigure \/ FreeOld \/ Adopt \/ Sleep \/ Panic

Next == LightsTask \/ UpdateConfig \/ UpdateFails

Spec == Init /\ [][Next]_vars

\* lights_task runs whenever it is ready and its delay is over.
FairSpec == Spec /\ WF_vars(LightsTask)

-----------------------------------------------------------------------------
(* What must hold                                                          *)

\* lights_task never reads a configuration that is not allocated, although it
\* frees one while poll_task allocates others: what it has adopted is alive
\* until it frees it, and so is the one it reconfigures for.
AdoptedAlive ==
    /\ adopted # None /\ pc # "adopt" => adopted \in Live
    /\ pc = "reconfigure" /\ new # None => new \in Live

\* The only configurations that are leaked are those that poll_task replaced
\* before lights_task had adopted them.
OnlyDroppedLeak ==
    Live \subseteq dropped \cup {incoming} \cup (IF pc = "adopt" THEN {} ELSE {adopted})

\* In some photo period, but in none that asks for light.
Dark(l, now) ==
    LET current == {s \in l.photo_period : IsInSchedule(now, s)}
    IN  current # {} /\ \A s \in current : s.intensity = 0

\* What device.proto:140 asks for: any intensity but zero is "fully-on".
Asked(l, now) ==
    l.active_high <=> \E s \in l.photo_period : IsInSchedule(now, s) /\ s.intensity # 0

\* The pins enabled as outputs are the ports of the configuration in use, modulo 32,
\* apart from those on which a race with poll_task has left them: such a pin stays wrong
\* until a configuration takes it in or leaves it out.  And each luminaire whose port
\* exists has the level its schedules ask for, at the time last read, except for exactly
\* those that only periods of zero intensity are in progress for: these are lit.
OutputsFollowConfig ==
    pc = "sleep" =>
        /\ outputs \ drift = {l.port % 32 : l \in Luminaires(adopted)} \ drift
        /\ \A l \in LastOnPort(adopted) :
              l.port \in OutputGpio =>
                  ((l.port \in high <=> Asked(l, timeinfo)) <=> ~Dark(l, timeinfo))

\* A configuration that is handed over is adopted, unless another replaces it.
HandedOverIsAdopted ==
    \A a \in Addresses : incoming = a ~> adopted = a \/ incoming # a
=============================================================================
