---------------------------- MODULE Lights_proofs ----------------------------
(***************************************************************************)
(* Theorems about module Lights, for any heap, any configurations and any  *)
(* interleaving of lights_task with the updates of poll_task.              *)
(*                                                                         *)
(* Nobody guards incoming_light_config.  What saves lights_task is that it *)
(* alone frees, and frees only what is not handed over: IInv says so.      *)
(***************************************************************************)
EXTENDS Lights, TLAPS

\* light_config is what lights_task works with.
Adopting == {"time", "recompute", "compare", "argument", "reconfigure", "free", "sleep"}

Pointers ==
    /\ incoming \in Live \cup {None}
    /\ pc # "adopt" => adopted \in Live \cup {None}
    /\ pc \in {"wait", "take"} => adopted = None
    /\ pc \in Adopting => adopted # None
    /\ pc \in {"argument", "reconfigure", "free"} => incoming # adopted

\* new_config, between the reconfiguration of the pins and its adoption.
NewConfig ==
    /\ pc \in {"reconfigure", "free"} => new \in Live \cup {None} /\ new # adopted
    /\ pc = "adopt" => new \in Live
    /\ pc \in {"free", "adopt"} => new # None

Apart(S, T) == (S \ T) \cup (T \ S)

\* Outputs and configuration disagree on the pins of drift and on no other.
EnabledPins ==
    /\ outputs \subseteq 0 .. 30
    /\ pc \in {"wait", "take", "first"} => outputs = {} /\ drift = {}
    /\ pc \in (Adopting \ {"free"}) \cup {"recompute_again"} =>
          Apart(outputs, PinsOf(adopted)) = drift
    /\ pc \in {"free", "adopt"} => Apart(outputs, PinsOf(new)) = drift

Levels ==
    pc \in {"compare", "sleep"} =>
        \A l \in LastOnPort(adopted) :
            l.port \in OutputGpio => (l.port \in high <=> Signal(l, timeinfo))

IInv == TypeOK /\ Pointers /\ NewConfig /\ EnabledPins /\ Levels /\ OnlyDroppedLeak

-----------------------------------------------------------------------------
(* Masks                                                                   *)

\* Two ports have the same mask or no bit in common, all of them in a 64-bit word.
LEMMA MasksApart ==
  ASSUME NEW p \in 0 .. 63, NEW q \in 0 .. 63
  PROVE  /\ Mask(p) \subseteq 0 .. 63
         /\ Mask(p) \cap Mask(q) # {} => Mask(p) = Mask(q)
<1>1. p % 32 \in 0 .. 31 /\ q % 32 \in 0 .. 31
  OBVIOUS
<1>. QED  BY <1>1 DEF Mask

\* A mask that the chip accepts has one bit, below the sign.
LEMMA MaskAccepted ==
  ASSUME NEW p \in 0 .. 63, Mask(p) \subseteq OutputGpio
  PROVE  Mask(p) = {p % 32} /\ p % 32 \in 0 .. 30
<1>1. p % 32 \in 0 .. 31
  OBVIOUS
<1>2. p % 32 # 31
  <2>1. 63 \notin OutputGpio /\ 63 \in 31 .. 63
    BY DEF OutputGpio, ValidGpio
  <2>. QED  BY <2>1 DEF Mask
<1>. QED  BY <1>1, <1>2 DEF Mask

\* The luminaires of a configuration on the heap, and the pins of its mask.
LEMMA PinsAre ==
  ASSUME TypeOK, NEW a \in Live \cup {None}
  PROVE  /\ a # None => \A l \in Luminaires(a) : l.port \in 0 .. 63
         /\ PinsOf(a) \subseteq 0 .. 63
<1>1. ASSUME a # None, NEW l \in Luminaires(a)
      PROVE  l.port \in 0 .. 63
  <2>1. heap[a] \in Seq(Luminaire)
    BY <1>1, LightConfigAssumption DEF TypeOK, Live
  <2>2. l \in Luminaire
    BY <1>1, <2>1 DEF Luminaires
  <2>. QED  BY <2>2 DEF Luminaire
<1>2. PinsOf(a) \subseteq 0 .. 63
  <2>1. CASE a = None
    BY <2>1 DEF PinsOf
  <2>2. CASE a # None
    BY <1>1, <2>2, MasksApart DEF PinsOf
  <2>. QED  BY <2>1, <2>2
<1>. QED  BY <1>1, <1>2

\* What lights_reconfigure_gpio_ enables are the pins that enter the configuration.
LEMMA EnteringPins ==
  ASSUME TypeOK, NEW old \in Live \cup {None}, NEW config \in Live
  PROVE  UNION {Mask(l.port) : l \in Entering(old, config)} = Leaving(config, old)
<1>1. config # None /\ PinsOf(config) = UNION {Mask(l.port) : l \in Luminaires(config)}
  BY NoneAssumption DEF Live, PinsOf
<1>2. ASSUME NEW l \in Luminaires(config)
      PROVE  Mask(l.port) \cap PinsOf(old) = {} \/ Mask(l.port) \subseteq PinsOf(old)
  <2>1. CASE old = None
    BY <2>1 DEF PinsOf
  <2>2. CASE old # None
    <3>1. PinsOf(old) = UNION {Mask(m.port) : m \in Luminaires(old)}
      BY <2>2 DEF PinsOf
    <3>2. \A m \in Luminaires(old) : l.port \in 0 .. 63 /\ m.port \in 0 .. 63
      BY <1>1, <2>2, PinsAre
    <3>3. \A m \in Luminaires(old) :
             Mask(l.port) \cap Mask(m.port) # {} => Mask(l.port) = Mask(m.port)
      BY <3>2, MasksApart
    <3>. QED  BY <3>1, <3>3
  <2>. QED  BY <2>1, <2>2
<1>. QED  BY <1>1, <1>2 DEF Entering, Leaving

-----------------------------------------------------------------------------
(* Every action keeps IInv                                                 *)

\* Nothing is configured, allocated or driven when the device comes up.
LEMMA InitIInv ==
  ASSUME Init
  PROVE  IInv
<1> USE DEF Init
<1>1. TypeOK
  <2>1. 0 \in Daytime
    BY DayAssumption DEF Daytime
  <2>2. heap \in [Addresses -> LightConfig \cup {None}]
    OBVIOUS
  <2>. QED  BY <2>1, <2>2 DEF TypeOK, Labels
<1>2. Live = {}
  BY DEF Live
<1>3. Pointers /\ NewConfig /\ EnabledPins /\ Levels
  BY DEF Pointers, NewConfig, EnabledPins, Levels, Adopting
<1>4. OnlyDroppedLeak
  BY <1>2 DEF OnlyDroppedLeak
<1>. QED  BY <1>1, <1>3, <1>4 DEF IInv

\* poll_task hands over an address that nobody holds: whatever lights_task works
\* with stays where it is.
LEMMA UpdateConfigKeeps ==
  ASSUME IInv, UpdateConfig
  PROVE  IInv'
<1>1. PICK a \in Addresses \ Live, config \in LightConfig :
         /\ heap' = [heap EXCEPT ![a] = config]
         /\ Replace(a)
  BY DEF UpdateConfig
<1>2. Live' = Live \cup {a} /\ \A b \in Live : heap'[b] = heap[b]
  BY <1>1, NoneAssumption DEF Live, IInv, TypeOK
<1>3. ASSUME NEW b \in Live \cup {None}
      PROVE  PinsOf(b)' = PinsOf(b)
  <2>1. CASE b = None
    BY <2>1 DEF PinsOf
  <2>2. CASE b \in Live
    <3>1. heap'[b] = heap[b]
      BY <1>2, <2>2
    <3>2. Luminaires(b)' = Luminaires(b)
      BY <3>1 DEF Luminaires
    <3>. QED  BY <3>2 DEF PinsOf
  <2>. QED  BY <2>1, <2>2
<1> USE <1>1 DEF IInv, UpdateConfig, Replace, task, pins
<1>4. TypeOK'
  BY DEF TypeOK
<1>5. Pointers'
  BY <1>2, NoneAssumption DEF Pointers, Adopting, Live
<1>6. NewConfig'
  BY <1>2 DEF NewConfig
<1>7. EnabledPins'
  BY <1>3 DEF EnabledPins, Pointers, NewConfig, Adopting
<1>8. Levels'
  BY <1>2 DEF Levels, Signal, LastOnPort, Pointers, Adopting, Live
<1>9. OnlyDroppedLeak'
  BY <1>2, NoneAssumption DEF OnlyDroppedLeak, Live
<1>. QED  BY <1>4, <1>5, <1>6, <1>7, <1>8, <1>9

\* Nothing is allocated, and the pointer becomes NULL.
LEMMA UpdateFailsKeeps ==
  ASSUME IInv, UpdateFails
  PROVE  IInv'
<1> USE DEF IInv, UpdateFails, Replace, task, pins
<1>1. Live' = Live /\ heap' = heap
  BY DEF Live
<1>2. \A b \in Addresses \cup {None} : PinsOf(b)' = PinsOf(b)
  BY <1>1 DEF PinsOf, Luminaires
<1>3. TypeOK'
  BY DEF TypeOK
<1>4. Pointers' /\ NewConfig'
  BY <1>1 DEF Pointers, NewConfig, Adopting
<1>5. EnabledPins'
  BY <1>2 DEF EnabledPins, TypeOK
<1>6. Levels'
  BY DEF Levels, Signal, LastOnPort
<1>7. OnlyDroppedLeak'
  BY <1>1, NoneAssumption DEF OnlyDroppedLeak, Live
<1>. QED  BY <1>3, <1>4, <1>5, <1>6, <1>7

\* The steps of lights_task that move its own pointers and nothing else.
LEMMA PointerStepsKeep ==
  ASSUME IInv, WaitForConfig \/ TakeFirst \/ Compare \/ TakeArgument \/ Sleep
  PROVE  IInv'
<1> USE DEF IInv, WaitForConfig, TakeFirst, Compare, TakeArgument, Sleep, Go, pins, history
<1>1. Live' = Live /\ heap' = heap
  BY DEF Live
<1>2. \A b \in Addresses \cup {None} : PinsOf(b)' = PinsOf(b)
  BY <1>1 DEF PinsOf, Luminaires
<1>3. TypeOK'
  BY DEF TypeOK, Labels
<1>4. Pointers'
  BY <1>1 DEF Pointers, Adopting
<1>5. NewConfig'
  BY <1>1 DEF Pointers, NewConfig
<1>6. EnabledPins'
  BY <1>2 DEF EnabledPins, Pointers, TypeOK, Adopting
<1>7. Levels'
  BY DEF Levels, Signal, LastOnPort
<1>8. OnlyDroppedLeak'
  BY <1>1, NoneAssumption DEF OnlyDroppedLeak, Pointers, Live
<1>. QED  BY <1>3, <1>4, <1>5, <1>6, <1>7, <1>8

\* lights_reconfigure_gpio_ leaves the pins of the configuration enabled, but for those
\* that were apart before and that neither enter nor leave it.
LEMMA ReconfiguredPins ==
  ASSUME TypeOK, NEW old \in Live \cup {None}, NEW config \in Live,
         outputs \subseteq 0 .. 30, Apart(outputs, PinsOf(old)) = drift,
         ReconfigureGpio(old, config)
  PROVE  /\ outputs' \subseteq 0 .. 30 /\ outputs' \subseteq OutputGpio
         /\ high' \subseteq OutputGpio /\ drift' \subseteq 0 .. 63
         /\ Apart(outputs', PinsOf(config)) = drift'
<1>1. PICK ports : ports = UNION {Mask(l.port) : l \in Entering(old, config)}
  OBVIOUS
<1>2. /\ outputs' = (outputs \ Leaving(old, config)) \cup ports
      /\ high' \subseteq high
      /\ drift' = drift \ (Leaving(old, config) \cup Leaving(config, old))
      /\ ~Refused(old, config)
  BY <1>1 DEF ReconfigureGpio
<1>3. ports = Leaving(config, old)
  BY <1>1, EnteringPins
<1>4. ports \subseteq 0 .. 30 /\ ports \subseteq OutputGpio
  <2>1. \A l \in Entering(old, config) : l.port \in 0 .. 63 /\ Mask(l.port) \subseteq OutputGpio
    BY <1>2, PinsAre, NoneAssumption DEF Refused, Entering, Live
  <2>2. \A l \in Entering(old, config) : Mask(l.port) \subseteq 0 .. 30
    BY <2>1, MaskAccepted
  <2>. QED  BY <1>1, <2>1, <2>2
<1>5. Apart(outputs', PinsOf(config)) = drift'
  BY <1>2, <1>3 DEF Apart, Leaving
<1>. QED  BY <1>2, <1>4, <1>5 DEF TypeOK

LEMMA ReconfigureFirstKeeps ==
  ASSUME IInv, ReconfigureFirst
  PROVE  IInv'
<1> USE DEF IInv, ReconfigureFirst, Go
<1>1. Live' = Live /\ heap' = heap
  BY DEF Live
<1>2. \A b \in Addresses \cup {None} : PinsOf(b)' = PinsOf(b)
  BY <1>1 DEF PinsOf, Luminaires
<1>3. adopted \in Live
  BY DEF ReconfigureGpio, Pointers
<1>4. /\ outputs' \subseteq 0 .. 30 /\ outputs' \subseteq OutputGpio
      /\ high' \subseteq OutputGpio /\ drift' \subseteq 0 .. 63
      /\ Apart(outputs', PinsOf(adopted)) = drift'
  <2>1. outputs \subseteq 0 .. 30 /\ Apart(outputs, PinsOf(None)) = drift
    BY DEF EnabledPins, PinsOf, Apart
  <2>. QED  BY <1>3, <2>1, ReconfiguredPins
<1>5. TypeOK'
  BY <1>4 DEF TypeOK, Labels
<1>6. Pointers' /\ NewConfig' /\ Levels'
  BY <1>1, <1>3, NoneAssumption DEF Pointers, NewConfig, Levels, Adopting, Live
<1>7. EnabledPins'
  BY <1>2, <1>4 DEF EnabledPins, TypeOK
<1>8. OnlyDroppedLeak'
  BY <1>1 DEF OnlyDroppedLeak
<1>. QED  BY <1>5, <1>6, <1>7, <1>8

LEMMA ReconfigureKeeps ==
  ASSUME IInv, Reconfigure
  PROVE  IInv'
<1> USE DEF IInv, Reconfigure, Go
<1>1. Live' = Live /\ heap' = heap
  BY DEF Live
<1>2. \A b \in Addresses \cup {None} : PinsOf(b)' = PinsOf(b)
  BY <1>1 DEF PinsOf, Luminaires
<1>3. new \in Live /\ adopted \in Live
  BY DEF ReconfigureGpio, NewConfig, Pointers, Adopting
<1>4. /\ outputs' \subseteq 0 .. 30 /\ outputs' \subseteq OutputGpio
      /\ high' \subseteq OutputGpio /\ drift' \subseteq 0 .. 63
      /\ Apart(outputs', PinsOf(new)) = drift'
  BY <1>3, ReconfiguredPins DEF EnabledPins, Adopting
<1>5. TypeOK'
  BY <1>4 DEF TypeOK, Labels
<1>6. Pointers' /\ NewConfig' /\ Levels'
  BY <1>1, <1>3, NoneAssumption DEF Pointers, NewConfig, Levels, Adopting, Live
<1>7. EnabledPins'
  BY <1>2, <1>4 DEF EnabledPins, TypeOK, Adopting
<1>8. OnlyDroppedLeak'
  BY <1>1 DEF OnlyDroppedLeak
<1>. QED  BY <1>5, <1>6, <1>7, <1>8

\* The time is read anew: levels are compared with it only after recomputing.
LEMMA ReadTimeKeeps ==
  ASSUME IInv, ReadTime
  PROVE  IInv'
<1> USE DEF IInv, ReadTime, Go, pins, history
<1>1. Live' = Live /\ heap' = heap
  BY DEF Live
<1>2. \A b \in Addresses \cup {None} : PinsOf(b)' = PinsOf(b)
  BY <1>1 DEF PinsOf, Luminaires
<1>3. TypeOK'
  BY DEF TypeOK, Labels
<1>4. Pointers' /\ NewConfig' /\ Levels'
  BY <1>1 DEF Pointers, NewConfig, Levels, Adopting
<1>5. EnabledPins'
  BY <1>2 DEF EnabledPins, TypeOK, Adopting
<1>6. OnlyDroppedLeak'
  BY <1>1 DEF OnlyDroppedLeak
<1>. QED  BY <1>3, <1>4, <1>5, <1>6

\* Each pin gets the level that the last luminaire on it has by its schedules.
LEMMA RecomputeKeeps ==
  ASSUME IInv, Recompute
  PROVE  IInv'
<1> USE DEF IInv, Recompute, Go, history
<1>1. Live' = Live /\ heap' = heap
  BY DEF Live
<1>2. \A b \in Addresses \cup {None} : PinsOf(b)' = PinsOf(b)
  BY <1>1 DEF PinsOf, Luminaires
<1>3. PICK driven : /\ driven = {l \in LastOnPort(adopted) : l.port \in OutputGpio}
                    /\ high' = (high \ {l.port : l \in driven})
                                  \cup {l.port : l \in {l \in driven : Signal(l, timeinfo)}}
  OBVIOUS
<1>4. TypeOK'
  <2>1. high' \subseteq OutputGpio
    BY <1>3 DEF TypeOK
  <2>. QED  BY <2>1 DEF TypeOK, Labels
<1>5. Pointers' /\ NewConfig'
  BY <1>1 DEF Pointers, NewConfig, Adopting
<1>6. EnabledPins'
  BY <1>2 DEF EnabledPins, TypeOK, Adopting
<1>7. Levels'
  <2>0. /\ LastOnPort(adopted)' = LastOnPort(adopted)
        /\ \A l : Signal(l, timeinfo)' = Signal(l, timeinfo)
    BY <1>1 DEF Signal, LastOnPort
  <2> SUFFICES ASSUME NEW l \in LastOnPort(adopted), l.port \in OutputGpio
               PROVE  l.port \in high' <=> Signal(l, timeinfo)
    BY <2>0 DEF Levels
  <2>1. heap[adopted] \in Seq(Luminaire)
    BY LightConfigAssumption DEF Pointers, TypeOK, Live
  <2>2. \A m \in LastOnPort(adopted) : m.port = l.port => m = l
    <3>1. DOMAIN heap[adopted] \subseteq Nat
      BY <2>1
    <3>. QED  BY <3>1 DEF LastOnPort
  <2>. QED  BY <1>3, <2>2
<1>8. OnlyDroppedLeak'
  BY <1>1 DEF OnlyDroppedLeak
<1>. QED  BY <1>4, <1>5, <1>6, <1>7, <1>8

\* What is freed is neither handed over nor about to be adopted.
LEMMA FreeOldKeeps ==
  ASSUME IInv, FreeOld
  PROVE  IInv'
<1> USE DEF IInv, FreeOld, Go, pins, history
<1>1. adopted \in Live /\ incoming # adopted /\ new \in Live /\ new # adopted
  BY DEF Pointers, NewConfig, Adopting
<1>2. Live' = Live \ {adopted} /\ \A b \in Live' : heap'[b] = heap[b]
  BY <1>1 DEF Live, TypeOK
<1>3. PinsOf(new)' = PinsOf(new)
  BY <1>1, <1>2 DEF PinsOf, Luminaires
<1>4. TypeOK'
  BY DEF TypeOK, Labels
<1>5. Pointers' /\ NewConfig' /\ Levels'
  BY <1>1, <1>2 DEF Pointers, NewConfig, Levels, Adopting
<1>6. EnabledPins'
  BY <1>3 DEF EnabledPins, TypeOK, Adopting
<1>7. OnlyDroppedLeak'
  BY <1>2 DEF OnlyDroppedLeak
<1>. QED  BY <1>4, <1>5, <1>6, <1>7

\* Whatever is handed over by now is adopted.  Where it differs from what the pins were
\* reconfigured for, a pin that was right is apart now and the other way round.
LEMMA AdoptKeeps ==
  ASSUME IInv, Adopt
  PROVE  IInv'
<1> USE DEF IInv, Adopt, Go, pins
<1>1. Live' = Live /\ heap' = heap
  BY DEF Live
<1>2. \A b \in Addresses \cup {None} : PinsOf(b)' = PinsOf(b)
  BY <1>1 DEF PinsOf, Luminaires
<1>3. PICK apart : /\ apart = Leaving(new, incoming) \cup Leaving(incoming, new)
                   /\ drift' = (drift \ apart) \cup (apart \ drift)
  OBVIOUS
<1>4. TypeOK'
  <2>1. PinsOf(new) \subseteq 0 .. 63 /\ PinsOf(incoming) \subseteq 0 .. 63
    BY PinsAre DEF NewConfig, Pointers
  <2>2. drift' \subseteq 0 .. 63
    BY <1>3, <2>1 DEF Leaving, TypeOK
  <2>. QED  BY <2>2 DEF TypeOK, Labels
<1>5. Pointers' /\ NewConfig' /\ Levels'
  BY <1>1 DEF Pointers, NewConfig, Levels, Adopting
<1>6. EnabledPins'
  <2>1. Apart(outputs, PinsOf(new)) = drift
    BY DEF EnabledPins
  <2>2. Apart(outputs, PinsOf(incoming)) = drift'
    BY <1>3, <2>1 DEF Apart, Leaving
  <2>3. PinsOf(adopted)' = PinsOf(incoming)
    BY <1>1 DEF PinsOf, Luminaires
  <2>. QED  BY <2>2, <2>3 DEF EnabledPins, Adopting
<1>7. OnlyDroppedLeak'
  BY <1>1 DEF OnlyDroppedLeak
<1>. QED  BY <1>4, <1>5, <1>6, <1>7

\* A panic leaves the device as it came up.
LEMMA PanicKeeps == IInv /\ Panic => IInv'
<1>1. Panic => Init'
  BY DEF Panic, Init
<1>2. Init => IInv
  BY InitIInv
<1>. QED  BY <1>1, <1>2, PTL

\* The inductive invariant: pointers, pins and levels, wherever lights_task stands.
THEOREM Invariance == Spec => []IInv
<1>1. Init => IInv
  BY InitIInv
<1>2. IInv /\ [Next]_vars => IInv'
  <2> SUFFICES ASSUME IInv, [Next]_vars PROVE IInv'
    OBVIOUS
  <2>1. CASE LightsTask
    BY <2>1, PointerStepsKeep, ReconfigureFirstKeeps, ReadTimeKeeps, RecomputeKeeps,
       ReconfigureKeeps, FreeOldKeeps, AdoptKeeps, PanicKeeps DEF LightsTask
  <2>2. CASE UNCHANGED vars
    BY <2>2 DEF vars, task, pins, history, IInv, TypeOK, Pointers, NewConfig, EnabledPins, Levels,
                OnlyDroppedLeak, Live, PinsOf, Luminaires, LastOnPort, Signal
  <2>. QED  BY <2>1, <2>2, UpdateConfigKeeps, UpdateFailsKeeps DEF Next
<1>. QED  BY <1>1, <1>2, PTL DEF Spec

-----------------------------------------------------------------------------
(* What follows from it                                                    *)

\* Pointers of lights_task stay addresses of the heap or NULL, pins stay GPIOs.
THEOREM TypeCorrect == Spec => []TypeOK
BY Invariance, PTL DEF IInv

\* No use after free: what light_config points at stays allocated until
\* lights_task frees it itself.
THEOREM AdoptedNeverFreed == Spec => []AdoptedAlive
<1>1. IInv => AdoptedAlive
  BY DEF IInv, Pointers, NewConfig, AdoptedAlive
<1>. QED  BY <1>1, Invariance, PTL

\* Only the clones that poll_task overwrote before they were adopted are lost.
THEOREM NothingElseLeaks == Spec => []OnlyDroppedLeak
BY Invariance, PTL DEF IInv

\* When lights_task goes to sleep, the pins enabled are the ports of the configuration
\* modulo 32, but for those that a race left apart, and each has the level its schedules
\* ask for, unless only periods of zero intensity are in progress.
THEOREM PinsFollow == Spec => []OutputsFollowConfig
<1>1. IInv => OutputsFollowConfig
  <2> SUFFICES ASSUME IInv, pc = "sleep" PROVE OutputsFollowConfig
    BY DEF OutputsFollowConfig
  <2> USE DEF IInv
  <2>1. adopted \in Live /\ adopted # None /\ \A l \in Luminaires(adopted) : l.port \in 0 .. 63
    BY PinsAre DEF Pointers, Adopting
  <2>2. outputs \subseteq 0 .. 30 /\ Apart(outputs, PinsOf(adopted)) = drift
    BY DEF EnabledPins, Adopting
  <2>3. PinsOf(adopted) = UNION {Mask(l.port) : l \in Luminaires(adopted)}
    BY <2>1 DEF PinsOf
  <2>4. \A l \in Luminaires(adopted) :
           /\ l.port % 32 \in Mask(l.port)
           /\ \A x \in Mask(l.port) : x \in 0 .. 30 => x = l.port % 32
    <3>1. \A p \in 0 .. 63 : p % 32 \in Mask(p) /\ \A x \in Mask(p) : x \in 0 .. 30 => x = p % 32
      BY DEF Mask
    <3>. QED  BY <2>1, <3>1
  <2>5. outputs \ drift = {l.port % 32 : l \in Luminaires(adopted)} \ drift
    <3>1. outputs \ drift = PinsOf(adopted) \ drift
      BY <2>2 DEF Apart
    <3>2. \A x \in PinsOf(adopted) \ drift : x \in 0 .. 30
      BY <2>2, <3>1
    <3>3. ASSUME NEW x \in PinsOf(adopted) \ drift
          PROVE  x \in {l.port % 32 : l \in Luminaires(adopted)}
      <4>1. PICK l \in Luminaires(adopted) : x \in Mask(l.port)
        BY <2>3, <3>3
      <4>. QED  BY <4>1, <3>2, <2>4
    <3>4. {l.port % 32 : l \in Luminaires(adopted)} \subseteq PinsOf(adopted)
      BY <2>3, <2>4
    <3>. QED  BY <3>1, <3>3, <3>4
  <2>6. ASSUME NEW l \in LastOnPort(adopted), l.port \in OutputGpio
        PROVE  (l.port \in high <=> Asked(l, timeinfo)) <=> ~Dark(l, timeinfo)
    BY <2>6 DEF Levels, Signal, Asked, Dark
  <2>. QED  BY <2>5, <2>6 DEF OutputsFollowConfig
<1>. QED  BY <1>1, Invariance, PTL
=============================================================================
