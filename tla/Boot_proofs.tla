---------------------------- MODULE Boot_proofs ----------------------------
(***************************************************************************)
(* Theorems about module Boot, for any number of restarts.                 *)
(*                                                                         *)
(* A task runs only once app_main has created it, and by then app_main has *)
(* created everything the task's script uses, the last step's loop and the *)
(* event handlers it registers included: the order of BootSequence.        *)
(***************************************************************************)
EXTENDS Boot, SequenceTheorems, TLAPS

\* A task that has taken a step has been created.
Started ==
    /\ boot \in 0 .. Len(BootSequence)
    /\ step \in [Tasks -> Nat]
    /\ \A t \in Tasks : step[t] <= Len(Script[t])
    /\ \A t \in Tasks : step[t] > 0 => t \in Created

-----------------------------------------------------------------------------
(* The order of BootSequence                                               *)

\* app_main has created the first objects of the sequence, as many as it has done
\* steps.
LEMMA CreatedIs ==
  ASSUME boot \in 0 .. Len(BootSequence)
  PROVE  \A x : x \in Created <=> \E i \in 1 .. boot : BootSequence[i] = x
<1> DEFINE made == SubSeq(BootSequence, 1, boot)
<1>1. boot \in Int
  BY DEF BootSequence
<1>2. /\ made \in Seq({BootSequence[i] : i \in 1 .. boot})
      /\ Len(made) = boot /\ \A i \in 1 .. boot : made[i] = BootSequence[i]
  <2> HIDE DEF made
  <2>1. \A i \in 1 .. boot : BootSequence[i] \in {BootSequence[j] : j \in 1 .. boot}
    OBVIOUS
  <2>. QED  BY <1>1, <2>1, SubSeqProperties DEF made
<1>3. DOMAIN made = 1 .. boot
  <2> HIDE DEF made
  <2>. QED  BY <1>2
<1>. QED  BY <1>2, <1>3 DEF Created, ToSet

\* What is created stays created while app_main goes on.
LEMMA CreatedGrows ==
  ASSUME boot \in 0 .. Len(BootSequence), boot' \in boot .. Len(BootSequence)
  PROVE  Created \subseteq Created'
BY DEF Created, ToSet, BootSequence

\* Of a created task, app_main has created everything its script uses.
LEMMA NeededIsCreated ==
  ASSUME boot \in 0 .. Len(BootSequence), NEW t \in Tasks, t \in Created
  PROVE  /\ \A i \in 1 .. Len(Script[t]) : Script[t][i] \subseteq Created
         /\ t = "wifi_task" => "wifi_event_group_" \in Created
         /\ t = "auth_task" => "auth_event_group_" \in Created
         /\ t = "poll_task" => "poll_event_group_" \in Created
<1>1. PICK n \in 1 .. boot : BootSequence[n] = t
  BY CreatedIs
<1>2. boot \in 0 .. 17 /\ n \in 1 .. 17 /\ n <= boot
  BY DEF BootSequence
<1>3. \A m \in 1 .. n : BootSequence[m] \in Created
  BY <1>2, CreatedIs
<1>4. CASE t = "wifi_task"
  <2>1. n = 4
    BY <1>1, <1>2, <1>4 DEF BootSequence
  <2>. QED  BY <1>3, <1>4, <2>1 DEF Script, WifiScript, BootSequence
<1>5. CASE t = "http2_task"
  <2>1. n = 7
    BY <1>1, <1>2, <1>5 DEF BootSequence
  <2>. QED  BY <1>3, <1>5, <2>1 DEF Script, BootSequence
<1>6. CASE t = "auth_task"
  <2>1. n = 10
    BY <1>1, <1>2, <1>6 DEF BootSequence
  <2>. QED  BY <1>3, <1>6, <2>1 DEF Script, AuthScript, Http2, BootSequence
<1>7. CASE t = "poll_task"
  <2>1. n = 14
    BY <1>1, <1>2, <1>7 DEF BootSequence
  <2>. QED  BY <1>3, <1>7, <2>1 DEF Script, PollScript, Http2, BootSequence
<1>8. CASE t = "lights_task"
  <2>1. n = 15
    BY <1>1, <1>2, <1>8 DEF BootSequence
  <2>. QED  BY <1>3, <1>8, <2>1 DEF Script, BootSequence
<1>9. CASE t = "measurements_task"
  <2>1. n = 17
    BY <1>1, <1>2, <1>9 DEF BootSequence
  <2>. QED  BY <1>3, <1>9, <2>1 DEF Script, MeasurementsScript, Http2, BootSequence
<1>. QED  BY <1>4, <1>5, <1>6, <1>7, <1>8, <1>9 DEF Tasks, Script

-----------------------------------------------------------------------------
(* Started is inductive                                                    *)

\* Nothing is created or has run when the device comes up.
LEMMA InitStarted == Init => Started
BY DEF Init, Started, BootSequence, Tasks, Script, WifiScript, AuthScript, PollScript,
       MeasurementsScript

\* A task takes its steps only while it exists, and only those of its script.
LEMMA NextStarted == Started /\ [Next]_vars => Started'
<1> SUFFICES ASSUME Started, [Next]_vars PROVE Started'
  OBVIOUS
<1> USE DEF Started
<1>1. Len(BootSequence) \in Nat /\ \A t \in Tasks : Len(Script[t]) \in Nat
  BY DEF BootSequence, Tasks, Script, WifiScript, AuthScript, PollScript, MeasurementsScript
<1>2. CASE AppMain
  <2>1. boot' \in boot .. Len(BootSequence) /\ step' = step
    BY <1>1, <1>2 DEF AppMain
  <2>. QED  BY <1>1, <2>1, CreatedGrows
<1>3. ASSUME NEW t \in Tasks, Proceed(t), boot' = boot
      PROVE  Started'
  <2>1. Created' = Created
    BY <1>3 DEF Created
  <2>. QED  BY <1>1, <1>3, <2>1 DEF Proceed
<1>4. CASE WifiClears
  <2>1. Created' = Created
    BY <1>4 DEF Created, WifiClears
  <2>2. "wifi_task" \in Tasks /\ Len(Script["wifi_task"]) = 4 /\ "wifi_task" \in Created
    <3>1. "wifi_task" \in Tasks /\ Len(Script["wifi_task"]) = 4
      BY DEF Tasks, Script, WifiScript
    <3>. QED  BY <1>4, <3>1 DEF WifiClears
  <2>. QED  BY <1>4, <2>1, <2>2 DEF WifiClears
<1>5. CASE Restart
  BY <1>1, <1>5 DEF Restart
<1>6. CASE UNCHANGED <<boot, step>>
  BY <1>6 DEF Created
<1>7. CASE WifiStart \/ WifiWaits
  <2>1. "wifi_task" \in Tasks
    BY DEF Tasks, Script
  <2>. QED  BY <1>3, <1>7, <2>1 DEF WifiStart, WifiWaits
<1>8. CASE \E t \in Tasks : Run(t)
  BY <1>3, <1>8 DEF Run
<1>9. CASE Dispatch \/ Network \/ Roam \/ UNCHANGED vars
  BY <1>6, <1>9 DEF Dispatch, Hear, Network, Associate, ConnectFails, LinkLost, LeaseLost,
                    Driver, Roam, vars
<1>. QED  BY <1>2, <1>4, <1>5, <1>7, <1>8, <1>9 DEF Next, WifiTask

\* Tasks run once they are created, within their scripts, through every restart.
THEOREM Invariance == Spec => []Started
BY InitStarted, NextStarted, PTL DEF Spec

\* No task and no event handler uses an object that app_main has not created.
THEOREM InitFirst == Spec => []InitBeforeUse
<1>1. Started => InitBeforeUse
  <2> SUFFICES ASSUME Started PROVE InitBeforeUse
    OBVIOUS
  <2>1. \A t \in Tasks : Len(Script[t]) \in Nat
    BY DEF Tasks, Script, WifiScript, AuthScript, PollScript, MeasurementsScript
  <2>2. ASSUME NEW t \in Tasks, NEW i \in 1 .. step[t]
        PROVE  Script[t][i] \subseteq Created
    <3>1. t \in Created /\ i \in 1 .. Len(Script[t])
      BY <2>1, <2>2 DEF Started
    <3>. QED  BY <3>1, NeededIsCreated DEF Started
  <2>3. ASSUME NEW t \in Tasks, Registered(t)
        PROVE  t \in Created
    BY <2>3 DEF Registered, Started
  <2>4. Listeners \subseteq Tasks
    BY DEF Listeners, Tasks, Script
  <2>. QED  BY <2>2, <2>3, <2>4, NeededIsCreated DEF InitBeforeUse, Started, Listeners
<1>. QED  BY <1>1, Invariance, PTL
=============================================================================
