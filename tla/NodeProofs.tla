------------------------------ MODULE NodeProofs ------------------------------
(***************************************************************************)
(* Proofs about Node, for every value of its constants that NodeAssumption *)
(* allows.  Its components are proved about here, through their instances  *)
(* in Node; at the end the invariants of the components become invariants  *)
(* of the node.                                                            *)
(***************************************************************************)
EXTENDS Node, SequenceTheorems, WellFoundedInduction, TLAPS

-----------------------------------------------------------------------------
(*                          The pulse counter                              *)
-----------------------------------------------------------------------------
(* Arithmetic of the registers.                                            *)

LEMMA NatProducts == \A a, b \in Nat : a * b \in Nat
OBVIOUS

(* A number has one remainder and one quotient.                            *)
LEMMA DivisionIsUnique ==
    ASSUME NEW v \in Nat \ {0}, NEW q1 \in Int, NEW q2 \in Int,
           NEW r1 \in 0..v - 1, NEW r2 \in 0..v - 1,
           v * q1 + r1 = v * q2 + r2
    PROVE  q1 = q2 /\ r1 = r2
<1>1. v * (q1 - q2) = r2 - r1
  OBVIOUS
<1>2. CASE q1 - q2 >= 1
  <2>1. v * (q1 - q2) >= v
    BY <1>2
  <2> QED
    BY <1>1, <2>1
<1>3. CASE q2 - q1 >= 1
  <2>1. v * (q2 - q1) >= v
    BY <1>3
  <2>2. v * (q2 - q1) = r1 - r2
    BY <1>1
  <2> QED
    BY <2>1, <2>2
<1> QED
  BY <1>1, <1>2, <1>3

(* What a register of v values keeps of x, and what it loses.              *)
LEMMA DivisionOf ==
    ASSUME NEW v \in Nat \ {0}, NEW x \in Nat
    PROVE  /\ x % v \in 0..v - 1 /\ x \div v \in Nat
           /\ x = v * (x \div v) + (x % v)
OBVIOUS

(* Whole rounds of a register do not show.                                 *)
LEMMA RoundsDoNotShow ==
    ASSUME NEW v \in Nat \ {0}, NEW x \in Nat, NEW k \in Nat
    PROVE  (x + k * v) % v = x % v
<1> DEFINE y == x + k * v
<1>1. y \in Nat
  OBVIOUS
<1>2. /\ y % v \in 0..v - 1 /\ y \div v \in Nat /\ y = v * (y \div v) + (y % v)
  BY <1>1, DivisionOf
<1>3. /\ x % v \in 0..v - 1 /\ x \div v \in Nat /\ x = v * (x \div v) + (x % v)
  BY DivisionOf
<1>4. y = v * ((x \div v) + k) + (x % v)
  BY <1>3
<1> DEFINE q1 == y \div v
           q2 == (x \div v) + k
           r1 == y % v
           r2 == x % v
<1>5. /\ q1 \in Int /\ q2 \in Int /\ r1 \in 0..v - 1 /\ r2 \in 0..v - 1
      /\ v * q1 + r1 = v * q2 + r2
  BY <1>2, <1>3, <1>4
<1>6. r1 = r2
  <2> HIDE DEF q1, q2, r1, r2
  <2> QED
    BY <1>5, DivisionIsUnique
<1> QED
  BY <1>6

-----------------------------------------------------------------------------
(* Type correctness.                                                       *)

LEMMA PulseInitTypeOK == ASSUME Registers PROVE Pulse!Init => Pulse!TypeOK
<1> SUFFICES ASSUME Pulse!Init PROVE Pulse!TypeOK
  OBVIOUS
<1>1. /\ 0 \in 0..Period - 1 /\ 0 \in 0..ValueSize - 1
  BY DEF Registers
<1>2. captured \in BOOLEAN /\ polled \in BOOLEAN
  BY DEF Pulse!Init
<1> QED
  BY <1>1, <1>2 DEF Pulse!Init, Pulse!TypeOK

LEMMA PulseStepTypeOK ==
    ASSUME Registers
    PROVE  Pulse!TypeOK /\ [Pulse!Next]_Pulse!pulseVars => Pulse!TypeOK'
<1> SUFFICES ASSUME Pulse!TypeOK, [Pulse!Next]_Pulse!pulseVars PROVE Pulse!TypeOK'
  OBVIOUS
<1> USE DEF Pulse!TypeOK, Registers
<1>1. CASE Pulse!Pulse
  <2>1. TAR' \in 0..Period - 1
    BY <1>1, DivisionOf DEF Pulse!Pulse
  <2> QED
    BY <1>1, <2>1 DEF Pulse!Pulse
<1>2. CASE Pulse!Isr
  <2>1. overrun' \in Nat
    BY <1>2 DEF Pulse!Isr
  <2>2. captured' \in BOOLEAN /\ polled' \in BOOLEAN
    BY <1>2 DEF Pulse!Isr
  <2> QED
    BY <1>2, <2>1, <2>2 DEF Pulse!Isr
<1>3. CASE Pulse!Process
  <2>0. LastValue + Period \in Nat /\ ValueSize \in Nat \ {0}
    OBVIOUS
  <2>1. /\ (LastValue + Period) % ValueSize \in 0..ValueSize - 1
        /\ (LastValue + Period) \div ValueSize \in Nat
    BY ONLY <2>0, DivisionOf
  <2>2. Pulse!Step \in 0..StepSize - 1
    BY DivisionOf DEF Pulse!Step
  <2>3. (ChangeEventAcc + Pulse!Step) % ValueSize \in 0..ValueSize - 1
    BY <2>2, DivisionOf
  <2>4. /\ LastValue' \in 0..ValueSize - 1 /\ rounds' \in Nat
        /\ ChangeEventAcc' \in 0..ValueSize - 1 /\ silent' \in Nat
    BY <1>3, <2>1, <2>3 DEF Pulse!Process
  <2>5. /\ hasEvent' \in SUBSET {"above", "below", "change"}
        /\ LastEventValue' \in 0..ValueSize - 1
    BY <1>3, <2>1 DEF Pulse!Process, Pulse!LevelEvents
  <2> QED
    BY <1>3, <2>4, <2>5 DEF Pulse!Process
<1>4. CASE UNCHANGED Pulse!pulseVars
  BY <1>4 DEF Pulse!pulseVars
<1> QED
  BY <1>1, <1>2, <1>3, <1>4 DEF Pulse!Next

(* The counter's variables have their types, whatever the period, the      *)
(* levels and the widths of the registers (dev/pulsesensor.c).             *)
THEOREM PulseTypes == ASSUME Registers PROVE Pulse!Spec => []Pulse!TypeOK
<1>1. Pulse!Init => Pulse!TypeOK
  BY PulseInitTypeOK
<1>2. Pulse!TypeOK /\ [Pulse!Next]_Pulse!pulseVars => Pulse!TypeOK'
  BY PulseStepTypeOK
<1> QED
  BY <1>1, <1>2, PTL DEF Pulse!Spec

-----------------------------------------------------------------------------
(* Every pulse is accounted for.                                           *)

LEMMA InitAccounted == ASSUME Registers PROVE Pulse!Init => Pulse!PulsesAccounted
BY DEF Registers, Pulse!Init, Pulse!PulsesAccounted, Pulse!Flag

LEMMA StepAccounted ==
    ASSUME Registers
    PROVE  Pulse!TypeOK /\ Pulse!PulsesAccounted /\ [Pulse!Next]_Pulse!pulseVars
           => Pulse!PulsesAccounted'
<1> SUFFICES ASSUME Pulse!TypeOK, Pulse!PulsesAccounted, [Pulse!Next]_Pulse!pulseVars
             PROVE  Pulse!PulsesAccounted'
  OBVIOUS
<1> DEFINE under == Pulse!Flag(captured) + Pulse!Flag(polled) + overrun
<1>0. /\ TAR \in 0..Period - 1 /\ captured \in BOOLEAN /\ polled \in BOOLEAN
      /\ LastValue \in Nat /\ rounds \in Nat /\ overrun \in Nat /\ total \in Nat
      /\ Period \in Nat \ {0} /\ ValueSize \in Nat \ {0}
      /\ under \in Nat
      /\ total = TAR + LastValue + rounds * ValueSize + under * Period
  BY DEF Pulse!TypeOK, Registers, Pulse!PulsesAccounted, Pulse!Flag
(* The period ends, and its interrupt stands for it, or it does not.       *)
<1>1. CASE Pulse!Pulse
  <2>1. /\ TAR' = (TAR + 1) % Period /\ total' = total + 1
        /\ UNCHANGED <<LastValue, rounds>>
    BY <1>1 DEF Pulse!Pulse
  <2>2. CASE TAR + 1 < Period
    <3>1. TAR' = TAR + 1
      BY <1>0, <2>1, <2>2
    <3>2. under' = under
      BY <1>0, <1>1, <3>1 DEF Pulse!Pulse
    <3> HIDE DEF under
    <3> QED
      BY <1>0, <2>1, <3>1, <3>2 DEF Pulse!PulsesAccounted, under
  <2>3. CASE TAR + 1 = Period
    <3>1. TAR' = 0
      BY <1>0, <2>1, <2>3
    <3>2. under' = under + 1
      <4>1. captured' /\ polled' = polled
        BY <1>1, <3>1 DEF Pulse!Pulse
      <4>2. overrun' = IF captured THEN overrun + 1 ELSE overrun
        BY <1>1, <3>1 DEF Pulse!Pulse
      <4>3. CASE captured
        BY <1>0, <4>1, <4>2, <4>3 DEF Pulse!Flag
      <4>4. CASE ~captured
        BY <1>0, <4>1, <4>2, <4>4 DEF Pulse!Flag
      <4> QED
        BY <4>3, <4>4
    <3> HIDE DEF under
    <3>3. (under + 1) * Period = under * Period + Period
      BY <1>0
    <3>4. under * Period \in Nat /\ rounds * ValueSize \in Nat
      BY <1>0, NatProducts
    <3>5. /\ rounds' * ValueSize = rounds * ValueSize
          /\ under' * Period = under * Period + Period
      BY <2>1, <3>2, <3>3
    <3>6. total' = TAR' + LastValue' + rounds' * ValueSize + under' * Period
      <4> DEFINE u == under * Period
                 w == rounds * ValueSize
      <4>1. /\ u \in Nat /\ w \in Nat /\ rounds' * ValueSize = w /\ under' * Period = u + Period
            /\ total = TAR + LastValue + w + u
        BY <1>0, <3>4, <3>5
      <4> HIDE DEF u, w
      <4> QED
        BY <1>0, <2>1, <2>3, <3>1, <4>1
    <3> QED
      BY <3>6 DEF Pulse!PulsesAccounted, under
  <2> QED
    BY <1>0, <2>2, <2>3
(* The interrupt hands over to the poll, or finds one pending.             *)
<1>2. CASE Pulse!Isr
  <2>1. under' = under
    BY <1>0, <1>2 DEF Pulse!Isr, Pulse!Flag
  <2>2. UNCHANGED <<total, TAR, LastValue, rounds>>
    BY <1>2 DEF Pulse!Isr
  <2> HIDE DEF under
  <2> QED
    BY <1>0, <2>1, <2>2 DEF Pulse!PulsesAccounted, under
(* What LastValue gains is the period, less the rounds it has made.        *)
<1>3. CASE Pulse!Process
  <2> DEFINE x == LastValue + Period
  <2>1. x \in Nat
    BY <1>0
  <2>2. /\ x % ValueSize \in 0..ValueSize - 1 /\ x \div ValueSize \in Nat
        /\ x = ValueSize * (x \div ValueSize) + (x % ValueSize)
    BY ONLY <1>0, <2>1, DivisionOf
  <2>3. /\ LastValue' = x % ValueSize /\ rounds' = rounds + (x \div ValueSize)
        /\ UNCHANGED <<TAR, total>>
    BY <1>3 DEF Pulse!Process
  <2>4. under = under' + 1 /\ under' \in Nat
    BY <1>0, <1>3 DEF Pulse!Process, Pulse!Flag
  <2> HIDE DEF under
  <2>5. under * Period = under' * Period + Period
    BY <1>0, <2>4
  <2> DEFINE k == x \div ValueSize
             r == x % ValueSize
  <2>6. /\ r \in Nat /\ k \in Nat /\ x = ValueSize * k + r
        /\ LastValue' = r /\ rounds' = rounds + k /\ x = LastValue + Period
    BY <1>0, <2>2, <2>3
  <2> HIDE DEF x, k, r
  <2>7. (rounds + k) * ValueSize = rounds * ValueSize + ValueSize * k
    BY <1>0, <2>6
  <2>8. /\ LastValue' \in Nat /\ ValueSize * k \in Nat
        /\ under' * Period \in Nat /\ rounds * ValueSize \in Nat
    BY ONLY <1>0, <2>4, <2>6, NatProducts
  <2>9. LastValue' + rounds' * ValueSize = LastValue + Period + rounds * ValueSize
    BY <1>0, <2>6, <2>7, <2>8
  <2>10. total' = TAR' + LastValue' + rounds' * ValueSize + under' * Period
    BY <1>0, <2>3, <2>5, <2>6, <2>7, <2>8, <2>9
  <2> QED
    BY <2>10 DEF Pulse!PulsesAccounted, under
<1>4. CASE UNCHANGED Pulse!pulseVars
  BY <1>4 DEF Pulse!pulseVars, Pulse!PulsesAccounted
<1> QED
  BY <1>1, <1>2, <1>3, <1>4 DEF Pulse!Next

(* No pulse is lost but in whole periods, one for each that ended before   *)
(* the one before it was handled (pulscounter_isr, pulseinput_int_process).*)
THEOREM EveryPulseIsAccounted == ASSUME Registers PROVE Pulse!Spec => []Pulse!PulsesAccounted
<1>1. Pulse!Init => Pulse!TypeOK /\ Pulse!PulsesAccounted
  BY PulseInitTypeOK, InitAccounted
<1>2. Pulse!TypeOK /\ Pulse!PulsesAccounted /\ [Pulse!Next]_Pulse!pulseVars
        => Pulse!TypeOK' /\ Pulse!PulsesAccounted'
  BY PulseStepTypeOK, StepAccounted
<1> QED
  BY <1>1, <1>2, PTL DEF Pulse!Spec

-----------------------------------------------------------------------------

LEMMA AccountedTrails ==
    ASSUME Registers PROVE Pulse!TypeOK /\ Pulse!PulsesAccounted => Pulse!ReadingTrails
<1> SUFFICES ASSUME Pulse!TypeOK, Pulse!PulsesAccounted, overrun = 0
             PROVE  \E n \in 0..Pulse!Flag(captured) + Pulse!Flag(polled) :
                        Pulse!ActualValue = (total - n * Period) % ValueSize
  BY DEF Pulse!ReadingTrails
<1> DEFINE n == Pulse!Flag(captured) + Pulse!Flag(polled)
<1>1. n \in 0..Pulse!Flag(captured) + Pulse!Flag(polled) /\ n \in Nat
  BY DEF Pulse!Flag
<1>2. /\ TAR \in Nat /\ LastValue \in Nat /\ rounds \in Nat
      /\ Period \in Nat /\ ValueSize \in Nat \ {0}
  BY DEF Pulse!TypeOK, Registers
<1>3. total = TAR + LastValue + rounds * ValueSize + n * Period
  <2>1. total = TAR + LastValue + rounds * ValueSize + (n + 0) * Period
    BY DEF Pulse!PulsesAccounted
  <2> HIDE DEF n
  <2> QED
    BY <1>1, <1>2, <2>1
<1> HIDE DEF n
<1>4. total - n * Period = (TAR + LastValue) + rounds * ValueSize
  BY <1>1, <1>2, <1>3
<1>5. TAR + LastValue \in Nat
  BY <1>2
<1>6. (TAR + LastValue + rounds * ValueSize) % ValueSize = (TAR + LastValue) % ValueSize
  BY ONLY <1>2, <1>5, RoundsDoNotShow
<1> QED
  BY <1>1, <1>4, <1>6 DEF Pulse!ActualValue

(* While no period has been overrun, a reading is behind by no more than   *)
(* the periods under way (get of dev/pulsesensor.c).                       *)
THEOREM ReadingsTrailByAPeriod == ASSUME Registers PROVE Pulse!Spec => []Pulse!ReadingTrails
<1>1. Pulse!Init => Pulse!TypeOK /\ Pulse!PulsesAccounted
  BY PulseInitTypeOK, InitAccounted
<1>2. Pulse!TypeOK /\ Pulse!PulsesAccounted /\ [Pulse!Next]_Pulse!pulseVars
        => Pulse!TypeOK' /\ Pulse!PulsesAccounted'
  BY PulseStepTypeOK, StepAccounted
<1>3. Pulse!TypeOK /\ Pulse!PulsesAccounted => Pulse!ReadingTrails
  BY AccountedTrails
<1> QED
  BY <1>1, <1>2, <1>3, PTL DEF Pulse!Spec

-----------------------------------------------------------------------------
(* The change event.                                                       *)

(* The accumulator holds the steps since the last change event.            *)
AccIsSilence == ChangeEventAcc = silent * Pulse!Step /\ ChangeEventAcc < Period

LEMMA StepAccIsSilence ==
    ASSUME Registers, Period + StepSize <= ValueSize + 1
    PROVE  Pulse!TypeOK /\ AccIsSilence /\ [Pulse!Next]_Pulse!pulseVars => AccIsSilence'
<1> SUFFICES ASSUME Pulse!TypeOK, AccIsSilence, [Pulse!Next]_Pulse!pulseVars PROVE AccIsSilence'
  OBVIOUS
<1>1. CASE Pulse!Pulse
  BY <1>1 DEF Pulse!Pulse, AccIsSilence
<1>2. CASE Pulse!Isr
  BY <1>2 DEF Pulse!Isr, AccIsSilence
<1>3. CASE Pulse!Process
  <2> DEFINE sum == ChangeEventAcc + Pulse!Step
  <2>1. Pulse!Step \in 0..StepSize - 1
    BY DivisionOf DEF Pulse!Step, Registers
  <2>2. sum \in Nat /\ sum < ValueSize
    BY <2>1 DEF AccIsSilence, Pulse!TypeOK, Registers
  <2>3. sum % ValueSize = sum
    BY <2>2 DEF Registers
  <2>4. /\ ChangeEventAcc' = IF Period <= sum THEN 0 ELSE sum
        /\ silent' = IF Period <= sum THEN 0 ELSE silent + 1
    BY <1>3, <2>3 DEF Pulse!Process, Pulse!ChangeDue
  <2>5. sum = (silent + 1) * Pulse!Step
    BY <2>1 DEF AccIsSilence, Pulse!TypeOK
  <2> HIDE DEF sum
  <2>6. CASE Period <= sum
    BY <2>1, <2>4, <2>6 DEF AccIsSilence, Registers
  <2>7. CASE ~(Period <= sum)
    BY <2>2, <2>4, <2>5, <2>7 DEF AccIsSilence, Registers
  <2> QED
    BY <2>6, <2>7
<1>4. CASE UNCHANGED Pulse!pulseVars
  BY <1>4 DEF Pulse!pulseVars, AccIsSilence
<1> QED
  BY <1>1, <1>2, <1>3, <1>4 DEF Pulse!Next

(* The change event comes at the latest when the cut steps add up to the   *)
(* level.  The period must leave room for a step in the accumulator, which *)
(* starts over when it does not (setEventU16 of dev/susensorcommon.c).     *)
THEOREM ChangeIsNotStarved ==
    ASSUME Registers, Period + StepSize <= ValueSize + 1
    PROVE  Pulse!Spec => []Pulse!ChangeNotStarved
<1>1. Pulse!Init => Pulse!TypeOK /\ AccIsSilence
  <2>1. Pulse!Step \in 0..StepSize - 1
    BY DivisionOf DEF Pulse!Step, Registers
  <2>2. 0 * Pulse!Step = 0
    BY <2>1 DEF Registers
  <2>3. Pulse!Init => AccIsSilence
    BY <2>2 DEF Pulse!Init, AccIsSilence, Registers
  <2> QED
    BY <2>3, PulseInitTypeOK
<1>2. Pulse!TypeOK /\ AccIsSilence /\ [Pulse!Next]_Pulse!pulseVars => Pulse!TypeOK' /\ AccIsSilence'
  BY PulseStepTypeOK, StepAccIsSilence
<1>3. AccIsSilence => Pulse!ChangeNotStarved
  BY DEF AccIsSilence, Pulse!ChangeNotStarved
<1> QED
  BY <1>1, <1>2, <1>3, PTL DEF Pulse!Spec

-----------------------------------------------------------------------------
(*                           The push button                               *)
-----------------------------------------------------------------------------
(* Type correctness.                                                       *)

LEMMA ButtonInitTypeOK == ASSUME Times PROVE Button!Init => Button!TypeOK
<1> SUFFICES ASSUME Button!Init PROVE Button!TypeOK
  OBVIOUS
<1>1. /\ 0 \in 0..DEBOUNCE_DURATION /\ Button!Stopped \in Button!Stopped..press_duration
      /\ 0 \in 0..CounterSize - 1 /\ 0 \in 0..MaxHeld /\ 0 \in 0..MaxPosted
  BY DEF Times, Button!Stopped
<1>2. /\ pressed \in BOOLEAN /\ edge \in BOOLEAN /\ listed \in BOOLEAN /\ due \in BOOLEAN
      /\ dropped \in BOOLEAN /\ raced \in BOOLEAN
  BY DEF Button!Init
<1> QED
  BY <1>1, <1>2 DEF Button!Init, Button!TypeOK

LEMMA ButtonStepTypeOK ==
    ASSUME Times
    PROVE  Button!TypeOK /\ [Button!Next]_Button!buttonVars => Button!TypeOK'
<1> SUFFICES ASSUME Button!TypeOK, [Button!Next]_Button!buttonVars PROVE Button!TypeOK'
  OBVIOUS
<1>0. /\ DEBOUNCE_DURATION \in Nat /\ press_duration \in Nat \ {0}
      /\ CounterSize \in Nat \ {0} /\ MaxHeld \in Nat /\ MaxPosted \in Nat
      /\ debounce \in 0..DEBOUNCE_DURATION /\ press_counter \in Button!Stopped..press_duration
      /\ press_event_counter \in 0..CounterSize - 1 /\ loaded \in 0..CounterSize - 1
      /\ held \in 0..MaxHeld /\ posted \in 0..MaxPosted
  BY DEF Times, Button!TypeOK
<1>a. /\ Button!Stopped \in Button!Stopped..press_duration
      /\ press_duration \in Button!Stopped..press_duration
  BY <1>0 DEF Button!Stopped
<1>1. CASE Button!Pin
  <2>1. pressed' \in BOOLEAN /\ edge' \in BOOLEAN
    BY <1>1 DEF Button!Pin
  <2> QED
    BY <1>1, <2>1 DEF Button!Pin, Button!TypeOK
<1>2. CASE Button!Tick
  <2>1. debounce' \in 0..DEBOUNCE_DURATION
    BY <1>0, <1>2 DEF Button!Tick
  <2>2. press_counter' \in Button!Stopped..press_duration
    BY <1>0, <1>2 DEF Button!Tick, Button!Stopped
  <2>3. held' \in 0..MaxHeld
    BY <1>0, <1>2 DEF Button!Tick
  <2> QED
    BY <1>2, <2>1, <2>2, <2>3 DEF Button!Tick, Button!TypeOK
<1>3. CASE Button!Ignored
  <2>1. edge' \in BOOLEAN /\ dropped' \in BOOLEAN
    BY <1>3 DEF Button!Ignored
  <2> QED
    BY <1>3, <2>1 DEF Button!Ignored, Button!TypeOK
<1>4. CASE Button!btn_callback
  <2>1. /\ press_counter' \in Button!Stopped..press_duration
        /\ listed' \in BOOLEAN /\ raced' \in BOOLEAN
        /\ raised' \in SUBSET {"above", "below", "change"}
        /\ held' \in 0..MaxHeld
    <3>1. CASE Button!Press
      BY <1>0, <1>a, <3>1 DEF Button!Press, Button!ctimer_set
    <3>2. CASE Button!Release
      BY <1>0, <1>a, <3>2 DEF Button!Release, Button!ctimer_stop
    <3> QED
      BY <1>4, <3>1, <3>2 DEF Button!btn_callback
  <2>2. debounce' \in 0..DEBOUNCE_DURATION /\ press_event_counter' \in 0..CounterSize - 1
    BY <1>0, <1>4 DEF Button!btn_callback
  <2>3. edge' \in BOOLEAN /\ dropped' \in BOOLEAN
    BY <1>4 DEF Button!btn_callback
  <2> QED
    BY <1>4, <2>1, <2>2, <2>3 DEF Button!btn_callback, Button!TypeOK
<1>5. CASE Button!etimer_process
  BY <1>5, <1>a DEF Button!etimer_process, Button!TypeOK
<1>6. CASE Button!ctimer_process
  <2>1. callback' \in {"idle", "counts", "sets"} /\ loaded' \in 0..CounterSize - 1
    BY <1>0, <1>6 DEF Button!ctimer_process, Button!TypeOK
  <2> QED
    BY <1>6, <2>1 DEF Button!ctimer_process, Button!TypeOK
<1>7. CASE Button!Count
  <2>1. (loaded + 1) % CounterSize \in 0..CounterSize - 1
    BY <1>0
  <2> QED
    BY <1>7, <2>1 DEF Button!Count, Button!TypeOK
<1>8. CASE Button!SetAgain
  BY <1>8, <1>a DEF Button!SetAgain, Button!ctimer_set, Button!TypeOK
<1>9. CASE Button!LongPress
  <2>1. posted' \in 0..MaxPosted
    BY <1>0, <1>9 DEF Button!LongPress
  <2> QED
    BY <1>9, <2>1 DEF Button!LongPress, Button!TypeOK
<1>10. CASE UNCHANGED Button!buttonVars
  BY <1>10 DEF Button!buttonVars, Button!TypeOK
<1> QED
  BY <1>1, <1>2, <1>3, <1>4, <1>5, <1>6, <1>7, <1>8, <1>9, <1>10 DEF Button!Next

-----------------------------------------------------------------------------
(* The timer and the pin.                                                  *)

(* A timer that runs is in the list, from which the callback it has may    *)
(* have been taken, so that the expiry does not lose it.                   *)
TimerIsRight ==
    /\ press_counter # Button!Stopped /\ callback = "idle" => listed
    /\ ~dropped /\ ~edge => /\ pressed => Button!Running
                            /\ ~raced /\ Button!Running => pressed

LEMMA StepTimer ==
    ASSUME Times PROVE Button!TypeOK /\ TimerIsRight /\ [Button!Next]_Button!buttonVars => TimerIsRight'
<1> SUFFICES ASSUME Button!TypeOK, TimerIsRight, [Button!Next]_Button!buttonVars
             PROVE  TimerIsRight'
  OBVIOUS
<1>0. /\ press_counter \in Button!Stopped..press_duration /\ press_duration \in Nat \ {0}
      /\ press_duration # Button!Stopped
  BY DEF Button!TypeOK, Times, Button!Stopped
<1>1. CASE Button!Pin
  BY <1>1 DEF Button!Pin, TimerIsRight
<1>2. CASE Button!Tick
  <2>1. press_counter' # Button!Stopped <=> press_counter # Button!Stopped
    BY <1>0, <1>2 DEF Button!Tick, Button!Stopped
  <2> QED
    BY <1>2, <2>1 DEF Button!Tick, TimerIsRight, Button!Running
<1>3. CASE Button!Ignored
  BY <1>3 DEF Button!Ignored, TimerIsRight
<1>4. CASE Button!btn_callback
  <2>1. CASE pressed /\ Button!Press
    BY <1>0, <1>4, <2>1 DEF Button!btn_callback, Button!Press, Button!ctimer_set, TimerIsRight,
                            Button!Running
  <2>2. CASE ~pressed /\ Button!Release
    BY <1>4, <2>2 DEF Button!btn_callback, Button!Release, Button!ctimer_stop, TimerIsRight,
                      Button!Running
  <2> QED
    BY <1>4, <2>1, <2>2 DEF Button!btn_callback
<1>5. CASE Button!etimer_process
  <2>1. listed /\ Button!Running /\ press_counter # Button!Stopped
    BY <1>5 DEF Button!etimer_process, TimerIsRight, Button!Running, Button!Stopped
  <2> QED
    BY <1>5, <2>1 DEF Button!etimer_process, TimerIsRight, Button!Running
<1>6. CASE Button!ctimer_process
  <2>1. CASE listed
    BY <1>6, <2>1 DEF Button!ctimer_process, TimerIsRight, Button!Running
  <2>2. CASE ~listed
    BY <1>6, <2>2 DEF Button!ctimer_process, TimerIsRight, Button!Running
  <2> QED
    BY <2>1, <2>2
<1>7. CASE Button!Count
  BY <1>7 DEF Button!Count, TimerIsRight, Button!Running
<1>8. CASE Button!SetAgain
  BY <1>0, <1>8 DEF Button!SetAgain, Button!ctimer_set, TimerIsRight, Button!Running
<1>9. CASE Button!LongPress
  BY <1>9 DEF Button!LongPress, TimerIsRight, Button!Running
<1>10. CASE UNCHANGED Button!buttonVars
  BY <1>10 DEF Button!buttonVars, TimerIsRight, Button!Running
<1> QED
  BY <1>1, <1>2, <1>3, <1>4, <1>5, <1>6, <1>7, <1>8, <1>9, <1>10 DEF Button!Next

LEMMA TimerIsRightMeans == TimerIsRight => Button!TimerFollowsPin
BY DEF TimerIsRight, Button!TimerFollowsPin

(* The long-press timer runs while the button is pressed, wherever in the  *)
(* timer's expiry and callback an interrupt falls; after a release it runs *)
(* on only when the debounce has ignored the edge or the release fell into *)
(* the callback (btn_callback and duration_exceeded_callback of            *)
(* dev/button-sensor.c).                                                   *)
THEOREM TimerFollows == ASSUME Times PROVE Button!Spec => []Button!TimerFollowsPin
<1>1. Button!Init => Button!TypeOK /\ TimerIsRight
  BY ButtonInitTypeOK DEF Button!Init, TimerIsRight, Button!Running
<1>2. Button!TypeOK /\ TimerIsRight /\ [Button!Next]_Button!buttonVars => Button!TypeOK' /\ TimerIsRight'
  BY ButtonStepTypeOK, StepTimer
<1>3. TimerIsRight => Button!TimerFollowsPin
  BY TimerIsRightMeans
<1> QED
  BY <1>1, <1>2, <1>3, PTL DEF Button!Spec

-----------------------------------------------------------------------------
(* The count of a long press.                                              *)

(* No callback is under way while an expiry waits; unless the last edge    *)
(* met the expiry, the timer that expired is not set anew before its       *)
(* callback does so, and the callback counts on from what it loaded.       *)
ExpiryIsOne ==
    /\ callback # "idle" => ~due
    /\ ~raced => /\ due => press_counter = Button!Stopped
                 /\ callback = "counts" => /\ press_counter = Button!Stopped
                                           /\ loaded = press_event_counter

(* The intervals counted, the one that has run out and the part of the     *)
(* running one are within the time the button has been held.               *)
HeldCovers ==
    ~dropped /\ ~raced /\ ~edge /\ held < MaxHeld =>
        /\ ~pressed => press_event_counter = 0
        /\ pressed => LET n == press_event_counter * press_duration
                      IN /\ press_counter # Button!Stopped
                               => held >= n + (press_duration - press_counter)
                         /\ due /\ listed => held >= n + press_duration
                         /\ callback = "counts" => held >= n + press_duration
                         /\ callback = "sets" => held >= n

LEMMA StepExpiry == Button!TypeOK /\ ExpiryIsOne /\ [Button!Next]_Button!buttonVars => ExpiryIsOne'
<1> SUFFICES ASSUME Button!TypeOK, ExpiryIsOne, [Button!Next]_Button!buttonVars
             PROVE  ExpiryIsOne'
  OBVIOUS
<1>1. CASE Button!Pin
  BY <1>1 DEF Button!Pin, ExpiryIsOne
<1>2. CASE Button!Tick
  BY <1>2 DEF Button!Tick, ExpiryIsOne, Button!Stopped
<1>3. CASE Button!Ignored
  BY <1>3 DEF Button!Ignored, ExpiryIsOne
<1>4. CASE Button!btn_callback
  <2>1. CASE Button!Press
    BY <1>4, <2>1 DEF Button!btn_callback, Button!Press, ExpiryIsOne
  <2>2. CASE Button!Release
    BY <1>4, <2>2 DEF Button!btn_callback, Button!Release, Button!ctimer_stop, ExpiryIsOne
  <2> QED
    BY <1>4, <2>1, <2>2 DEF Button!btn_callback
<1>5. CASE Button!etimer_process
  BY <1>5 DEF Button!etimer_process, ExpiryIsOne
<1>6. CASE Button!ctimer_process
  BY <1>6 DEF Button!ctimer_process, ExpiryIsOne
<1>7. CASE Button!Count
  BY <1>7 DEF Button!Count, ExpiryIsOne
<1>8. CASE Button!SetAgain
  BY <1>8 DEF Button!SetAgain, ExpiryIsOne
<1>9. CASE Button!LongPress
  BY <1>9 DEF Button!LongPress, ExpiryIsOne
<1>10. CASE UNCHANGED Button!buttonVars
  BY <1>10 DEF Button!buttonVars, ExpiryIsOne
<1> QED
  BY <1>1, <1>2, <1>3, <1>4, <1>5, <1>6, <1>7, <1>8, <1>9, <1>10 DEF Button!Next

LEMMA Intervals ==
    ASSUME Times
    PROVE  \A n \in Nat : n * press_duration \in Nat
                          /\ (n + 1) * press_duration = n * press_duration + press_duration
BY DEF Times

LEMMA StepHeld ==
    ASSUME Times
    PROVE  Button!TypeOK /\ TimerIsRight /\ ExpiryIsOne /\ HeldCovers
             /\ [Button!Next]_Button!buttonVars => HeldCovers'
<1> SUFFICES ASSUME Button!TypeOK, TimerIsRight, ExpiryIsOne, HeldCovers,
                    [Button!Next]_Button!buttonVars,
                    ~dropped', ~raced', ~edge', held' < MaxHeld
             PROVE  /\ ~pressed' => press_event_counter' = 0
                    /\ pressed' =>
                          /\ press_counter' # Button!Stopped
                                => held' >= press_event_counter' * press_duration
                                              + (press_duration - press_counter')
                          /\ due' /\ listed'
                                => held' >= press_event_counter' * press_duration + press_duration
                          /\ callback' = "counts"
                                => held' >= press_event_counter' * press_duration + press_duration
                          /\ callback' = "sets"
                                => held' >= press_event_counter' * press_duration
  BY DEF HeldCovers
<1> DEFINE n == press_event_counter * press_duration
           Before == /\ ~pressed => press_event_counter = 0
                     /\ pressed => /\ press_counter # Button!Stopped
                                        => held >= n + (press_duration - press_counter)
                                   /\ due /\ listed => held >= n + press_duration
                                   /\ callback = "counts" => held >= n + press_duration
                                   /\ callback = "sets" => held >= n
<1>0. /\ press_counter \in Button!Stopped..press_duration /\ press_duration \in Nat \ {0}
      /\ press_event_counter \in Nat /\ press_event_counter < CounterSize
      /\ CounterSize \in Nat \ {0} /\ held \in Nat /\ MaxHeld \in Nat /\ held <= MaxHeld
      /\ n \in Nat
      /\ (press_event_counter + 1) * press_duration = n + press_duration
      /\ 0 * press_duration = 0
  BY Intervals DEF Button!TypeOK, Times
<1>a. ~dropped /\ ~raced /\ ~edge /\ held < MaxHeld => Before
  BY DEF HeldCovers
<1>1. CASE Button!Pin
  BY <1>1 DEF Button!Pin
<1>2. CASE Button!Tick
  <2>1. /\ ~dropped /\ ~edge /\ ~raced /\ held < MaxHeld
        /\ UNCHANGED <<pressed, press_event_counter, due, listed, callback>>
        /\ pressed => held' = held + 1
        /\ press_counter' = IF press_counter > 0 THEN press_counter - 1 ELSE press_counter
    BY <1>0, <1>2 DEF Button!Tick
  <2>2. Before
    BY <1>a, <2>1
  <2>3. n = press_event_counter' * press_duration
    BY <2>1
  <2> HIDE DEF n
  <2>4. pressed /\ press_counter' # Button!Stopped => held' >= n + (press_duration - press_counter')
    BY <1>0, <2>1, <2>2 DEF Button!Stopped
  <2>5. pressed => /\ due /\ listed => held' >= n + press_duration
                   /\ callback = "counts" => held' >= n + press_duration
                   /\ callback = "sets" => held' >= n
    BY <1>0, <2>1, <2>2
  <2> QED
    BY <2>1, <2>2, <2>3, <2>4, <2>5
<1>3. CASE Button!Ignored
  BY <1>3 DEF Button!Ignored
<1>4. CASE Button!btn_callback
  <2>1. press_event_counter' = 0 /\ UNCHANGED <<pressed, due, callback>>
    BY <1>4 DEF Button!btn_callback
  <2>2. CASE pressed
    <3>1. held' = 0 /\ press_counter' = press_duration /\ ~due /\ callback # "counts"
      BY <1>4, <2>2 DEF Button!btn_callback, Button!Press, Button!ctimer_set
    <3> QED
      BY <1>0, <2>1, <3>1
  <2> QED
    BY <2>1, <2>2
<1>b. SUFFICES ASSUME ~Button!Pin, ~Button!Tick, ~Button!Ignored, ~Button!btn_callback
               PROVE  /\ ~pressed' => press_event_counter' = 0
                      /\ pressed' =>
                          /\ press_counter' # Button!Stopped
                                => held' >= press_event_counter' * press_duration
                                              + (press_duration - press_counter')
                          /\ due' /\ listed'
                                => held' >= press_event_counter' * press_duration + press_duration
                          /\ callback' = "counts"
                                => held' >= press_event_counter' * press_duration + press_duration
                          /\ callback' = "sets"
                                => held' >= press_event_counter' * press_duration
  BY <1>1, <1>2, <1>3, <1>4
<1>c. UNCHANGED <<dropped, raced, edge, held, pressed>>
  BY <1>b DEF Button!Next, Button!etimer_process, Button!ctimer_process, Button!Count,
              Button!SetAgain, Button!LongPress, Button!buttonVars
<1>d. Before /\ ~dropped /\ ~raced /\ ~edge
  BY <1>a, <1>c
<1>5. CASE Button!etimer_process
  <2>1. /\ press_counter = 0 /\ press_counter' = Button!Stopped
        /\ UNCHANGED <<press_event_counter, callback>>
    BY <1>5 DEF Button!etimer_process
  <2>2. pressed => held >= n + (press_duration - 0)
    BY <1>d, <2>1 DEF Button!Stopped
  <2>3. n = press_event_counter' * press_duration
    BY <2>1
  <2> HIDE DEF n
  <2>4. pressed => held >= n + press_duration
    BY <1>0, <2>2
  <2> QED
    BY <1>c, <1>d, <2>1, <2>3, <2>4
<1>6. CASE Button!ctimer_process
  <2>1. /\ due /\ ~due' /\ UNCHANGED <<press_event_counter, press_counter>>
        /\ callback' = "counts" => listed
        /\ callback' # "sets"
    BY <1>6 DEF Button!ctimer_process
  <2>2. n = press_event_counter' * press_duration
    BY <2>1
  <2> HIDE DEF n
  <2> QED
    BY <1>c, <1>d, <2>1, <2>2
<1>7. CASE Button!Count
  <2>1. /\ callback = "counts" /\ callback' = "sets" /\ UNCHANGED <<due, press_counter>>
        /\ press_event_counter' = (loaded + 1) % CounterSize
    BY <1>7 DEF Button!Count
  <2>2. ~due /\ press_counter = Button!Stopped /\ loaded = press_event_counter
    BY <1>d, <2>1 DEF ExpiryIsOne
  <2>3. pressed /\ held >= n + press_duration
    <3>1. pressed
      BY <1>d, <2>1 DEF TimerIsRight, Button!Running
    <3> QED
      BY <1>d, <2>1, <3>1
  <2>4. press_event_counter' \in {0, press_event_counter + 1}
    BY <1>0, <2>1, <2>2
  <2>5. press_event_counter' * press_duration \in {0, n + press_duration}
    BY <1>0, <2>4
  <2> DEFINE m == press_event_counter' * press_duration
  <2> HIDE DEF n
  <2>6. m \in {0, n + press_duration}
    BY <2>5
  <2> HIDE DEF m
  <2>7. held >= m
    BY <1>0, <2>3, <2>6
  <2> QED
    BY <1>c, <2>1, <2>2, <2>3, <2>7 DEF m
<1>8. CASE Button!SetAgain
  <2>1. /\ callback = "sets" /\ callback' = "idle" /\ press_counter' = press_duration
        /\ UNCHANGED <<due, press_event_counter>>
    BY <1>8 DEF Button!SetAgain, Button!ctimer_set
  <2>2. ~due
    BY <2>1 DEF ExpiryIsOne
  <2>3. n = press_event_counter' * press_duration
    BY <2>1
  <2> HIDE DEF n
  <2>4. pressed => held' >= n + (press_duration - press_counter')
    BY <1>0, <1>c, <1>d, <2>1
  <2> QED
    BY <1>c, <1>d, <2>1, <2>2, <2>3, <2>4
<1>9. CASE Button!LongPress
  BY <1>c, <1>d, <1>9 DEF Button!LongPress
<1>10. CASE UNCHANGED Button!buttonVars
  BY <1>c, <1>d, <1>10 DEF Button!buttonVars
<1> QED
  BY <1>b, <1>5, <1>6, <1>7, <1>8, <1>9, <1>10 DEF Button!Next

LEMMA HeldCoversMeans ==
    ASSUME Times PROVE Button!TypeOK /\ TimerIsRight /\ HeldCovers => Button!CountedIsHeld
<1> SUFFICES ASSUME Button!TypeOK, TimerIsRight, HeldCovers,
                    ~dropped, ~raced, ~edge, held < MaxHeld
             PROVE  held >= press_event_counter * press_duration
  BY DEF Button!CountedIsHeld
<1> DEFINE n == press_event_counter * press_duration
<1>1. /\ press_event_counter \in Nat /\ held \in Nat /\ press_duration \in Nat
      /\ press_counter \in Button!Stopped..press_duration
      /\ callback \in {"idle", "counts", "sets"}
  BY DEF Button!TypeOK, Times
<1>2. n \in Nat /\ 0 * press_duration = 0
  BY <1>1, Intervals
<1>3. CASE ~pressed
  <2>1. n = 0
    BY <1>2, <1>3 DEF HeldCovers
  <2> HIDE DEF n
  <2>2. held >= n
    BY <1>1, <2>1
  <2> QED
    BY <2>2 DEF n
<1>4. CASE pressed
  <2>1. Button!Running
    BY <1>4 DEF TimerIsRight
  <2>2. /\ press_counter # Button!Stopped => held >= n + (press_duration - press_counter)
        /\ due /\ listed => held >= n + press_duration
        /\ callback = "counts" => held >= n + press_duration
        /\ callback = "sets" => held >= n
    BY <1>4 DEF HeldCovers
  <2> HIDE DEF n
  <2>3. held >= n
    BY <1>1, <1>2, <2>1, <2>2 DEF Button!Running, Button!Stopped
  <2> QED
    BY <2>3 DEF n
<1> QED
  BY <1>3, <1>4

(* An interval of a long press is counted only when the button has been    *)
(* held for it, whatever the order of the interrupts, the steps of the     *)
(* timer and its callback, unless the last edge was ignored or met the     *)
(* expiry (duration_exceeded_callback of dev/button-sensor.c).             *)
THEOREM CountIsHeld == ASSUME Times PROVE Button!Spec => []Button!CountedIsHeld
<1>1. Button!Init => Button!TypeOK /\ TimerIsRight /\ ExpiryIsOne /\ HeldCovers
  BY ButtonInitTypeOK DEF Button!Init, TimerIsRight, ExpiryIsOne, HeldCovers, Button!Running
<1>2. Button!TypeOK /\ TimerIsRight /\ ExpiryIsOne /\ HeldCovers /\ [Button!Next]_Button!buttonVars
        => Button!TypeOK' /\ TimerIsRight' /\ ExpiryIsOne' /\ HeldCovers'
  BY ButtonStepTypeOK, StepTimer, StepExpiry, StepHeld
<1>3. Button!TypeOK /\ TimerIsRight /\ HeldCovers => Button!CountedIsHeld
  BY HeldCoversMeans
<1> QED
  BY <1>1, <1>2, <1>3, PTL DEF Button!Spec

-----------------------------------------------------------------------------
(*                            The uart proxy                               *)
-----------------------------------------------------------------------------

Commands == {"count", "config", "updateAll", "setval"}
Replies == {"count", "config", "value_update", "event", "updateval", "none"}
Requests == [seqno : 0..255, cmd : Commands, id : Nat]
AllFrames == [seqno : 0..255, cmd : Replies, id : Nat, val : Nat]
Rows == [id : Nat, conf : Nat, lastval : Nat, level : Nat]
Readings == {"value_update", "event"}

ProxyTyped ==
    /\ phase \in {"count", "config", "run"}
    /\ msgid \in Nat /\ j \in 0..NSensors /\ available \in {0, NSensors}
    /\ list \in Seq(Rows)
    /\ toDev \in Seq(Requests) /\ toNode \in Seq(AllFrames)
    /\ buffers \in [0..RX_BUFFERS - 1 -> AllFrames] /\ activebuffer \in 0..RX_BUFFERS - 1
    /\ frames \in Seq(0..RX_BUFFERS - 1)
    /\ reading \in Nat /\ own \in 0..MaxOwn /\ puts \in 0..MaxPuts /\ inTime \in BOOLEAN

(* A request or an answer of the handshake has the number of its sensor,   *)
(* counted from two, and is not ahead of the sensor asked for.             *)
RequestOK(r) ==
    /\ r.cmd = "count" => r.seqno = 1
    /\ r.cmd = "config" => r.seqno = r.id + 2 /\ r.id <= j
    /\ r.cmd = "updateAll" => phase = "run" /\ r.seqno # Proxy!OwnSeqno
FrameOK(f) ==
    /\ f.cmd = "count" => f.seqno = 1 /\ f.val = NSensors
    /\ f.cmd = "config" => f.seqno = f.id + 2 /\ f.id <= j
    /\ f.cmd \in Readings \cup {"updateval"} => phase = "run" \/ f.seqno = Proxy!OwnSeqno
    /\ f.cmd = "none" => f = Proxy!Nothing

(* Where the handshake is: the number last used is that of the sensor      *)
(* asked for, unless a PUT has taken one since.                            *)
Handshake ==
    /\ phase = "count" => msgid = 1 /\ j = 0 /\ available = 0 /\ puts = 0
    /\ phase = "config" => /\ available = NSensors /\ j < NSensors /\ msgid = j + 2 + puts
                           /\ EarlyPuts \/ puts = 0
    /\ Len(list) <= j /\ Len(list) <= MAX_RESOURCES
    /\ phase # "run" /\ Len(list) < MAX_RESOURCES => Len(list) = j
    /\ \A k \in DOMAIN toDev : RequestOK(toDev[k])
    /\ \A k \in DOMAIN toNode : FrameOK(toNode[k])
    /\ \A b \in 0..RX_BUFFERS - 1 : FrameOK(buffers[b])
    /\ \A i \in DOMAIN list : list[i].id = i - 1 /\ list[i].conf = i - 1

-----------------------------------------------------------------------------

LEMMA InitHandshake == ASSUME Numbering, Proxy!uartsensors_init PROVE ProxyTyped /\ Handshake
<1>1. ProxyTyped
  <2>1. 1 % RX_BUFFERS \in 0..RX_BUFFERS - 1
    BY DEF Numbering
  <2>2. Proxy!Nothing \in AllFrames
    BY DEF Proxy!Nothing, AllFrames, Replies
  <2>3. [seqno |-> 1, cmd |-> "count", id |-> 0] \in Requests
    BY DEF Requests, Commands
  <2> QED
    BY <2>1, <2>2, <2>3 DEF Proxy!uartsensors_init, ProxyTyped, Numbering
<1>2. Handshake
  BY DEF Proxy!uartsensors_init, Handshake, RequestOK, FrameOK, Proxy!Nothing, Numbering, Readings
<1> QED
  BY <1>1, <1>2

(* Only the answer to the request that is open is right: the count, or     *)
(* the configuration of the sensor asked for.                              *)
LEMMA RightFrame ==
    ASSUME Numbering, ProxyTyped, Handshake, phase # "run",
           NEW f \in AllFrames, FrameOK(f), Proxy!Right(f)
    PROVE  /\ phase = "count" => f.val = NSensors
           /\ phase = "config" => f.id = j /\ msgid = j + 2
<1>1. f.seqno = msgid /\ f # Proxy!Nothing
  BY DEF Proxy!Right
<1>2. f.seqno \in 0..255 /\ f.cmd \in Replies /\ f.id \in Nat
  BY DEF AllFrames
<1>3. CASE phase = "count"
  BY <1>1, <1>2, <1>3 DEF Handshake, FrameOK, Replies, Readings, Proxy!OwnSeqno
<1>4. CASE phase = "config"
  <2>1. msgid = j + 2 + puts /\ j < NSensors /\ (EarlyPuts \/ puts = 0)
    BY <1>4 DEF Handshake
  <2>2. puts \in 0..MaxPuts /\ j \in 0..NSensors
    BY DEF ProxyTyped
  <2>3. msgid # 1 /\ msgid < Proxy!OwnSeqno
    BY <2>1, <2>2 DEF Numbering, Proxy!OwnSeqno
  <2>4. f.cmd = "config"
    BY <1>1, <1>2, <1>4, <2>3 DEF FrameOK, Replies, Readings
  <2>5. f.id + 2 = j + 2 + puts /\ f.id <= j
    BY <1>1, <2>1, <2>4 DEF FrameOK
  <2> QED
    BY <1>2, <1>4, <2>2, <2>5, <2>1
<1> QED
  BY <1>3, <1>4 DEF ProxyTyped

LEMMA AnswersFit ==
    ASSUME Numbering, ProxyTyped, NEW r \in Requests, RequestOK(r)
    PROVE  /\ Proxy!Answers(r) \in Seq(AllFrames)
           /\ \A k \in DOMAIN Proxy!Answers(r) : FrameOK(Proxy!Answers(r)[k])
<1>1. r.seqno \in 0..255 /\ r.cmd \in Commands /\ r.id \in Nat
  BY DEF Requests
<1>2. CASE r.cmd = "count"
  <2>1. Proxy!Answers(r) = <<Proxy!Frame(r.seqno, "count", 0, NSensors)>>
    BY <1>2 DEF Proxy!Answers
  <2>2. Proxy!Frame(r.seqno, "count", 0, NSensors) \in AllFrames
    BY <1>1 DEF Proxy!Frame, AllFrames, Replies, Numbering
  <2>3. FrameOK(Proxy!Frame(r.seqno, "count", 0, NSensors))
    BY <1>2 DEF Proxy!Frame, FrameOK, RequestOK, Readings
  <2> QED
    BY <2>1, <2>2, <2>3
<1>3. CASE r.cmd = "config" /\ r.id \in Proxy!Ids
  <2>1. Proxy!Answers(r) = <<Proxy!Frame(r.seqno, "config", r.id, 0)>>
    BY <1>3 DEF Proxy!Answers
  <2>2. Proxy!Frame(r.seqno, "config", r.id, 0) \in AllFrames
    BY <1>1 DEF Proxy!Frame, AllFrames, Replies
  <2>3. FrameOK(Proxy!Frame(r.seqno, "config", r.id, 0))
    BY <1>3 DEF Proxy!Frame, FrameOK, RequestOK, Readings
  <2> QED
    BY <2>1, <2>2, <2>3
<1>4. CASE r.cmd = "updateAll"
  <2>1. Proxy!Answers(r)
            = [i \in 1..NSensors |-> Proxy!Frame(r.seqno, "value_update", i - 1, reading)]
    BY <1>4 DEF Proxy!Answers
  <2>2. \A i \in 1..NSensors : Proxy!Frame(r.seqno, "value_update", i - 1, reading) \in AllFrames
    BY <1>1 DEF Proxy!Frame, AllFrames, Replies, ProxyTyped, Numbering
  <2>3. \A i \in 1..NSensors : FrameOK(Proxy!Frame(r.seqno, "value_update", i - 1, reading))
    BY <1>4 DEF Proxy!Frame, FrameOK, RequestOK, Readings
  <2> HIDE DEF AllFrames, FrameOK, Proxy!Frame
  <2>4. Proxy!Answers(r) \in Seq(AllFrames) /\ DOMAIN Proxy!Answers(r) = 1..NSensors
    BY <2>1, <2>2 DEF Numbering
  <2> QED
    BY <2>1, <2>3, <2>4
<1>5. CASE r.cmd # "count" /\ ~(r.cmd = "config" /\ r.id \in Proxy!Ids) /\ r.cmd # "updateAll"
  <2>1. Proxy!Answers(r) = <<>>
    BY <1>5 DEF Proxy!Answers
  <2> QED
    BY <2>1
<1> QED
  BY <1>2, <1>3, <1>4, <1>5

LEMMA DeviceAnswersHandshake ==
    ASSUME Numbering, ProxyTyped, Handshake, Proxy!DeviceAnswers PROVE ProxyTyped' /\ Handshake'
<1> DEFINE a == Proxy!Answers(Head(toDev))
<1>1. Head(toDev) \in Requests /\ RequestOK(Head(toDev))
  BY DEF Proxy!DeviceAnswers, ProxyTyped, Handshake
<1>2. a \in Seq(AllFrames) /\ \A k \in DOMAIN a : FrameOK(a[k])
  BY <1>1, AnswersFit
<1>3. toDev \in Seq(Requests) /\ toDev # <<>> /\ toDev' = Tail(toDev)
  BY DEF Proxy!DeviceAnswers, ProxyTyped
<1>4. /\ toDev' \in Seq(Requests)
      /\ \A k \in DOMAIN toDev' : k + 1 \in DOMAIN toDev /\ toDev'[k] = toDev[k + 1]
  BY <1>3
<1>5. toNode' = toNode \o a /\ toNode \in Seq(AllFrames)
  BY DEF Proxy!DeviceAnswers, ProxyTyped
<1> HIDE DEF a
<1>6. /\ toNode' \in Seq(AllFrames)
      /\ \A k \in DOMAIN toNode' : \/ k \in DOMAIN toNode /\ toNode'[k] = toNode[k]
                                   \/ \E i \in DOMAIN a : toNode'[k] = a[i]
  <2>1. toNode' \in Seq(AllFrames) /\ Len(toNode') = Len(toNode) + Len(a)
    BY <1>2, <1>5
  <2>2. \A k \in 1..Len(toNode) : toNode'[k] = toNode[k]
    BY <1>2, <1>5
  <2>3. \A k \in Len(toNode) + 1..Len(toNode) + Len(a) :
            k - Len(toNode) \in 1..Len(a) /\ toNode'[k] = a[k - Len(toNode)]
    BY <1>2, <1>5
  <2>4. \A k \in 1..Len(toNode') :
            k \in 1..Len(toNode) \/ k \in Len(toNode) + 1..Len(toNode) + Len(a)
    BY <2>1, <1>2, <1>5
  <2> QED
    BY <2>1, <2>2, <2>3, <2>4, <1>2, <1>5
<1>7. UNCHANGED <<phase, msgid, j, available, list, buffers, activebuffer, frames, reading, own,
                  puts, inTime>>
  BY DEF Proxy!DeviceAnswers
<1>8. ProxyTyped'
  BY <1>4, <1>6, <1>7 DEF ProxyTyped
<1>9. \A r : RequestOK(r)' <=> RequestOK(r)
  BY <1>7 DEF RequestOK
<1>10. (\A k \in DOMAIN toDev : RequestOK(toDev[k]))'
  BY <1>4, <1>9 DEF Handshake, RequestOK
<1> QED
  BY <1>8, <1>2, <1>6, <1>7, <1>10 DEF Handshake, FrameOK

LEMMA DeviceSpeaksHandshake ==
    ASSUME Numbering, ProxyTyped, Handshake, Proxy!DeviceSpeaks PROVE ProxyTyped' /\ Handshake'
<1>1. PICK id \in Proxy!Ids, cmd \in {"event", "value_update", "updateval"} :
          toNode' = Append(toNode, Proxy!Frame(Proxy!OwnSeqno, cmd, id, reading'))
  BY DEF Proxy!DeviceSpeaks
<1> DEFINE f == Proxy!Frame(Proxy!OwnSeqno, cmd, id, reading')
<1>2. reading' = reading + 1 /\ own' = own + 1 /\ own < MaxOwn
  BY DEF Proxy!DeviceSpeaks
<1>3. f \in AllFrames
  BY <1>2 DEF Proxy!Frame, AllFrames, Replies, Proxy!OwnSeqno, Proxy!Ids, ProxyTyped, Numbering
<1>4. FrameOK(f)
  BY DEF FrameOK, Proxy!Frame, Readings
<1> HIDE DEF f
<1>5. UNCHANGED <<phase, msgid, j, available, list, toDev, buffers, activebuffer, frames, puts,
                  inTime>>
  BY DEF Proxy!DeviceSpeaks
<1>6. toNode \in Seq(AllFrames) /\ toNode' = Append(toNode, f)
  BY <1>1 DEF ProxyTyped, f
<1>7. /\ toNode' \in Seq(AllFrames)
      /\ \A k \in DOMAIN toNode' :
            (k \in DOMAIN toNode /\ toNode'[k] = toNode[k]) \/ toNode'[k] = f
  BY <1>3, <1>6
<1>8. ProxyTyped'
  BY <1>2, <1>5, <1>7 DEF ProxyTyped, Numbering
<1>9. (\A k \in DOMAIN toDev : RequestOK(toDev[k]))'
  BY <1>5 DEF Handshake, RequestOK
<1> QED
  BY <1>4, <1>5, <1>7, <1>8, <1>9 DEF Handshake, FrameOK

LEMMA ReceiveHandshake ==
    ASSUME Numbering, ProxyTyped, Handshake, Proxy!proxy_rx_callback PROVE ProxyTyped' /\ Handshake'
<1>1. toNode \in Seq(AllFrames) /\ toNode # <<>> /\ toNode' = Tail(toNode)
  BY DEF Proxy!proxy_rx_callback, ProxyTyped
<1>2. UNCHANGED <<phase, msgid, j, available, list, toDev, reading, own, puts, inTime>>
  BY DEF Proxy!proxy_rx_callback
<1>3. Head(toNode) \in AllFrames /\ FrameOK(Head(toNode))
  BY <1>1 DEF Handshake
<1>4. Proxy!Nothing \in AllFrames /\ FrameOK(Proxy!Nothing)
  BY DEF Proxy!Nothing, AllFrames, Replies, FrameOK, Readings
<1>5. activebuffer' \in 0..RX_BUFFERS - 1
  BY DEF Proxy!proxy_rx_callback, Proxy!switchbuffer, Proxy!Following, ProxyTyped, Numbering
<1>6. buffers' = [buffers EXCEPT ![activebuffer] = Head(toNode), ![activebuffer'] = Proxy!Nothing]
  BY DEF Proxy!proxy_rx_callback, Proxy!switchbuffer
<1>7. /\ buffers' \in [0..RX_BUFFERS - 1 -> AllFrames]
      /\ \A b \in 0..RX_BUFFERS - 1 : buffers'[b] \in {buffers[b], Head(toNode), Proxy!Nothing}
  <2> HIDE DEF AllFrames, Proxy!Nothing
  <2> QED
    BY <1>3, <1>4, <1>5, <1>6 DEF ProxyTyped
<1>8. frames' \in Seq(0..RX_BUFFERS - 1)
  BY DEF Proxy!proxy_rx_callback, Proxy!Ready, ProxyTyped
<1>9. /\ toNode' \in Seq(AllFrames)
      /\ \A k \in DOMAIN toNode' : k + 1 \in DOMAIN toNode /\ toNode'[k] = toNode[k + 1]
  BY <1>1
<1>10. ProxyTyped'
  BY <1>2, <1>5, <1>7, <1>8, <1>9 DEF ProxyTyped
<1>11. (\A k \in DOMAIN toDev : RequestOK(toDev[k]))'
  BY <1>2 DEF Handshake, RequestOK
<1>12. \A b \in 0..RX_BUFFERS - 1 : FrameOK(buffers'[b])
  BY <1>3, <1>4, <1>7 DEF Handshake
<1>13. \A k \in DOMAIN toNode' : FrameOK(toNode'[k])
  BY <1>9 DEF Handshake
<1> QED
  BY <1>2, <1>10, <1>11, <1>12, <1>13 DEF Handshake, FrameOK

LEMMA PutHandshake ==
    ASSUME Numbering, ProxyTyped, Handshake, Proxy!uartsensors_setEventVal
    PROVE  ProxyTyped' /\ Handshake'
<1>1. PICK i \in DOMAIN list :
          toDev' = Append(toDev, [seqno |-> msgid' % 256, cmd |-> "setval", id |-> list[i].id])
  BY DEF Proxy!uartsensors_setEventVal
<1> DEFINE r == [seqno |-> msgid' % 256, cmd |-> "setval", id |-> list[i].id]
<1>2. /\ phase = "run" \/ EarlyPuts
      /\ puts < MaxPuts /\ puts' = puts + 1 /\ msgid' = msgid + 1
      /\ UNCHANGED <<phase, j, available, list, toNode, buffers, activebuffer, frames, reading, own,
                     inTime>>
  BY DEF Proxy!uartsensors_setEventVal
<1>3. r \in Requests /\ r.cmd = "setval"
  <2>1. list[i].id \in Nat
    <3>1. list[i] \in Rows
      BY DEF ProxyTyped
    <3> QED
      BY <3>1 DEF Rows
  <2>2. msgid' % 256 \in 0..255
    BY <1>2 DEF ProxyTyped
  <2> QED
    BY <2>1, <2>2 DEF Requests, Commands, r
<1> HIDE DEF r
<1>4. toDev \in Seq(Requests) /\ toDev' = Append(toDev, r)
  BY <1>1 DEF ProxyTyped, r
<1>5. /\ toDev' \in Seq(Requests)
      /\ \A k \in DOMAIN toDev' : (k \in DOMAIN toDev /\ toDev'[k] = toDev[k]) \/ toDev'[k] = r
  BY <1>3, <1>4
<1>6. ProxyTyped'
  BY <1>2, <1>5 DEF ProxyTyped, Numbering
<1>7. (\A k \in DOMAIN toDev : RequestOK(toDev[k]))'
  BY <1>2, <1>3, <1>5 DEF Handshake, RequestOK
<1>8. phase # "count"
  BY <1>1 DEF Handshake, ProxyTyped
<1>9. /\ (\A k \in DOMAIN toNode : FrameOK(toNode[k]))'
      /\ (\A b \in 0..RX_BUFFERS - 1 : FrameOK(buffers[b]))'
  BY <1>2 DEF Handshake, FrameOK
<1>10. phase = "config" => msgid' = j + 2 + puts'
  BY <1>2 DEF Handshake, ProxyTyped
<1>11. phase' # "count" /\ (phase' = "config" => EarlyPuts)
  BY <1>2, <1>8
<1> QED
  BY <1>2, <1>7, <1>9, <1>10, <1>11, <1>6 DEF Handshake

(* The node's step leaves the frames and the other requests right.         *)
LEMMA StillOK ==
    ASSUME j \in Nat, j' \in Nat, j <= j', phase = "run" => phase' = "run"
    PROVE  /\ \A r \in Requests : RequestOK(r) => RequestOK(r)'
           /\ \A f \in AllFrames : FrameOK(f) => FrameOK(f)'
BY DEF RequestOK, FrameOK, Requests, AllFrames

LEMMA PostedTail ==
    ASSUME NEW S, NEW s \in Seq(S), s # <<>>
    PROVE  Head(s) \in S /\ Tail(s) \in Seq(S)
OBVIOUS

(* A reading changes no row's number or configuration.                     *)
LEMMA RunHandshake ==
    ASSUME Numbering, ProxyTyped, Handshake, Proxy!uartsensors_server, phase = "run"
    PROVE  ProxyTyped' /\ Handshake'
<1> DEFINE f == buffers[Head(frames)]
<1>1. Proxy!handleSensorMessages(f)
  BY DEF Proxy!uartsensors_server
<1>2. UNCHANGED <<phase, msgid, j, available, toDev, toNode, buffers, activebuffer, reading, own,
                  puts, inTime>>
  BY DEF Proxy!uartsensors_server
<1>3. frames \in Seq(0..RX_BUFFERS - 1) /\ frames # <<>> /\ frames' = Tail(frames)
  BY DEF Proxy!uartsensors_server, ProxyTyped
<1>4. frames' \in Seq(0..RX_BUFFERS - 1) /\ f \in AllFrames
  <2>1. Head(frames) \in 0..RX_BUFFERS - 1 /\ frames' \in Seq(0..RX_BUFFERS - 1)
    BY <1>3, PostedTail
  <2> QED
    BY <2>1 DEF ProxyTyped
<1> HIDE DEF f
<1>5. f.val \in Nat
  BY <1>4 DEF AllFrames
<1>6. list \in Seq(Rows) /\ Len(list) \in Nat /\ DOMAIN list = 1..Len(list)
  BY DEF ProxyTyped
<1> DEFINE row(i) ==
        IF list[i].id # f.id THEN list[i]
        ELSE CASE f.cmd \in {"event", "value_update"} -> [list[i] EXCEPT !.lastval = f.val]
               [] f.cmd = "updateval" -> [list[i] EXCEPT !.level = f.val]
               [] OTHER -> list[i]
<1>7. list' = [i \in DOMAIN list |-> row(i)]
  BY <1>1 DEF Proxy!handleSensorMessages
<1>8. \A i \in DOMAIN list : row(i) \in Rows /\ row(i).id = list[i].id /\ row(i).conf = list[i].conf
  <2> TAKE i \in DOMAIN list
  <2>1. list[i] \in Rows
    BY <1>6
  <2>2. CASE list[i].id = f.id /\ f.cmd \in {"event", "value_update"}
    BY <1>5, <2>1, <2>2 DEF Rows
  <2>3. CASE list[i].id = f.id /\ f.cmd = "updateval"
    BY <1>5, <2>1, <2>3 DEF Rows
  <2>4. CASE list[i].id # f.id \/ f.cmd \notin {"event", "value_update", "updateval"}
    BY <2>1, <2>4
  <2> QED
    BY <2>2, <2>3, <2>4
<1> HIDE DEF row
<1>9. list' \in Seq(Rows) /\ DOMAIN list' = DOMAIN list /\ Len(list') = Len(list)
  <2>1. list' \in [1..Len(list) -> Rows]
    BY <1>6, <1>7, <1>8
  <2> QED
    BY <2>1, <1>6
<1>10. ProxyTyped'
  BY <1>2, <1>4, <1>9 DEF ProxyTyped
<1>11. \A i \in DOMAIN list' : list'[i].id = i - 1 /\ list'[i].conf = i - 1
  BY <1>7, <1>8, <1>9 DEF Handshake
<1>12. (\A k \in DOMAIN toDev : RequestOK(toDev[k]))'
  BY <1>2 DEF Handshake, RequestOK
<1>13. /\ (\A k \in DOMAIN toNode : FrameOK(toNode[k]))'
       /\ (\A b \in 0..RX_BUFFERS - 1 : FrameOK(buffers[b]))'
  BY <1>2 DEF Handshake, FrameOK
<1> QED
  BY <1>2, <1>9, <1>10, <1>11, <1>12, <1>13 DEF Handshake

(* The frame waited for takes the handshake to the next sensor, or to the  *)
(* readings.                                                               *)
LEMMA ResumeHandshake ==
    ASSUME Numbering, ProxyTyped, Handshake, Proxy!uartsensors_server, phase # "run"
    PROVE  ProxyTyped' /\ Handshake'
<1> DEFINE f == buffers[Head(frames)]
<1>1. Proxy!initResources(f)
  BY DEF Proxy!uartsensors_server
<1>2. UNCHANGED <<toNode, buffers, activebuffer, reading, own, puts, inTime>>
  BY DEF Proxy!uartsensors_server
<1>3. frames \in Seq(0..RX_BUFFERS - 1) /\ frames # <<>> /\ frames' = Tail(frames)
  BY DEF Proxy!uartsensors_server, ProxyTyped
<1>4. frames' \in Seq(0..RX_BUFFERS - 1) /\ f \in AllFrames /\ FrameOK(f)
  <2>1. Head(frames) \in 0..RX_BUFFERS - 1 /\ frames' \in Seq(0..RX_BUFFERS - 1)
    BY <1>3, PostedTail
  <2> QED
    BY <2>1 DEF ProxyTyped, Handshake
<1> HIDE DEF f
<1>5. CASE ~Proxy!Right(f)
  <2>1. UNCHANGED <<phase, msgid, j, available, list, toDev>>
    BY <1>1, <1>5 DEF Proxy!initResources
  <2>2. ProxyTyped'
    BY <1>2, <1>4, <2>1 DEF ProxyTyped
  <2> QED
    BY <1>2, <2>1, <2>2 DEF Handshake, RequestOK, FrameOK
<1>6. CASE Proxy!Right(f)
  <2>1. /\ phase = "count" => f.val = NSensors
        /\ phase = "config" => f.id = j /\ msgid = j + 2
    BY <1>4, <1>6, RightFrame
  <2>2. /\ available' = NSensors /\ j' \in 0..NSensors /\ j \in 0..NSensors /\ j <= j'
        /\ msgid = j' + 1
    <3>1. CASE phase = "count"
      BY <1>1, <1>6, <2>1, <3>1 DEF Proxy!initResources, Handshake, Numbering
    <3>2. CASE phase = "config"
      <4>1. j' = j + 1 /\ available' = available
        BY <1>1, <1>6, <2>1, <3>2 DEF Proxy!initResources
      <4>2. available = NSensors /\ j < NSensors /\ msgid = j + 2
        BY <2>1, <3>2 DEF Handshake
      <4>3. j \in 0..NSensors /\ NSensors \in Nat
        BY DEF ProxyTyped, Numbering
      <4> QED
        BY <4>1, <4>2, <4>3
    <3> QED
      BY <3>1, <3>2 DEF ProxyTyped
  <2>3. /\ list' \in Seq(Rows) /\ Len(list') <= j' /\ Len(list') <= MAX_RESOURCES
        /\ Len(list') < MAX_RESOURCES => Len(list') = j'
        /\ \A i \in DOMAIN list' : list'[i].id = i - 1 /\ list'[i].conf = i - 1
    <3>1. CASE phase = "count"
      <4>1. list' = list /\ j' = j
        BY <1>1, <1>6, <3>1 DEF Proxy!initResources, Handshake
      <4> QED
        BY <3>1, <4>1 DEF ProxyTyped, Handshake
    <3>2. CASE phase = "config"
      <4>1. j' = j + 1 /\ Proxy!Found(j) /\ j \in Nat
        BY <1>1, <1>6, <2>1, <2>2, <3>2 DEF Proxy!initResources
      <4>2. list \in Seq(Rows) /\ Len(list) <= j /\ Len(list) <= MAX_RESOURCES
            /\ (Len(list) < MAX_RESOURCES => Len(list) = j)
        BY <3>2 DEF Handshake, ProxyTyped
      <4>3. CASE Len(list) < MAX_RESOURCES
        <5> DEFINE new == Proxy!NewResource(j)
        <5>1. new \in Rows /\ new.id = j /\ new.conf = j
          BY <4>1 DEF Proxy!NewResource, Rows
        <5>2. list' = Append(list, new) /\ Len(list) = j
          BY <4>1, <4>2, <4>3 DEF Proxy!Found
        <5> HIDE DEF new
        <5>3. list' \in Seq(Rows) /\ Len(list') = j + 1 /\ DOMAIN list' = 1..j + 1
              /\ list'[j + 1] = new /\ \A i \in 1..j : list'[i] = list[i] /\ i \in DOMAIN list
          BY <4>1, <4>2, <5>1, <5>2
        <5>4. \A i \in 1..j + 1 : i = j + 1 \/ i \in 1..j
          BY <4>1
        <5>5. \A i \in 1..j + 1 : list'[i].id = i - 1 /\ list'[i].conf = i - 1
          BY <4>1, <5>1, <5>3, <5>4 DEF Handshake
        <5> QED
          BY <4>1, <4>3, <5>2, <5>3, <5>5 DEF Numbering
      <4>4. CASE ~(Len(list) < MAX_RESOURCES)
        <5>1. list' = list
          BY <4>1, <4>4 DEF Proxy!Found
        <5> QED
          BY <4>1, <4>2, <4>4, <5>1 DEF Handshake, Numbering
      <4> QED
        BY <4>3, <4>4
    <3> QED
      BY <3>1, <3>2 DEF ProxyTyped
  <2> DEFINE next == j'
             more == next < NSensors
             r == [seqno |-> next + 2, cmd |-> IF more THEN "config" ELSE "updateAll",
                   id |-> IF more THEN next ELSE 0]
  <2>4. /\ msgid' = msgid + 1
        /\ phase' = IF more THEN "config" ELSE "run"
    BY <1>1, <1>6, <2>2 DEF Proxy!initResources, Proxy!AskFor, Proxy!AskForAll
  <2>15. /\ next \in 0..NSensors /\ j \in 0..NSensors /\ j <= next /\ msgid = next + 1
    BY <2>2
  <2> HIDE DEF next
  <2>5. /\ msgid + 1 = next + 2 /\ (msgid + 1) % 256 = next + 2 /\ next \in Nat
        /\ next + 2 < Proxy!OwnSeqno /\ puts = 0
    <3>1. NSensors \in Nat /\ NSensors + 2 < Proxy!OwnSeqno
      <4>1. NSensors \in Nat /\ (IF EarlyPuts THEN MaxPuts ELSE 0) \in Nat
        BY DEF Numbering
      <4>2. NSensors + 2 + (IF EarlyPuts THEN MaxPuts ELSE 0) < Proxy!OwnSeqno
        BY DEF Numbering
      <4> HIDE DEF Numbering
      <4> QED
        BY <4>1, <4>2 DEF Proxy!OwnSeqno
    <3>2. next \in Nat /\ next <= NSensors /\ msgid + 1 = next + 2
      BY <2>15, <3>1
    <3>3. next + 2 < Proxy!OwnSeqno
      BY <3>1, <3>2 DEF Proxy!OwnSeqno
    <3>4. (next + 2) % 256 = next + 2
      BY <3>2, <3>3 DEF Proxy!OwnSeqno
    <3>5. puts = 0
      <4>1. phase = "config" => msgid = j + 2 + puts
        BY DEF Handshake
      <4>2. phase = "count" => puts = 0
        BY DEF Handshake
      <4>3. puts \in Nat /\ phase \in {"count", "config", "run"} /\ j \in Int
        BY DEF ProxyTyped, Numbering
      <4>4. phase = "config" => msgid = j + 2
        BY <2>1
      <4>5. phase = "config" => puts = 0
        BY <4>1, <4>3, <4>4
      <4> QED
        BY <4>2, <4>3, <4>5
    <3> QED
      BY <3>2, <3>3, <3>4, <3>5
  <2>6. r \in Requests
    <3>1. next \in Nat /\ next + 2 \in 0..255
      BY <2>5 DEF Proxy!OwnSeqno
    <3>2. r.cmd \in Commands /\ r.id \in Nat
      BY <3>1 DEF Commands
    <3> QED
      BY <3>1, <3>2 DEF Requests
  <2>7. /\ r.cmd = "config" => r.seqno = r.id + 2 /\ r.id <= next
        /\ r.cmd = "updateAll" => phase' = "run" /\ r.seqno # Proxy!OwnSeqno
        /\ r.cmd # "count"
    <3>1. CASE more
      BY <2>5, <3>1
    <3>2. CASE ~more
      <4>1. phase' = "run"
        BY <2>4, <3>2
      <4>2. next + 2 # Proxy!OwnSeqno
        BY <2>5 DEF Proxy!OwnSeqno
      <4> QED
        BY <3>2, <4>1, <4>2
    <3> QED
      BY <3>1, <3>2
  <2>8. toDev' = Append(toDev, r) /\ toDev \in Seq(Requests)
    <3>1. CASE more
      BY <1>1, <1>6, <2>2, <2>5, <3>1 DEF Proxy!initResources, Proxy!AskFor, ProxyTyped, next
    <3>2. CASE ~more
      BY <1>1, <1>6, <2>2, <2>5, <3>2 DEF Proxy!initResources, Proxy!AskForAll, ProxyTyped, next
    <3> QED
      BY <3>1, <3>2
  <2> HIDE DEF r, more
  <2>9. /\ toDev' \in Seq(Requests)
        /\ \A k \in DOMAIN toDev' : (k \in DOMAIN toDev /\ toDev'[k] = toDev[k]) \/ toDev'[k] = r
    BY <2>6, <2>8
  <2>10. /\ \A q \in Requests : RequestOK(q) => RequestOK(q)'
         /\ \A q \in AllFrames : FrameOK(q) => FrameOK(q)'
    BY <2>2, StillOK
  <2>11. (\A k \in DOMAIN toDev : RequestOK(toDev[k]))'
    <3>1. \A k \in DOMAIN toDev : RequestOK(toDev[k]) /\ toDev[k] \in Requests
      BY <2>8 DEF Handshake
    <3> QED
      BY <2>7, <2>9, <2>10, <3>1 DEF RequestOK, next
  <2>12. ProxyTyped'
    <3>1. msgid' \in Nat
      BY <2>4 DEF ProxyTyped
    <3> QED
      BY <1>2, <1>4, <2>2, <2>3, <2>4, <2>9, <3>1 DEF ProxyTyped
  <2>13. /\ (\A k \in DOMAIN toNode : FrameOK(toNode[k]))'
         /\ (\A b \in 0..RX_BUFFERS - 1 : FrameOK(buffers[b]))'
    <3>1. /\ \A k \in DOMAIN toNode : FrameOK(toNode[k]) /\ toNode[k] \in AllFrames
          /\ \A b \in 0..RX_BUFFERS - 1 : FrameOK(buffers[b]) /\ buffers[b] \in AllFrames
      <4>1. toNode \in Seq(AllFrames) /\ buffers \in [0..RX_BUFFERS - 1 -> AllFrames]
        BY DEF ProxyTyped
      <4>2. \A k \in DOMAIN toNode : toNode[k] \in AllFrames
        BY <4>1
      <4> QED
        BY <4>1, <4>2 DEF Handshake
    <3>2. ASSUME NEW k \in DOMAIN toNode PROVE FrameOK(toNode[k])'
      <4>1. PICK q \in AllFrames : q = toNode[k] /\ FrameOK(q)
        BY <3>1
      <4>2. FrameOK(q)'
        BY <2>10, <4>1
      <4> QED
        BY <1>2, <4>1, <4>2 DEF FrameOK
    <3>3. ASSUME NEW b \in 0..RX_BUFFERS - 1 PROVE FrameOK(buffers[b])'
      <4>1. PICK q \in AllFrames : q = buffers[b] /\ FrameOK(q)
        BY <3>1
      <4>2. FrameOK(q)'
        BY <2>10, <4>1
      <4> QED
        BY <1>2, <4>1, <4>2 DEF FrameOK
    <3> QED
      BY <1>2, <3>2, <3>3 DEF FrameOK
  <2>14. /\ phase' # "count"
         /\ phase' = "config" => available' = NSensors /\ j' < NSensors /\ msgid' = j' + 2 + puts'
                                 /\ puts' = 0
    <3>1. msgid' = next + 2 + puts /\ puts' = puts /\ puts = 0
      BY <1>2, <2>4, <2>5
    <3>2. phase' # "count" /\ (phase' = "config" => next < NSensors)
      BY <2>4 DEF more
    <3> QED
      BY <2>2, <3>1, <3>2 DEF next
  <2> QED
    BY <2>3, <2>11, <2>12, <2>13, <2>14 DEF Handshake
<1> QED
  BY <1>5, <1>6

LEMMA StepHandshake ==
    ASSUME Numbering, ProxyTyped, Handshake, [Proxy!Next]_Proxy!uartVars PROVE ProxyTyped' /\ Handshake'
<1>1. CASE Proxy!DeviceAnswers
  BY <1>1, DeviceAnswersHandshake
<1>2. CASE Proxy!DeviceSpeaks
  BY <1>2, DeviceSpeaksHandshake
<1>3. CASE Proxy!proxy_rx_callback
  BY <1>3, ReceiveHandshake
<1>4. CASE Proxy!uartsensors_server
  BY <1>4, RunHandshake, ResumeHandshake
<1>5. CASE Proxy!uartsensors_setEventVal
  BY <1>5, PutHandshake
<1>6. CASE UNCHANGED Proxy!uartVars
  <2>1. ProxyTyped'
    BY <1>6 DEF Proxy!uartVars, ProxyTyped
  <2> QED
    BY <1>6, <2>1 DEF Proxy!uartVars, Handshake, RequestOK, FrameOK
<1> QED
  BY <1>1, <1>2, <1>3, <1>4, <1>5, <1>6 DEF Proxy!Next

(* The value of every variable (all of UartProxy).                         *)
THEOREM ProxyTypes == ASSUME Numbering PROVE Proxy!Spec => []Proxy!TypeOK
<1>1. Proxy!uartsensors_init => ProxyTyped /\ Handshake
  BY InitHandshake
<1>2. ProxyTyped /\ Handshake /\ [Proxy!Next]_Proxy!uartVars => ProxyTyped' /\ Handshake'
  BY StepHandshake
<1>3. ProxyTyped /\ Handshake => Proxy!TypeOK
  BY DEF ProxyTyped, Handshake, Proxy!TypeOK
<1> QED
  BY <1>1, <1>2, <1>3, PTL DEF Proxy!Spec

-----------------------------------------------------------------------------
(* The order of readings.                                                  *)

(* The posted buffers are those behind the active one, and one is free.    *)
Ring ==
    /\ Len(frames) < RX_BUFFERS
    /\ \A k \in 1..Len(frames) :
           \/ frames[k] = activebuffer - Len(frames) + k - 1
           \/ frames[k] = activebuffer - Len(frames) + k - 1 + RX_BUFFERS

(* The frames on their way to uartsensors_server, the oldest first.        *)
AheadOf(post, onLine, bufs) ==
    [k \in 1..Len(post) + Len(onLine) |->
        IF k <= Len(post) THEN bufs[post[k]] ELSE onLine[k - Len(post)]]
Ahead == AheadOf(frames, toNode, buffers)

(* A reading the device sends unasked is newer than all that are kept and  *)
(* all that are before it, and the device's own is the newest.             *)
Own(f) == f.seqno = Proxy!OwnSeqno
Newer(s, kept, latest) ==
    /\ \A l \in 1..Len(s) : Own(s[l]) =>
           /\ 0 < s[l].val
           /\ \A v \in kept : v < s[l].val
           /\ \A k \in 1..l - 1 : s[k].cmd \in Readings => s[k].val < s[l].val
    /\ \A l \in 1..Len(s) : s[l].cmd \in Readings => s[l].val <= latest
    /\ \A v \in kept : v <= latest
Kept == {list[i].lastval : i \in DOMAIN list}

InTime == inTime => Ring /\ Newer(Ahead, Kept, reading)

IsAhead(s, post, onLine, bufs) ==
    /\ s \in Seq(AllFrames) /\ Len(s) = Len(post) + Len(onLine)
    /\ \A k \in 1..Len(post) : s[k] = bufs[post[k]]
    /\ \A k \in 1..Len(onLine) : s[Len(post) + k] = onLine[k]
LEMMA SeqElements == ASSUME NEW S, NEW s \in Seq(S) PROVE \A k \in 1..Len(s) : s[k] \in S
OBVIOUS

LEMMA AheadDef ==
    ASSUME NEW post \in Seq(0..RX_BUFFERS - 1), NEW onLine \in Seq(AllFrames),
           NEW bufs \in [0..RX_BUFFERS - 1 -> AllFrames]
    PROVE  IsAhead(AheadOf(post, onLine, bufs), post, onLine, bufs)
<1> DEFINE n == Len(post) m == Len(onLine) s == AheadOf(post, onLine, bufs)
<1>1. n \in Nat /\ m \in Nat
  OBVIOUS
<1>2. \A k \in 1..n : bufs[post[k]] \in AllFrames
  <2>1. \A k \in 1..n : post[k] \in 0..RX_BUFFERS - 1
    BY SeqElements
  <2> QED
    BY <2>1
<1>3. \A k \in 1..m : onLine[k] \in AllFrames
  OBVIOUS
<1>4. s = [k \in 1..n + m |-> IF k <= n THEN bufs[post[k]] ELSE onLine[k - n]]
  BY DEF AheadOf
<1> HIDE DEF n, m, s
<1>5. \A k \in 1..n + m : (k <= n => k \in 1..n) /\ (~(k <= n) => k - n \in 1..m)
  BY <1>1
<1>6. s \in [1..n + m -> AllFrames]
  BY <1>2, <1>3, <1>4, <1>5
<1>7. s \in Seq(AllFrames) /\ Len(s) = n + m
  BY <1>1, <1>6
<1>8. \A k \in 1..n : k \in 1..n + m /\ k <= n
  BY <1>1
<1>9. \A k \in 1..m : n + k \in 1..n + m /\ ~(n + k <= n) /\ (n + k) - n = k
  BY <1>1
<1>10. \A k \in 1..n : s[k] = bufs[post[k]]
  BY <1>4, <1>8
<1>11. \A k \in 1..m : s[n + k] = onLine[k]
  BY <1>4, <1>9
<1> QED
  BY <1>7, <1>10, <1>11 DEF n, m, s, IsAhead

LEMMA FollowingIs ==
    ASSUME Numbering, NEW b \in 0..RX_BUFFERS - 1
    PROVE  Proxy!Following(b) = IF b + 1 = RX_BUFFERS THEN 0 ELSE b + 1
BY DEF Proxy!Following, Numbering

(* A frame that is received goes from the line to the end of the ring.     *)
LEMMA ReceiveInTime ==
    ASSUME Numbering, ProxyTyped, ProxyTyped', InTime, Proxy!proxy_rx_callback, inTime
    PROVE  Ring' /\ Ahead' = Ahead
<1> DEFINE n == Len(frames) a == activebuffer b == Proxy!Following(activebuffer)
           h == Head(toNode) m == Len(toNode)
<1>1. /\ frames \in Seq(0..RX_BUFFERS - 1) /\ toNode \in Seq(AllFrames)
      /\ buffers \in [0..RX_BUFFERS - 1 -> AllFrames] /\ a \in 0..RX_BUFFERS - 1
      /\ RX_BUFFERS \in Nat \ {0} /\ n \in Nat /\ m \in Nat
  BY SMTT(30) DEF ProxyTyped, Numbering
<1>2. /\ toNode # <<>> /\ toNode' = Tail(toNode)
      /\ frames' = Append(frames, a) /\ activebuffer' = b
      /\ buffers' = [buffers EXCEPT ![a] = h, ![b] = Proxy!Nothing]
      /\ n < RX_BUFFERS - 1
  BY DEF Proxy!proxy_rx_callback, Proxy!switchbuffer, Proxy!Ready
<1>3. b = IF a + 1 = RX_BUFFERS THEN 0 ELSE a + 1
  BY <1>1, FollowingIs
<1>4. \A k \in 1..n : frames[k] \in 0..RX_BUFFERS - 1
  BY <1>1
<1>5. \A k \in 1..n : frames[k] = a - n + k - 1 \/ frames[k] = a - n + k - 1 + RX_BUFFERS
  BY DEF InTime, Ring
<1>6. /\ Len(frames') = n + 1 /\ frames'[n + 1] = a
      /\ \A k \in 1..n : frames'[k] = frames[k]
  BY <1>1, <1>2
<1>7. /\ m > 0 /\ Len(toNode') = m - 1 /\ h = toNode[1]
      /\ \A k \in 1..m - 1 : toNode'[k] = toNode[k + 1]
  BY <1>1, <1>2
<1> HIDE DEF n, a, b, h, m
<1>8. b \in 0..RX_BUFFERS - 1 /\ a # b
  BY <1>1, <1>2, <1>3
<1>9. \A k \in 1..n : frames[k] # a /\ frames[k] # b
  <2> TAKE k \in 1..n
  <2> DEFINE q == frames[k]
  <2>1. q = a - n + k - 1 \/ q = a - n + k - 1 + RX_BUFFERS
    BY <1>5
  <2>2. n < RX_BUFFERS - 1
    BY <1>2
  <2> HIDE DEF q
  <2>3. q # a /\ q # b
    BY <1>1, <1>3, <2>1, <2>2
  <2> QED
    BY <2>3 DEF q
<1>10. buffers'[a] = h /\ \A k \in 1..n : buffers'[frames[k]] = buffers[frames[k]]
  BY <1>1, <1>2, <1>4, <1>8, <1>9
<1>11. \A k \in 1..n + 1 : k \in 1..n \/ k = n + 1
  BY <1>1
<1>12. Ring'
  <2>1. \A k \in 1..n : \/ frames[k] = b - (n + 1) + k - 1
                        \/ frames[k] = b - (n + 1) + k - 1 + RX_BUFFERS
    <3> TAKE k \in 1..n
    <3> DEFINE q == frames[k]
    <3>1. q \in 0..RX_BUFFERS - 1
      BY <1>4
    <3>2. q = a - n + k - 1 \/ q = a - n + k - 1 + RX_BUFFERS
      BY <1>5
    <3>3. n < RX_BUFFERS - 1 /\ k \in 1..n
      BY <1>2
    <3> HIDE DEF q
    <3>4. CASE a + 1 = RX_BUFFERS
      <4>1. b = 0
        BY <1>3, <3>4
      <4>2. q = a - n + k - 1
        BY <1>1, <3>1, <3>2, <3>3, <3>4
      <4>3. q = b - (n + 1) + k - 1 + RX_BUFFERS
        BY <1>1, <3>3, <3>4, <4>1, <4>2
      <4> QED
        BY <4>3 DEF q
    <3>5. CASE a + 1 # RX_BUFFERS
      <4>1. b = a + 1
        BY <1>3, <3>5
      <4>2. \/ q = b - (n + 1) + k - 1
            \/ q = b - (n + 1) + k - 1 + RX_BUFFERS
        BY <1>1, <3>2, <3>3, <4>1
      <4> QED
        BY <4>2 DEF q
    <3> QED
      BY <3>4, <3>5
  <2>2. a = b - (n + 1) + (n + 1) - 1 \/ a = b - (n + 1) + (n + 1) - 1 + RX_BUFFERS
    BY <1>1, <1>3
  <2>3. n + 1 < RX_BUFFERS
    BY <1>1, <1>2
  <2>4. \A k \in 1..n + 1 : \/ frames'[k] = b - (n + 1) + k - 1
                            \/ frames'[k] = b - (n + 1) + k - 1 + RX_BUFFERS
    BY <1>6, <1>11, <2>1, <2>2
  <2> QED
    BY <1>2, <1>6, <2>3, <2>4 DEF Ring
<1>13. Ahead' = Ahead
  <2>1. /\ Ahead \in Seq(AllFrames) /\ Len(Ahead) = n + m
        /\ \A k \in 1..n : Ahead[k] = buffers[frames[k]]
        /\ \A k \in 1..m : Ahead[n + k] = toNode[k]
    <3>1. IsAhead(Ahead, frames, toNode, buffers)
      BY <1>1, AheadDef DEF Ahead
    <3> QED
      BY <3>1 DEF IsAhead, n, m
  <2>2. /\ Ahead' \in Seq(AllFrames) /\ Len(Ahead') = Len(frames') + Len(toNode')
        /\ \A k \in 1..Len(frames') : Ahead'[k] = buffers'[frames'[k]]
        /\ \A k \in 1..Len(toNode') : Ahead'[Len(frames') + k] = toNode'[k]
    <3>1. /\ frames' \in Seq(0..RX_BUFFERS - 1) /\ toNode' \in Seq(AllFrames)
          /\ buffers' \in [0..RX_BUFFERS - 1 -> AllFrames]
      BY DEF ProxyTyped
    <3>2. IsAhead(Ahead', frames', toNode', buffers')
      BY <3>1, AheadDef DEF Ahead
    <3> QED
      BY <3>2 DEF IsAhead
  <2>3. Len(frames') = n + 1 /\ Len(toNode') = m - 1 /\ (n + 1) + (m - 1) = n + m
    BY <1>1, <1>6, <1>7
  <2>4. \A k \in 1..n : k \in 1..n + 1 /\ Ahead'[k] = Ahead[k]
    <3>1. \A k \in 1..n : k \in 1..n + 1
      BY <1>1
    <3> QED
      BY <1>6, <1>10, <2>1, <2>2, <2>3, <3>1
  <2>5. Ahead'[n + 1] = Ahead[n + 1]
    <3>1. n + 1 \in 1..n + 1 /\ 1 \in 1..m
      BY <1>1, <1>7
    <3> QED
      BY <1>6, <1>7, <1>10, <2>1, <2>2, <2>3, <3>1
  <2>6. \A k \in n + 2..n + m : Ahead'[k] = Ahead[k]
    <3> TAKE k \in n + 2..n + m
    <3>1. /\ k - (n + 1) \in 1..m - 1 /\ k - n \in 1..m
          /\ k = (n + 1) + (k - (n + 1)) /\ k = n + (k - n) /\ (k - (n + 1)) + 1 = k - n
      BY <1>1
    <3>2. Ahead'[k] = toNode'[k - (n + 1)]
      BY <2>2, <2>3, <3>1
    <3>3. Ahead[k] = toNode[k - n]
      BY <2>1, <3>1
    <3> QED
      BY <1>7, <3>1, <3>2, <3>3
  <2>7. \A k \in 1..n + m : k \in 1..n \/ k = n + 1 \/ k \in n + 2..n + m
    BY <1>1
  <2>8. \A k \in 1..n + m : Ahead'[k] = Ahead[k]
    BY <2>4, <2>5, <2>6, <2>7
  <2> QED
    BY <2>1, <2>2, <2>3, <2>8
<1> QED
  BY <1>12, <1>13

(* A frame that is read leaves the ring.                                   *)
LEMMA ReadInTime ==
    ASSUME Numbering, ProxyTyped, ProxyTyped', InTime, inTime,
           frames # <<>>, frames' = Tail(frames),
           UNCHANGED <<toNode, buffers, activebuffer>>
    PROVE  /\ Ring' /\ Len(Ahead) > 0 /\ Ahead[1] = buffers[Head(frames)]
           /\ Len(Ahead') = Len(Ahead) - 1
           /\ \A k \in 1..Len(Ahead) - 1 : Ahead'[k] = Ahead[k + 1]
<1> DEFINE n == Len(frames) m == Len(toNode)
<1>1. /\ frames \in Seq(0..RX_BUFFERS - 1) /\ toNode \in Seq(AllFrames)
      /\ buffers \in [0..RX_BUFFERS - 1 -> AllFrames] /\ activebuffer \in 0..RX_BUFFERS - 1
      /\ RX_BUFFERS \in Nat \ {0} /\ n \in Nat /\ m \in Nat
  <2>1. frames \in Seq(0..RX_BUFFERS - 1) /\ toNode \in Seq(AllFrames)
    BY DEF ProxyTyped
  <2>2. /\ buffers \in [0..RX_BUFFERS - 1 -> AllFrames] /\ activebuffer \in 0..RX_BUFFERS - 1
        /\ RX_BUFFERS \in Nat \ {0}
    BY DEF ProxyTyped, Numbering
  <2> QED
    BY <2>1, <2>2
<1>2. /\ frames' \in Seq(0..RX_BUFFERS - 1) /\ toNode' \in Seq(AllFrames)
      /\ buffers' \in [0..RX_BUFFERS - 1 -> AllFrames]
  BY DEF ProxyTyped
<1>3. IsAhead(Ahead, frames, toNode, buffers) /\ IsAhead(Ahead', frames', toNode', buffers')
  BY <1>1, <1>2, AheadDef DEF Ahead
<1>4. /\ n > 0 /\ Head(frames) = frames[1] /\ Len(frames') = n - 1
      /\ \A k \in 1..n - 1 : frames'[k] = frames[k + 1]
  BY <1>1
<1>5. Len(Ahead) = n + m /\ (\A k \in 1..n : Ahead[k] = buffers[frames[k]])
      /\ \A k \in 1..m : Ahead[n + k] = toNode[k]
  BY <1>3 DEF IsAhead
<1>6. Len(Ahead') = (n - 1) + m /\ (\A k \in 1..n - 1 : Ahead'[k] = buffers[frames'[k]])
      /\ \A k \in 1..m : Ahead'[(n - 1) + k] = toNode[k]
  BY <1>3, <1>4 DEF IsAhead
<1>7. n < RX_BUFFERS /\ \A k \in 1..n : \/ frames[k] = activebuffer - n + k - 1
                                       \/ frames[k] = activebuffer - n + k - 1 + RX_BUFFERS
  BY DEF InTime, Ring
<1> HIDE DEF n, m
<1>8. Ring'
  <2>1. \A k \in 1..n - 1 : \/ frames'[k] = activebuffer - (n - 1) + k - 1
                            \/ frames'[k] = activebuffer - (n - 1) + k - 1 + RX_BUFFERS
    <3> TAKE k \in 1..n - 1
    <3>1. k + 1 \in 1..n
      BY <1>1
    <3> DEFINE q == frames[k + 1]
    <3>2. q = activebuffer - n + (k + 1) - 1 \/ q = activebuffer - n + (k + 1) - 1 + RX_BUFFERS
      BY <1>7, <3>1
    <3>3. frames'[k] = q
      BY <1>4
    <3> HIDE DEF q
    <3>4. q = activebuffer - (n - 1) + k - 1 \/ q = activebuffer - (n - 1) + k - 1 + RX_BUFFERS
      BY <1>1, <3>2
    <3> QED
      BY <3>3, <3>4
  <2>2. n - 1 < RX_BUFFERS
    BY <1>1, <1>7
  <2> QED
    BY <1>4, <2>1, <2>2 DEF Ring
<1>9. Len(Ahead) > 0 /\ Len(Ahead') = Len(Ahead) - 1 /\ 1 \in 1..n
  BY <1>1, <1>4, <1>5, <1>6
<1>10. \A k \in 1..(n + m) - 1 : Ahead'[k] = Ahead[k + 1]
  <2> TAKE k \in 1..(n + m) - 1
  <2>1. CASE k < n
    <3>1. k \in 1..n - 1 /\ k + 1 \in 1..n
      BY <1>1, <2>1
    <3> QED
      BY <1>4, <1>5, <1>6, <3>1
  <2>2. CASE ~(k < n)
    <3>1. /\ k - (n - 1) \in 1..m /\ k = (n - 1) + (k - (n - 1)) /\ k + 1 = n + (k - (n - 1))
      BY <1>1, <2>2
    <3> QED
      BY <1>5, <1>6, <3>1
  <2> QED
    BY <2>1, <2>2
<1> QED
  BY <1>4, <1>5, <1>8, <1>9, <1>10

(* What the device says goes to the end of the line.                       *)
LEMMA SaidInTime ==
    ASSUME Numbering, ProxyTyped, ProxyTyped', NEW t \in Seq(AllFrames), toNode' = toNode \o t,
           UNCHANGED <<frames, buffers>>
    PROVE  /\ Len(Ahead) \in Nat /\ Len(Ahead') = Len(Ahead) + Len(t)
           /\ \A k \in 1..Len(Ahead) : Ahead'[k] = Ahead[k]
           /\ \A k \in 1..Len(t) : Ahead'[Len(Ahead) + k] = t[k]
<1> DEFINE n == Len(frames) m == Len(toNode) e == Len(t)
<1>1. /\ frames \in Seq(0..RX_BUFFERS - 1) /\ toNode \in Seq(AllFrames)
      /\ buffers \in [0..RX_BUFFERS - 1 -> AllFrames] /\ n \in Nat /\ m \in Nat /\ e \in Nat
  <2>1. /\ frames \in Seq(0..RX_BUFFERS - 1) /\ toNode \in Seq(AllFrames)
        /\ buffers \in [0..RX_BUFFERS - 1 -> AllFrames]
    BY DEF ProxyTyped
  <2> QED
    BY <2>1
<1>2. /\ frames' \in Seq(0..RX_BUFFERS - 1) /\ toNode' \in Seq(AllFrames)
      /\ buffers' \in [0..RX_BUFFERS - 1 -> AllFrames]
  BY DEF ProxyTyped
<1>3. IsAhead(Ahead, frames, toNode, buffers) /\ IsAhead(Ahead', frames', toNode', buffers')
  BY <1>1, <1>2, AheadDef DEF Ahead
<1>4. /\ Len(toNode') = m + e /\ (\A k \in 1..m : toNode'[k] = toNode[k])
      /\ \A k \in 1..e : toNode'[m + k] = t[k]
  BY <1>1
<1>5. Len(Ahead) = n + m /\ (\A k \in 1..n : Ahead[k] = buffers[frames[k]])
      /\ \A k \in 1..m : Ahead[n + k] = toNode[k]
  BY <1>3 DEF IsAhead
<1>6. Len(Ahead') = n + (m + e) /\ (\A k \in 1..n : Ahead'[k] = buffers[frames[k]])
      /\ \A k \in 1..m + e : Ahead'[n + k] = toNode'[k]
  BY <1>3, <1>4 DEF IsAhead
<1> HIDE DEF n, m, e
<1>7. \A k \in 1..n + m : Ahead'[k] = Ahead[k]
  <2> TAKE k \in 1..n + m
  <2>1. CASE k <= n
    BY <1>1, <1>5, <1>6, <2>1
  <2>2. CASE ~(k <= n)
    <3>1. k - n \in 1..m /\ k - n \in 1..m + e /\ k = n + (k - n)
      BY <1>1, <2>2
    <3> QED
      BY <1>4, <1>5, <1>6, <3>1
  <2> QED
    BY <2>1, <2>2
<1>8. \A k \in 1..e : Ahead'[(n + m) + k] = t[k]
  <2> TAKE k \in 1..e
  <2>1. m + k \in 1..m + e /\ (n + m) + k = n + (m + k)
    BY <1>1
  <2> QED
    BY <1>4, <1>6, <2>1
<1>9. n + m \in Nat /\ Len(Ahead') = (n + m) + e
  BY <1>1, <1>6
<1> QED
  BY <1>5, <1>7, <1>8, <1>9 DEF e

(* What a row keeps once the first frame is read: what it kept, the        *)
(* reading of that frame, or nothing yet.                                  *)
LEMMA NewerTail ==
    ASSUME NEW s \in Seq(AllFrames), NEW t \in Seq(AllFrames), NEW kept, NEW after, NEW r \in Nat,
           Newer(s, kept, r), Len(s) > 0, Len(t) = Len(s) - 1,
           \A k \in 1..Len(s) - 1 : t[k] = s[k + 1],
           \A v \in after : v \in kept \/ v = 0 \/ (s[1].cmd \in Readings /\ v = s[1].val)
    PROVE  Newer(t, after, r)
<1> DEFINE n == Len(s)
<1>1. n \in Nat /\ n > 0
  OBVIOUS
<1>2. ASSUME NEW l \in 1..Len(t), Own(t[l])
      PROVE  /\ 0 < t[l].val /\ (\A v \in after : v < t[l].val)
             /\ \A k \in 1..l - 1 : t[k].cmd \in Readings => t[k].val < t[l].val
  <2>1. l + 1 \in 1..n /\ l \in 1..n - 1 /\ 1 \in 1..(l + 1) - 1
    BY <1>1
  <2>2. t[l] = s[l + 1]
    BY <2>1
  <2>3. /\ 0 < s[l + 1].val /\ (\A v \in kept : v < s[l + 1].val)
        /\ \A k \in 1..(l + 1) - 1 : s[k].cmd \in Readings => s[k].val < s[l + 1].val
    BY <1>2, <2>1, <2>2 DEF Newer
  <2>4. \A v \in after : v < t[l].val
    BY <2>1, <2>2, <2>3
  <2>5. \A k \in 1..l - 1 : t[k].cmd \in Readings => t[k].val < t[l].val
    <3> TAKE k \in 1..l - 1
    <3>1. k \in 1..n - 1 /\ k + 1 \in 1..(l + 1) - 1
      BY <2>1
    <3> QED
      BY <2>2, <2>3, <3>1
  <2> QED
    BY <2>2, <2>3, <2>4, <2>5
<1>3. \A l \in 1..Len(t) : t[l].cmd \in Readings => t[l].val <= r
  <2> TAKE l \in 1..Len(t)
  <2>1. l + 1 \in 1..n /\ l \in 1..n - 1
    BY <1>1
  <2> QED
    BY <2>1 DEF Newer
<1>4. \A v \in after : v <= r
  <2>1. 1 \in 1..n
    BY <1>1
  <2> QED
    BY <2>1 DEF Newer
<1> QED
  BY <1>2, <1>3, <1>4 DEF Newer

(* What is said next is not the device's own, or is newer than all before. *)
LEMMA NewerExtended ==
    ASSUME NEW s \in Seq(AllFrames), NEW t \in Seq(AllFrames), NEW e \in Seq(AllFrames),
           NEW kept, NEW r \in Nat, NEW latest \in Nat, Newer(s, kept, r), r <= latest,
           kept \subseteq Nat, Len(t) = Len(s) + Len(e),
           \A k \in 1..Len(s) : t[k] = s[k],
           \A k \in 1..Len(e) : t[Len(s) + k] = e[k],
           \A k \in 1..Len(e) : \/ ~Own(e[k]) /\ (e[k].cmd \in Readings => e[k].val <= latest)
                                \/ Len(e) = 1 /\ e[k].val = r + 1 /\ e[k].val <= latest
    PROVE  Newer(t, kept, latest)
<1> DEFINE n == Len(s) m == Len(e)
<1>1. n \in Nat /\ m \in Nat
  OBVIOUS
<1>2. ASSUME NEW l \in 1..Len(t)
      PROVE  \/ l \in 1..n /\ t[l] = s[l]
             \/ l - n \in 1..m /\ t[l] = e[l - n] /\ ~(l \in 1..n) /\ l = n + (l - n)
  <2>1. Len(t) = n + m /\ l \in 1..n + m
    OBVIOUS
  <2> DEFINE i == l - n
  <2>2. l \in 1..n \/ (~(l \in 1..n) /\ i \in 1..m /\ l = n + i)
    BY <1>1, <2>1
  <2> HIDE DEF i
  <2>3. l \in 1..n => t[l] = s[l]
    OBVIOUS
  <2>4. i \in 1..m => t[n + i] = e[i]
    OBVIOUS
  <2>5. l \in 1..n \/ (~(l \in 1..n) /\ i \in 1..m /\ l = n + i /\ t[l] = e[i])
    BY <2>2, <2>4
  <2> QED
    BY <2>3, <2>5 DEF i
<1>3. \A l \in 1..n : s[l] \in AllFrames /\ s[l].val \in Nat
  <2>1. \A l \in 1..n : s[l] \in AllFrames
    BY SeqElements
  <2> QED
    BY <2>1 DEF AllFrames
<1>4. ASSUME NEW l \in 1..Len(t), Own(t[l])
      PROVE  /\ 0 < t[l].val /\ (\A v \in kept : v < t[l].val)
             /\ \A k \in 1..l - 1 : t[k].cmd \in Readings => t[k].val < t[l].val
  <2>1. CASE l \in 1..n
    <3>1. t[l] = s[l] /\ \A k \in 1..l - 1 : k \in 1..n /\ t[k] = s[k]
      BY <1>1, <2>1
    <3> QED
      BY <1>4, <2>1, <3>1 DEF Newer
  <2>2. CASE ~(l \in 1..n)
    <3>1. l - n \in 1..m /\ t[l] = e[l - n]
      BY <1>2, <2>2
    <3>2. m = 1 /\ t[l].val = r + 1
      <4> DEFINE i == l - n
      <4>1. i \in 1..m /\ t[l] = e[i]
        BY <3>1
      <4> HIDE DEF i
      <4>2. \/ ~Own(e[i]) /\ (e[i].cmd \in Readings => e[i].val <= latest)
            \/ Len(e) = 1 /\ e[i].val = r + 1 /\ e[i].val <= latest
        BY <4>1
      <4>3. Own(e[i])
        BY <1>4, <4>1
      <4> QED
        BY <4>1, <4>2, <4>3
    <3>3. \A k \in 1..l - 1 : k \in 1..n /\ t[k] = s[k]
      BY <1>1, <3>1, <3>2
    <3>4. \A k \in 1..n : s[k].cmd \in Readings => s[k].val <= r /\ s[k].val \in Nat
      BY <1>3 DEF Newer
    <3>5. \A v \in kept : v <= r /\ v \in Nat
      BY DEF Newer
    <3>6. 0 < t[l].val /\ \A v \in kept : v < t[l].val
      BY <3>2, <3>5
    <3>7. \A k \in 1..l - 1 : t[k].cmd \in Readings => t[k].val < t[l].val
      <4>1. TAKE k \in 1..l - 1
      <4>2. k \in 1..n /\ t[k] = s[k]
        BY <3>3
      <4>3. t[k].cmd \in Readings => t[k].val <= r /\ t[k].val \in Nat
        BY <3>4, <4>2
      <4> QED
        BY <3>2, <4>3
    <3> QED
      BY <3>6, <3>7
  <2> QED
    BY <2>1, <2>2
<1>5. ASSUME NEW l \in 1..Len(t), t[l].cmd \in Readings PROVE t[l].val <= latest
  <2>1. CASE l \in 1..n
    <3>1. t[l] = s[l] /\ s[l].val <= r /\ s[l].val \in Nat
      BY <1>3, <1>5, <2>1 DEF Newer
    <3> QED
      BY <3>1
  <2>2. CASE ~(l \in 1..n)
    <3> DEFINE i == l - n
    <3>1. i \in 1..m /\ t[l] = e[i]
      BY <1>2, <2>2
    <3> HIDE DEF i
    <3>2. \/ ~Own(e[i]) /\ (e[i].cmd \in Readings => e[i].val <= latest)
          \/ Len(e) = 1 /\ e[i].val = r + 1 /\ e[i].val <= latest
      BY <3>1
    <3>3. e[i].cmd \in Readings
      BY <1>5, <3>1
    <3> QED
      BY <3>1, <3>2, <3>3
  <2> QED
    BY <2>1, <2>2
<1>6. \A v \in kept : v <= latest
  <2>1. \A v \in kept : v <= r /\ v \in Nat
    BY DEF Newer
  <2> QED
    BY <2>1
<1> QED
  BY <1>4, <1>5, <1>6 DEF Newer

LEMMA InitInTime == ASSUME Numbering, Proxy!uartsensors_init PROVE InTime
<1>1. frames = <<>> /\ toNode = <<>> /\ list = <<>> /\ reading = 1
  BY DEF Proxy!uartsensors_init
<1>2. Ring
  BY <1>1 DEF Ring, Numbering
<1>3. Len(Ahead) = 0
  BY <1>1 DEF Ahead, AheadOf
<1>4. Kept = {}
  BY <1>1 DEF Kept
<1>5. Newer(Ahead, Kept, reading)
  BY <1>3, <1>4 DEF Newer
<1> QED
  BY <1>2, <1>5 DEF InTime

LEMMA KeptAndAhead ==
    ASSUME Numbering, ProxyTyped
    PROVE  Kept \subseteq Nat /\ Ahead \in Seq(AllFrames)
<1>1. /\ frames \in Seq(0..RX_BUFFERS - 1) /\ toNode \in Seq(AllFrames)
      /\ buffers \in [0..RX_BUFFERS - 1 -> AllFrames]
  BY DEF ProxyTyped
<1>2. IsAhead(Ahead, frames, toNode, buffers)
  BY <1>1, AheadDef DEF Ahead
<1>3. \A i \in DOMAIN list : list[i] \in Rows
  BY DEF ProxyTyped
<1> QED
  BY <1>2, <1>3 DEF IsAhead, Kept, Rows

(* What uartsensors_server keeps of a frame.                               *)
LEMMA ServerKeeps ==
    ASSUME Numbering, ProxyTyped, Handshake, Proxy!uartsensors_server
    PROVE  \A v \in Kept' : \/ v \in Kept \/ v = 0
                            \/ /\ buffers[Head(frames)].cmd \in Readings
                               /\ v = buffers[Head(frames)].val
<1> DEFINE f == buffers[Head(frames)]
<1>1. list \in Seq(Rows) /\ Len(list) \in Nat /\ DOMAIN list = 1..Len(list)
  BY DEF ProxyTyped
<1>2. \A i \in DOMAIN list : list[i].lastval \in Kept
  BY DEF Kept
<1>3. CASE phase = "run"
  <2>1. Proxy!handleSensorMessages(f)
    BY <1>3 DEF Proxy!uartsensors_server
  <2> HIDE DEF f
  <2> DEFINE row(i) ==
        IF list[i].id # f.id THEN list[i]
        ELSE CASE f.cmd \in {"event", "value_update"} -> [list[i] EXCEPT !.lastval = f.val]
               [] f.cmd = "updateval" -> [list[i] EXCEPT !.level = f.val]
               [] OTHER -> list[i]
  <2>2. list' = [i \in DOMAIN list |-> row(i)]
    BY <2>1 DEF Proxy!handleSensorMessages
  <2>3. \A i \in DOMAIN list : \/ row(i).lastval = list[i].lastval
                               \/ f.cmd \in Readings /\ row(i).lastval = f.val
    <3> TAKE i \in DOMAIN list
    <3>1. list[i] \in Rows
      BY <1>1
    <3>2. CASE list[i].id = f.id /\ f.cmd \in {"event", "value_update"}
      BY <3>1, <3>2 DEF Rows, Readings
    <3>3. CASE list[i].id = f.id /\ f.cmd = "updateval"
      BY <3>1, <3>3 DEF Rows
    <3>4. CASE list[i].id # f.id \/ f.cmd \notin {"event", "value_update", "updateval"}
      BY <3>1, <3>4
    <3> QED
      BY <3>2, <3>3, <3>4
  <2> HIDE DEF row
  <2>4. DOMAIN list' = DOMAIN list /\ \A i \in DOMAIN list : list'[i] = row(i)
    BY <2>2
  <2>5. \A v \in Kept' : \E i \in DOMAIN list : v = row(i).lastval
    BY <2>4 DEF Kept
  <2> QED
    BY <1>2, <2>3, <2>5 DEF f
<1>4. CASE phase # "run"
  <2>1. Proxy!initResources(f)
    BY <1>4 DEF Proxy!uartsensors_server
  <2>2. list' = list \/ list' = Append(list, Proxy!NewResource(f.id))
    <3>1. CASE Proxy!Right(f)
      BY <2>1, <3>1 DEF Proxy!initResources, Proxy!Found
    <3>2. CASE ~Proxy!Right(f)
      BY <2>1, <3>2 DEF Proxy!initResources
    <3> QED
      BY <3>1, <3>2
  <2>3. Proxy!NewResource(f.id).lastval = 0
    BY DEF Proxy!NewResource
  <2> HIDE DEF f, Proxy!NewResource
  <2> DEFINE new == Proxy!NewResource(f.id)
  <2>4. CASE list' = Append(list, new)
    <3> HIDE DEF new
    <3>1. DOMAIN list' = 1..Len(list) + 1 /\ list'[Len(list) + 1] = new
          /\ \A i \in 1..Len(list) : list'[i] = list[i]
      BY <1>1, <2>4
    <3>2. \A i \in 1..Len(list) + 1 : i \in DOMAIN list \/ i = Len(list) + 1
      BY <1>1
    <3>3. \A i \in DOMAIN list' : list'[i].lastval \in Kept \/ list'[i].lastval = 0
      BY <1>1, <1>2, <2>3, <3>1, <3>2 DEF new
    <3> QED
      BY <3>3 DEF Kept
  <2>5. CASE list' = list
    BY <2>5 DEF Kept
  <2> QED
    BY <2>2, <2>4, <2>5
<1> QED
  BY <1>3, <1>4

LEMMA ServerInTime ==
    ASSUME Numbering, ProxyTyped, ProxyTyped', Handshake, InTime, Proxy!uartsensors_server
    PROVE  InTime'
<1> SUFFICES ASSUME inTime PROVE Ring' /\ Newer(Ahead', Kept', reading')
  BY DEF InTime, Proxy!uartsensors_server
<1> DEFINE f == buffers[Head(frames)]
<1>1. /\ frames # <<>> /\ frames' = Tail(frames)
      /\ UNCHANGED <<toNode, buffers, activebuffer, reading>>
  BY DEF Proxy!uartsensors_server
<1>2. /\ Ring' /\ Len(Ahead) > 0 /\ Ahead[1] = f
      /\ Len(Ahead') = Len(Ahead) - 1
      /\ \A k \in 1..Len(Ahead) - 1 : Ahead'[k] = Ahead[k + 1]
  BY <1>1, ReadInTime
<1>3. Ahead \in Seq(AllFrames) /\ Ahead' \in Seq(AllFrames)
  <2>1. /\ frames' \in Seq(0..RX_BUFFERS - 1) /\ toNode' \in Seq(AllFrames)
        /\ buffers' \in [0..RX_BUFFERS - 1 -> AllFrames]
    BY DEF ProxyTyped
  <2>2. IsAhead(Ahead', frames', toNode', buffers')
    BY <2>1, AheadDef DEF Ahead
  <2> QED
    BY <2>2, KeptAndAhead DEF IsAhead
<1>4. \A v \in Kept' : v \in Kept \/ v = 0 \/ (f.cmd \in Readings /\ v = f.val)
  BY ServerKeeps
<1>5. reading \in Nat /\ Newer(Ahead, Kept, reading)
  BY DEF InTime, ProxyTyped
<1> HIDE DEF f
<1>6. Newer(Ahead', Kept', reading)
  BY <1>2, <1>3, <1>4, <1>5, NewerTail
<1> QED
  BY <1>1, <1>2, <1>6

(* The answers to a request are not the device's own, and no newer than    *)
(* its last reading.                                                       *)
LEMMA AnswersNotOwn ==
    ASSUME Numbering, ProxyTyped, Handshake, NEW r \in Requests, RequestOK(r)
    PROVE  \A k \in 1..Len(Proxy!Answers(r)) :
               /\ ~Own(Proxy!Answers(r)[k])
               /\ Proxy!Answers(r)[k].cmd \in Readings => Proxy!Answers(r)[k].val <= reading
<1>1. NSensors \in Nat /\ NSensors + 2 < Proxy!OwnSeqno /\ reading \in Nat /\ j \in 0..NSensors
  <2>1. NSensors \in Nat /\ (IF EarlyPuts THEN MaxPuts ELSE 0) \in Nat
    BY DEF Numbering
  <2>2. NSensors + 2 + (IF EarlyPuts THEN MaxPuts ELSE 0) < Proxy!OwnSeqno
    BY DEF Numbering
  <2>3. NSensors + 2 < Proxy!OwnSeqno
    <3> HIDE DEF Numbering
    <3> QED
      BY <2>1, <2>2 DEF Proxy!OwnSeqno
  <2> QED
    BY <2>1, <2>3 DEF ProxyTyped
<1>2. r.seqno \in 0..255 /\ r.id \in Nat
  BY DEF Requests
<1>3. CASE r.cmd = "count"
  <2>1. Proxy!Answers(r) = <<Proxy!Frame(r.seqno, "count", 0, NSensors)>> /\ r.seqno = 1
    BY <1>3 DEF Proxy!Answers, RequestOK
  <2> QED
    BY <2>1 DEF Proxy!Frame, Own, Proxy!OwnSeqno, Readings
<1>4. CASE r.cmd = "config" /\ r.id \in Proxy!Ids
  <2>1. Proxy!Answers(r) = <<Proxy!Frame(r.seqno, "config", r.id, 0)>>
    BY <1>4 DEF Proxy!Answers
  <2>2. r.seqno = r.id + 2 /\ r.id <= j
    BY <1>4 DEF RequestOK
  <2>3. r.seqno # Proxy!OwnSeqno
    BY <1>1, <1>2, <2>2 DEF Proxy!OwnSeqno
  <2> QED
    BY <2>1, <2>3 DEF Proxy!Frame, Own, Readings
<1>5. CASE r.cmd = "updateAll"
  <2>1. Proxy!Answers(r)
            = [i \in 1..NSensors |-> Proxy!Frame(r.seqno, "value_update", i - 1, reading)]
    BY <1>5 DEF Proxy!Answers
  <2>2. r.seqno # Proxy!OwnSeqno
    BY <1>5 DEF RequestOK
  <2>3. \A i \in 1..NSensors : /\ ~Own(Proxy!Frame(r.seqno, "value_update", i - 1, reading))
                               /\ Proxy!Frame(r.seqno, "value_update", i - 1, reading).val = reading
    BY <2>2 DEF Proxy!Frame, Own
  <2> HIDE DEF Proxy!Frame
  <2>4. Len(Proxy!Answers(r)) = NSensors
    BY <1>1, <2>1
  <2> QED
    BY <1>1, <2>1, <2>3, <2>4
<1>6. CASE r.cmd # "count" /\ ~(r.cmd = "config" /\ r.id \in Proxy!Ids) /\ r.cmd # "updateAll"
  <2>1. Proxy!Answers(r) = <<>>
    BY <1>6 DEF Proxy!Answers
  <2> QED
    BY <2>1
<1> QED
  BY <1>3, <1>4, <1>5, <1>6

LEMMA SaysInTime ==
    ASSUME Numbering, ProxyTyped, ProxyTyped', InTime,
           NEW e \in Seq(AllFrames), toNode' = toNode \o e,
           UNCHANGED <<frames, buffers, activebuffer, inTime, list>>, reading <= reading',
           \A k \in 1..Len(e) :
               \/ ~Own(e[k]) /\ (e[k].cmd \in Readings => e[k].val <= reading')
               \/ Len(e) = 1 /\ e[k].val = reading + 1 /\ e[k].val <= reading'
    PROVE  InTime'
<1> SUFFICES ASSUME inTime PROVE Ring' /\ Newer(Ahead', Kept', reading')
  BY DEF InTime
<1>1. Ring'
  BY DEF InTime, Ring
<1>2. /\ Len(Ahead) \in Nat /\ Len(Ahead') = Len(Ahead) + Len(e)
      /\ \A k \in 1..Len(Ahead) : Ahead'[k] = Ahead[k]
      /\ \A k \in 1..Len(e) : Ahead'[Len(Ahead) + k] = e[k]
  BY SaidInTime
<1>3. Ahead \in Seq(AllFrames) /\ Ahead' \in Seq(AllFrames)
  <2>1. /\ frames' \in Seq(0..RX_BUFFERS - 1) /\ toNode' \in Seq(AllFrames)
        /\ buffers' \in [0..RX_BUFFERS - 1 -> AllFrames]
    BY DEF ProxyTyped
  <2>2. IsAhead(Ahead', frames', toNode', buffers')
    BY <2>1, AheadDef DEF Ahead
  <2> QED
    BY <2>2, KeptAndAhead DEF IsAhead
<1>4. Kept' = Kept /\ Kept \subseteq Nat
  BY KeptAndAhead DEF Kept
<1>5. reading \in Nat /\ reading' \in Nat /\ Newer(Ahead, Kept, reading)
  BY DEF InTime, ProxyTyped
<1>6. Newer(Ahead', Kept, reading')
  BY <1>2, <1>3, <1>4, <1>5, NewerExtended
<1> QED
  BY <1>1, <1>4, <1>6

LEMMA StepInTime ==
    ASSUME Numbering, ProxyTyped, ProxyTyped', Handshake, InTime, [Proxy!Next]_Proxy!uartVars
    PROVE  InTime'
<1>1. CASE Proxy!DeviceAnswers
  <2> DEFINE r == Head(toDev) e == Proxy!Answers(r)
  <2>1. r \in Requests /\ RequestOK(r)
    BY <1>1 DEF Proxy!DeviceAnswers, ProxyTyped, Handshake
  <2>2. e \in Seq(AllFrames)
    BY <2>1, AnswersFit
  <2>3. \A k \in 1..Len(e) : ~Own(e[k]) /\ (e[k].cmd \in Readings => e[k].val <= reading)
    BY <2>1, AnswersNotOwn
  <2>4. /\ toNode' = toNode \o e
        /\ UNCHANGED <<frames, buffers, activebuffer, inTime, list, reading>>
    BY <1>1 DEF Proxy!DeviceAnswers
  <2>5. reading \in Nat
    BY DEF ProxyTyped
  <2> HIDE DEF e
  <2> QED
    BY <2>2, <2>3, <2>4, <2>5, SaysInTime
<1>2. CASE Proxy!DeviceSpeaks
  <2>1. PICK id \in Proxy!Ids, cmd \in {"event", "value_update", "updateval"} :
            toNode' = Append(toNode, Proxy!Frame(Proxy!OwnSeqno, cmd, id, reading'))
    BY <1>2 DEF Proxy!DeviceSpeaks
  <2>2. /\ reading' = reading + 1
        /\ UNCHANGED <<frames, buffers, activebuffer, inTime, list>>
    BY <1>2 DEF Proxy!DeviceSpeaks
  <2> DEFINE g == Proxy!Frame(Proxy!OwnSeqno, cmd, id, reading + 1) e == <<g>>
  <2>3. reading \in Nat /\ reading <= reading'
    BY <2>2 DEF ProxyTyped
  <2>4. g \in AllFrames /\ g.val = reading + 1
    BY <2>3 DEF Proxy!Frame, AllFrames, Replies, Proxy!OwnSeqno, Proxy!Ids, Numbering
  <2> HIDE DEF g
  <2>5. e \in Seq(AllFrames) /\ Len(e) = 1 /\ e[1] = g
    BY <2>4
  <2>6. toNode' = toNode \o e
    <3>1. toNode' = Append(toNode, g)
      BY Zenon, <2>1, <2>2 DEF g
    <3>2. toNode \in Seq(AllFrames)
      BY DEF ProxyTyped
    <3>. QED BY ONLY <2>4, <3>1, <3>2 DEF e
  <2>7. \A k \in 1..Len(e) : Len(e) = 1 /\ e[k].val = reading + 1 /\ e[k].val <= reading'
    BY <2>2, <2>3, <2>4, <2>5
  <2> HIDE DEF e
  <2> QED
    BY <2>2, <2>3, <2>5, <2>6, <2>7, SaysInTime
<1>3. CASE Proxy!proxy_rx_callback
  <2>1. UNCHANGED <<inTime, list, reading>>
    BY <1>3 DEF Proxy!proxy_rx_callback
  <2>2. inTime => Ring' /\ Ahead' = Ahead
    BY <1>3, ReceiveInTime
  <2> QED
    BY <2>1, <2>2 DEF InTime, Kept
<1>4. CASE Proxy!uartsensors_server
  BY <1>4, ServerInTime
<1>5. CASE Proxy!uartsensors_setEventVal \/ UNCHANGED Proxy!uartVars
  <2>1. UNCHANGED <<inTime, list, reading, frames, toNode, buffers, activebuffer>>
    BY <1>5 DEF Proxy!uartsensors_setEventVal, Proxy!uartVars
  <2> QED
    BY <2>1 DEF InTime, Kept, Ahead, Ring
<1> QED
  BY <1>1, <1>2, <1>3, <1>4, <1>5 DEF Proxy!Next

(* A frame that is posted is ahead of what is kept.                        *)
LEMMA RowsInTime ==
    ASSUME Numbering, ProxyTyped, Handshake, InTime PROVE Proxy!RowIsItsSensor
<1>1. \A i \in DOMAIN list : list[i].id = i - 1 /\ list[i].conf = i - 1
  BY DEF Handshake
<1>2. ASSUME inTime, NEW i \in DOMAIN list, NEW k \in DOMAIN frames,
             buffers[frames[k]].seqno = Proxy!OwnSeqno
      PROVE  list[i].lastval < buffers[frames[k]].val
  <2>1. frames \in Seq(0..RX_BUFFERS - 1) /\ toNode \in Seq(AllFrames)
        /\ buffers \in [0..RX_BUFFERS - 1 -> AllFrames]
    BY DEF ProxyTyped
  <2>2. IsAhead(Ahead, frames, toNode, buffers)
    BY <2>1, AheadDef DEF Ahead
  <2>3. k \in 1..Len(frames) /\ k \in 1..Len(frames) + Len(toNode)
    BY <2>1
  <2>4. k \in 1..Len(Ahead) /\ Ahead[k] = buffers[frames[k]]
    BY <2>2, <2>3 DEF IsAhead
  <2>5. \A v \in Kept : v < Ahead[k].val
    BY <1>2, <2>4 DEF InTime, Newer, Own
  <2> QED
    BY <2>4, <2>5 DEF Kept
<1> QED
  BY <1>1, <1>2 DEF Proxy!RowIsItsSensor

(* Every proxy has the configuration of its own sensor, and its readings   *)
(* do not go back while buffers are read in time (initResources,           *)
(* proxy_rx_callback, handleSensorMessages).                               *)
THEOREM RowsAreSensors == ASSUME Numbering PROVE Proxy!Spec => []Proxy!RowIsItsSensor
<1>1. Proxy!uartsensors_init => ProxyTyped /\ Handshake /\ InTime
  BY InitHandshake, InitInTime
<1>2. ProxyTyped /\ Handshake /\ InTime /\ [Proxy!Next]_Proxy!uartVars
        => ProxyTyped' /\ Handshake' /\ InTime'
  BY StepHandshake, StepInTime
<1>3. ProxyTyped /\ Handshake /\ InTime => Proxy!RowIsItsSensor
  BY RowsInTime
<1> QED
  BY <1>1, <1>2, <1>3, PTL DEF Proxy!Spec

-----------------------------------------------------------------------------
(*                         The uart strings                                *)
-----------------------------------------------------------------------------
(* The cells of the memory, and what is written there.                     *)

(* The memory holds a sequence of cells, or the characters of a string.    *)
Holds(m, p, s) == \A i \in 1..Len(s) : m[p + i - 1] = s[i]
Chars(m, p, d, f, n) == \A i \in 1..n : m[p + i - 1] = Strings!Char(d, f, i)
IsSequence(s) == \E S : s \in Seq(S)

LEMMA CellsDiffer ==
    /\ Strings!Slash # Strings!Nul
    /\ Strings!Nul[1] # "str"
    /\ \A d, f, i : /\ Strings!Char(d, f, i) # Strings!Nul
                    /\ Strings!Char(d, f, i)[1] # "str"
    /\ \A n : Strings!Head1(n)[1] = "str" /\ Strings!Head1(n)[4] = n
<1>1. Strings!Slash[1] = "slash" /\ Strings!Nul[1] = "nul"
  BY DEF Strings!Slash, Strings!Nul
<1>2. ASSUME NEW d, NEW f, NEW i
      PROVE  /\ Strings!Char(d, f, i) # Strings!Nul
             /\ Strings!Char(d, f, i)[1] # "str"
  <2>1. Strings!Char(d, f, i)[1] = "char"
    BY DEF Strings!Char
  <2>. QED  BY <2>1, <1>1
<1>3. ASSUME NEW n PROVE Strings!Head1(n)[1] = "str" /\ Strings!Head1(n)[4] = n
  BY DEF Strings!Head1
<1>. QED  BY <1>1, <1>2, <1>3

(* Writing changes the cells written and no others.                        *)
Wrote(w, m, at, cells) ==
    /\ DOMAIN w = 1..Room
    /\ \A p \in 1..Room : p < at \/ p >= at + Len(cells) => w[p] = m[p]
    /\ \A i \in 1..Len(cells) : at + i - 1 \in 1..Room => w[at + i - 1] = cells[i]

LEMMA WrittenIs ==
    ASSUME NEW m, DOMAIN m = 1..Room, NEW at \in Nat, NEW cells, Len(cells) \in Nat
    PROVE  Wrote(Strings!Written(m, at, cells), m, at, cells)
<1>2. Strings!Written(m, at, cells) =
        [p \in 1..Room |-> IF p \in at..(at + Len(cells) - 1) THEN cells[p - at + 1] ELSE m[p]]
  BY DEF Strings!Written
<1>3. DOMAIN Strings!Written(m, at, cells) = 1..Room
  BY <1>2
<1>4. ASSUME NEW p \in 1..Room, p < at \/ p >= at + Len(cells)
      PROVE  Strings!Written(m, at, cells)[p] = m[p]
  <2>1. p \notin at..(at + Len(cells) - 1)
    BY <1>4
  <2>. QED  BY <1>2, <2>1
<1>5. ASSUME NEW i \in 1..Len(cells), at + i - 1 \in 1..Room
      PROVE  Strings!Written(m, at, cells)[at + i - 1] = cells[i]
  <2>1. at + i - 1 \in at..(at + Len(cells) - 1) /\ at + i - 1 - at + 1 = i
    OBVIOUS
  <2>. QED  BY <1>2, <1>5, <2>1
<1>. QED  BY <1>3, <1>4, <1>5 DEF Wrote

(* A stretch of the memory, read as a sequence.                            *)
IsStretch(s, m, a, n) ==
    IsSequence(s) /\ Len(s) = n /\ \A i \in 1..n : s[i] = m[a + i - 1]

LEMMA StretchIs ==
    ASSUME NEW m, NEW a \in Nat, NEW b \in Nat, a <= b + 1
    PROVE  IsStretch(SubSeq(m, a, b), m, a, b - a + 1)
<1>1. PICK S : S = {m[p] : p \in a..b}
  OBVIOUS
<1>2. \A i \in a..b : m[i] \in S
  BY <1>1
<1>3. /\ SubSeq(m, a, b) \in Seq(S)
      /\ Len(SubSeq(m, a, b)) = IF a <= b THEN b - a + 1 ELSE 0
      /\ \A i \in 1..b - a + 1 : SubSeq(m, a, b)[i] = m[a + i - 1]
  BY <1>2, SubSeqProperties
<1>4. Len(SubSeq(m, a, b)) = b - a + 1
  BY <1>3
<1>. QED  BY <1>3, <1>4 DEF IsSequence, IsStretch

(* Two sequences, one behind the other.                                    *)
LEMMA JoinedIs ==
    ASSUME NEW s, IsSequence(s), NEW t, IsSequence(t)
    PROVE  /\ IsSequence(s \o t)
           /\ Len(s) \in Nat /\ Len(t) \in Nat
           /\ Len(s \o t) = Len(s) + Len(t)
           /\ \A i \in 1..Len(s) : (s \o t)[i] = s[i]
           /\ \A i \in 1..Len(t) : (s \o t)[Len(s) + i] = t[i]
<1>1. PICK S : s \in Seq(S)
  BY DEF IsSequence
<1>2. PICK T : t \in Seq(T)
  BY DEF IsSequence
<1>3. s \in Seq(S \cup T) /\ t \in Seq(S \cup T)
  <2>1. s \in [1..Len(s) -> S] /\ Len(s) \in Nat
    BY <1>1
  <2>2. s \in [1..Len(s) -> S \cup T]
    BY <2>1
  <2>3. t \in [1..Len(t) -> T] /\ Len(t) \in Nat
    BY <1>2
  <2>4. t \in [1..Len(t) -> S \cup T]
    BY <2>3
  <2>. QED  BY <2>1, <2>2, <2>3, <2>4
<1>4. /\ s \o t \in Seq(S \cup T)
      /\ Len(s \o t) = Len(s) + Len(t)
      /\ \A i \in 1..Len(s) + Len(t) :
            (s \o t)[i] = IF i <= Len(s) THEN s[i] ELSE t[i - Len(s)]
  BY <1>3, ConcatProperties
<1>5. Len(s) \in Nat /\ Len(t) \in Nat
  BY <1>3, LenProperties
<1>6. ASSUME NEW i \in 1..Len(s) PROVE (s \o t)[i] = s[i]
  BY <1>4, <1>5
<1>7. ASSUME NEW i \in 1..Len(t) PROVE (s \o t)[Len(s) + i] = t[i]
  <2>1. Len(s) + i \in 1..Len(s) + Len(t) /\ ~(Len(s) + i <= Len(s)) /\ Len(s) + i - Len(s) = i
    BY <1>5
  <2>. QED  BY <1>4, <2>1
<1>. QED  BY <1>4, <1>5, <1>6, <1>7 DEF IsSequence

Follow(r, s, t) ==
    /\ IsSequence(r) /\ Len(r) = Len(s) + Len(t)
    /\ \A i \in 1..Len(s) : r[i] = s[i]
    /\ \A i \in 1..Len(t) : r[Len(s) + i] = t[i]

LEMMA TheyFollow ==
    ASSUME NEW s, IsSequence(s), NEW t, IsSequence(t), NEW r, r = s \o t
    PROVE  Follow(r, s, t)
BY JoinedIs DEF Follow

LEMMA SameSequence ==
    ASSUME NEW s, IsSequence(s), NEW t, IsSequence(t),
           Len(s) = Len(t), \A i \in 1..Len(s) : s[i] = t[i]
    PROVE  s = t
<1>1. PICK S : s \in Seq(S)
  BY DEF IsSequence
<1>2. PICK T : t \in Seq(T)
  BY DEF IsSequence
<1>3. s \in [1..Len(s) -> S] /\ t \in [1..Len(s) -> T]
  BY <1>1, <1>2
<1>. QED  BY <1>3

LEMMA HoldsJoined ==
    ASSUME NEW m, NEW p \in Nat, NEW s, IsSequence(s), NEW t, IsSequence(t), Holds(m, p, s \o t)
    PROVE  Holds(m, p, s) /\ Holds(m, p + Len(s), t)
<1>1. /\ Len(s) \in Nat /\ Len(t) \in Nat
      /\ Len(s \o t) = Len(s) + Len(t)
      /\ \A i \in 1..Len(s) : (s \o t)[i] = s[i]
      /\ \A i \in 1..Len(t) : (s \o t)[Len(s) + i] = t[i]
  BY JoinedIs
<1>2. ASSUME NEW i \in 1..Len(s) PROVE m[p + i - 1] = s[i]
  BY <1>1 DEF Holds
<1>3. ASSUME NEW i \in 1..Len(t) PROVE m[p + Len(s) + i - 1] = t[i]
  <2>1. Len(s) + i \in 1..Len(s \o t) /\ p + (Len(s) + i) - 1 = p + Len(s) + i - 1
    BY <1>1
  <2>2. m[p + (Len(s) + i) - 1] = (s \o t)[Len(s) + i]
    BY <2>1 DEF Holds
  <2>. QED  BY <1>1, <2>1, <2>2
<1>. QED  BY <1>2, <1>3 DEF Holds

LEMMA HoldsWritten ==
    ASSUME NEW m, DOMAIN m = 1..Room, NEW p \in Nat \ {0}, NEW s, Len(s) \in Nat,
           Room \in Nat, p + Len(s) - 1 <= Room
    PROVE  Holds(Strings!Written(m, p, s), p, s)
<1>1. \A i \in 1..Len(s) : p + i - 1 \in 1..Room
  OBVIOUS
<1>2. Wrote(Strings!Written(m, p, s), m, p, s)
  BY WrittenIs
<1>. QED  BY <1>1, <1>2 DEF Holds, Wrote

(* A string that was sent, in the message received.                        *)
Encoding(d, f, n) ==
    <<Strings!Head1(n + 1)>> \o [i \in 1..n |-> Strings!Char(d, f, i)] \o <<Strings!Nul>>
Waits(m, p, d, f, n) ==
    m[p] = Strings!Head1(n + 1) /\ Chars(m, p + 1, d, f, n) /\ m[p + n + 1] = Strings!Nul

LEMMA OneCell == ASSUME NEW x PROVE IsSequence(<<x>>) /\ Len(<<x>>) = 1 /\ <<x>>[1] = x
<1>1. <<x>> \in Seq({x})
  OBVIOUS
<1>. QED  BY <1>1 DEF IsSequence

LEMMA CharsIs ==
    ASSUME NEW d, NEW f, NEW n \in Nat
    PROVE  /\ IsSequence([i \in 1..n |-> Strings!Char(d, f, i)])
           /\ Len([i \in 1..n |-> Strings!Char(d, f, i)]) = n
<1>1. PICK S : S = {Strings!Char(d, f, i) : i \in 1..n}
  OBVIOUS
<1>2. PICK s : s = [i \in 1..n |-> Strings!Char(d, f, i)]
  OBVIOUS
<1>3. s \in [1..n -> S]
  BY <1>1, <1>2
<1>4. s \in Seq(S) /\ Len(s) = n
  BY <1>3
<1>. QED  BY <1>2, <1>4 DEF IsSequence

LEMMA EncodingIs ==
    ASSUME NEW d, NEW f, NEW n \in Nat
    PROVE  /\ IsSequence(Encoding(d, f, n)) /\ Len(Encoding(d, f, n)) = n + 2
           /\ \A m : \A p \in Nat : Holds(m, p, Encoding(d, f, n)) => Waits(m, p, d, f, n)
<1>1. PICK h : h = <<Strings!Head1(n + 1)>>
  OBVIOUS
<1>2. PICK s : s = [i \in 1..n |-> Strings!Char(d, f, i)]
  OBVIOUS
<1>3. PICK z : z = <<Strings!Nul>>
  OBVIOUS
<1>4. IsSequence(h) /\ Len(h) = 1 /\ h[1] = Strings!Head1(n + 1)
  BY <1>1, OneCell
<1>5. IsSequence(s) /\ Len(s) = n
  BY <1>2, CharsIs
<1>6. IsSequence(z) /\ Len(z) = 1 /\ z[1] = Strings!Nul
  BY <1>3, OneCell
<1>7. IsSequence(h \o s) /\ Len(h \o s) = n + 1
  <2>1. IsSequence(h) /\ IsSequence(s)
    BY <1>4, <1>5
  <2>2. IsSequence(h \o s)
    BY ONLY <2>1, JoinedIs
  <2>3. Len(h \o s) = Len(h) + Len(s)
    BY ONLY <2>1, JoinedIs
  <2>. QED  BY <1>4, <1>5, <2>2, <2>3
<1>8. IsSequence(h \o s \o z) /\ Len(h \o s \o z) = n + 2
  <2>0. PICK hs : hs = h \o s
    OBVIOUS
  <2>1. IsSequence(hs) /\ IsSequence(z)
    BY <1>6, <1>7, <2>0
  <2>2. IsSequence(hs \o z)
    BY ONLY <2>1, JoinedIs
  <2>3. Len(hs \o z) = Len(hs) + Len(z)
    BY ONLY <2>1, JoinedIs
  <2>. QED  BY <1>6, <1>7, <2>0, <2>2, <2>3
<1>9. Encoding(d, f, n) = h \o s \o z
  BY <1>1, <1>2, <1>3 DEF Encoding
<1>10. ASSUME NEW m, NEW p \in Nat, Holds(m, p, h \o s \o z)
       PROVE  Waits(m, p, d, f, n)
  <2>1. Holds(m, p, h \o s) /\ Holds(m, p + (n + 1), z)
    BY <1>6, <1>7, <1>10, HoldsJoined
  <2>2. Holds(m, p, h) /\ Holds(m, p + 1, s)
    BY <1>4, <1>5, <2>1, HoldsJoined
  <2>3. m[p] = Strings!Head1(n + 1)
    <3>1. m[p + 1 - 1] = h[1]
      BY <1>4, <2>2 DEF Holds
    <3>. QED  BY <3>1, <1>4
  <2>4. m[p + n + 1] = Strings!Nul
    <3>1. m[p + (n + 1) + 1 - 1] = z[1]
      BY <1>6, <2>1 DEF Holds
    <3>2. p + (n + 1) + 1 - 1 = p + n + 1
      OBVIOUS
    <3>. QED  BY <3>1, <3>2, <1>6
  <2>5. Chars(m, p + 1, d, f, n)
    BY <1>2, <1>5, <2>2 DEF Holds, Chars
  <2>. QED  BY <2>3, <2>4, <2>5 DEF Waits
<1>. QED  BY <1>8, <1>9, <1>10

(* Where the strings of a configuration wait in its message.               *)
LEMMA EncodedIs ==
    ASSUME Buffer, NEW d, NEW c \in [Strings!FieldNames -> Nat]
    PROVE  /\ Len(Strings!Encoded(d, c)) =
                 Numbers + c["unit"] + c["spec"] + c["type"] + c["group"] + c["attr"] + 10
           /\ IsSequence(Strings!Encoded(d, c))
           /\ \A m : \A p \in Nat : Holds(m, p, Strings!Encoded(d, c)) =>
                 /\ Waits(m, p + Numbers, d, "unit", c["unit"])
                 /\ Waits(m, p + Numbers + c["unit"] + 2, d, "spec", c["spec"])
                 /\ Waits(m, p + Numbers + c["unit"] + c["spec"] + 4, d, "type", c["type"])
                 /\ Waits(m, p + Numbers + c["unit"] + c["spec"] + c["type"] + 6,
                          d, "group", c["group"])
                 /\ Waits(m, p + Numbers + c["unit"] + c["spec"] + c["type"] + c["group"] + 8,
                          d, "attr", c["attr"])
<1>0. PICK nums : nums = [i \in 1..Numbers |-> Strings!Number]
  OBVIOUS
<1>1. IsSequence(nums) /\ Len(nums) = Numbers
  <2>1. nums \in [1..Numbers -> {Strings!Number}] /\ Numbers \in Nat
    BY <1>0 DEF Buffer
  <2>2. nums \in Seq({Strings!Number}) /\ Len(nums) = Numbers
    BY <2>1
  <2>. QED  BY <2>2 DEF IsSequence
<1>2. PICK u \in Nat, s \in Nat, t \in Nat, g \in Nat, a \in Nat :
         u = c["unit"] /\ s = c["spec"] /\ t = c["type"] /\ g = c["group"] /\ a = c["attr"]
  BY DEF Strings!FieldNames
<1> DEFINE E1 == Encoding(d, "unit", u)
           E2 == Encoding(d, "spec", s)
           E3 == Encoding(d, "type", t)
           E4 == Encoding(d, "group", g)
           E5 == Encoding(d, "attr", a)
<1>3. Strings!Encoded(d, c) = nums \o E1 \o E2 \o E3 \o E4 \o E5
  BY <1>0, <1>2 DEF Strings!Encoded, Encoding
<1>4. Numbers \in Nat
  BY DEF Buffer
<1>5. /\ IsSequence(E1) /\ Len(E1) = u + 2 /\ IsSequence(E2) /\ Len(E2) = s + 2
      /\ IsSequence(E3) /\ Len(E3) = t + 2 /\ IsSequence(E4) /\ Len(E4) = g + 2
      /\ IsSequence(E5) /\ Len(E5) = a + 2
  BY EncodingIs
<1>6. \A m : \A p \in Nat :
         /\ Holds(m, p, E1) => Waits(m, p, d, "unit", u)
         /\ Holds(m, p, E2) => Waits(m, p, d, "spec", s)
         /\ Holds(m, p, E3) => Waits(m, p, d, "type", t)
         /\ Holds(m, p, E4) => Waits(m, p, d, "group", g)
         /\ Holds(m, p, E5) => Waits(m, p, d, "attr", a)
  BY EncodingIs
<1> HIDE DEF E1, E2, E3, E4, E5
<1> DEFINE J1 == nums \o E1
           J2 == J1 \o E2
           J3 == J2 \o E3
           J4 == J3 \o E4
           J5 == J4 \o E5
<1>7. IsSequence(J1) /\ Len(J1) = Numbers + u + 2
  <2>1. IsSequence(nums) /\ IsSequence(E1)
    BY <1>1, <1>5
  <2>2. IsSequence(J1)
    BY ONLY <2>1, JoinedIs DEF J1
  <2>3. Len(J1) = Len(nums) + Len(E1)
    BY ONLY <2>1, JoinedIs DEF J1
  <2>. QED  BY <1>1, <1>5, <1>4, <2>2, <2>3
<1> HIDE DEF J1
<1>8. IsSequence(J2) /\ Len(J2) = Numbers + u + s + 4
  <2>1. IsSequence(J1) /\ IsSequence(E2)
    BY <1>5, <1>7
  <2>2. IsSequence(J2)
    BY ONLY <2>1, JoinedIs DEF J2
  <2>3. Len(J2) = Len(J1) + Len(E2)
    BY ONLY <2>1, JoinedIs DEF J2
  <2>. QED  BY <1>5, <1>7, <1>4, <2>2, <2>3
<1> HIDE DEF J2
<1>9. IsSequence(J3) /\ Len(J3) = Numbers + u + s + t + 6
  <2>1. IsSequence(J2) /\ IsSequence(E3)
    BY <1>5, <1>8
  <2>2. IsSequence(J3)
    BY ONLY <2>1, JoinedIs DEF J3
  <2>3. Len(J3) = Len(J2) + Len(E3)
    BY ONLY <2>1, JoinedIs DEF J3
  <2>. QED  BY <1>5, <1>8, <1>4, <2>2, <2>3
<1> HIDE DEF J3
<1>10. IsSequence(J4) /\ Len(J4) = Numbers + u + s + t + g + 8
  <2>1. IsSequence(J3) /\ IsSequence(E4)
    BY <1>5, <1>9
  <2>2. IsSequence(J4)
    BY ONLY <2>1, JoinedIs DEF J4
  <2>3. Len(J4) = Len(J3) + Len(E4)
    BY ONLY <2>1, JoinedIs DEF J4
  <2>. QED  BY <1>5, <1>9, <1>4, <2>2, <2>3
<1> HIDE DEF J4
<1>11. IsSequence(J5) /\ Len(J5) = Numbers + u + s + t + g + a + 10
  <2>1. IsSequence(J4) /\ IsSequence(E5)
    BY <1>5, <1>10
  <2>2. IsSequence(J5)
    BY ONLY <2>1, JoinedIs DEF J5
  <2>3. Len(J5) = Len(J4) + Len(E5)
    BY ONLY <2>1, JoinedIs DEF J5
  <2>. QED  BY <1>5, <1>10, <1>4, <2>2, <2>3
<1> HIDE DEF J5
<1>12. Strings!Encoded(d, c) = J5
  BY <1>3 DEF J1, J2, J3, J4, J5
<1>13. ASSUME NEW m, NEW p \in Nat, Holds(m, p, J5)
       PROVE  /\ Waits(m, p + Numbers, d, "unit", u)
              /\ Waits(m, p + Numbers + u + 2, d, "spec", s)
              /\ Waits(m, p + Numbers + u + s + 4, d, "type", t)
              /\ Waits(m, p + Numbers + u + s + t + 6, d, "group", g)
              /\ Waits(m, p + Numbers + u + s + t + g + 8, d, "attr", a)
  <2>1. Holds(m, p, J4) /\ Holds(m, p + (Numbers + u + s + t + g + 8), E5)
    BY <1>5, <1>10, <1>13, HoldsJoined DEF J5
  <2>2. Holds(m, p, J3) /\ Holds(m, p + (Numbers + u + s + t + 6), E4)
    BY <1>5, <1>9, <2>1, HoldsJoined DEF J4
  <2>3. Holds(m, p, J2) /\ Holds(m, p + (Numbers + u + s + 4), E3)
    BY <1>5, <1>8, <2>2, HoldsJoined DEF J3
  <2>4. Holds(m, p, J1) /\ Holds(m, p + (Numbers + u + 2), E2)
    BY <1>5, <1>7, <2>3, HoldsJoined DEF J2
  <2>5. Holds(m, p + Numbers, E1)
    BY <1>1, <1>5, <2>4, HoldsJoined DEF J1
  <2>6. /\ p + (Numbers + u + s + t + g + 8) = p + Numbers + u + s + t + g + 8
        /\ p + (Numbers + u + s + t + 6) = p + Numbers + u + s + t + 6
        /\ p + (Numbers + u + s + 4) = p + Numbers + u + s + 4
        /\ p + (Numbers + u + 2) = p + Numbers + u + 2
        /\ p + Numbers \in Nat /\ p + Numbers + u + s + t + g + 8 \in Nat
        /\ p + Numbers + u + s + t + 6 \in Nat
        /\ p + Numbers + u + s + 4 \in Nat
        /\ p + Numbers + u + 2 \in Nat
    BY <1>4
  <2>7. Waits(m, p + Numbers, d, "unit", u)
    BY <1>6, <2>5, <2>6
  <2>8. Waits(m, p + Numbers + u + 2, d, "spec", s)
    BY <1>6, <2>4, <2>6
  <2>9. Waits(m, p + Numbers + u + s + 4, d, "type", t)
    BY <1>6, <2>3, <2>6
  <2>10. Waits(m, p + Numbers + u + s + t + 6, d, "group", g)
    BY <1>6, <2>2, <2>6
  <2>11. Waits(m, p + Numbers + u + s + t + g + 8, d, "attr", a)
    BY <1>6, <2>1, <2>6
  <2>. QED  BY <2>7, <2>8, <2>9, <2>10, <2>11
<1>. QED  BY <1>2, <1>11, <1>12, <1>13

-----------------------------------------------------------------------------
(* Reading the strings in place: what is written never reaches what is     *)
(* still to be read.                                                       *)

At(m, from, to, len, ptr) == [mem |-> m, from |-> from, to |-> to, len |-> len, ptr |-> ptr]

Took(w, m, to, d, f, n, last) ==
    /\ DOMAIN w = 1..Room
    /\ \A p \in 1..Room : p < to \/ p > to + n + 1 => w[p] = m[p]
    /\ Chars(w, to, d, f, n) /\ w[to + n] = last

Reads(m, from, to, len, d, f, n) ==
    \E w : /\ Strings!ReadStr(m, from, to, len) = [mem |-> w, from |-> from + n + 2, len |-> n + 1]
           /\ Took(w, m, to, d, f, n, Strings!Nul)

LEMMA ReadStrIs ==
    ASSUME Buffer, NEW m, DOMAIN m = 1..Room, NEW from \in Nat \ {0}, NEW to \in 1..from,
           NEW len \in Nat, NEW d, NEW f, NEW n \in Nat,
           Waits(m, from, d, f, n), from + n + 1 <= Room, n + 2 <= len
    PROVE  Reads(m, from, to, len, d, f, n)
<1>0. Room \in Nat
  BY DEF Buffer
<1>1. PICK part : part = SubSeq(m, from + 1, from + (n + 1))
  OBVIOUS
<1>2. /\ IsSequence(part) /\ Len(part) = n + 1
      /\ \A i \in 1..n + 1 : part[i] = m[from + i]
  <2>1. PICK a \in Nat, b \in Nat : a = from + 1 /\ b = from + (n + 1)
    OBVIOUS
  <2>2. a <= b + 1 /\ b - a + 1 = n + 1
    BY <2>1
  <2>4. part = SubSeq(m, a, b)
    BY <1>1, <2>1
  <2>3. IsStretch(part, m, a, n + 1)
    <3>1. IsStretch(SubSeq(m, a, b), m, a, b - a + 1)
      BY ONLY <2>2, a \in Nat, b \in Nat, StretchIs
    <3>. QED  BY <2>2, <2>4, <3>1
  <2>5. ASSUME NEW i \in 1..n + 1 PROVE part[i] = m[from + i]
    <3>1. part[i] = m[a + i - 1]
      BY <2>3 DEF IsStretch
    <3>2. a + i - 1 = from + i
      BY <2>1
    <3>. QED  BY <3>1, <3>2
  <2>. QED  BY <2>3, <2>5 DEF IsStretch
<1>3. PICK z : z = <<Strings!Nul>>
  OBVIOUS
<1>4. IsSequence(z) /\ Len(z) = 1 /\ z[1] = Strings!Nul
  BY <1>3, OneCell
<1>5. PICK cells : cells = part \o z
  OBVIOUS
<1>6. /\ Len(cells) = Len(part) + Len(z)
      /\ \A i \in 1..Len(part) : cells[i] = part[i]
  <2>1. IsSequence(part)
    BY <1>2
  <2>2. IsSequence(z)
    BY <1>4
  <2>. QED  BY ONLY <1>5, <2>1, <2>2, JoinedIs
<1>7. Len(cells) = n + 2
  BY <1>2, <1>4, <1>6
<1>8. PICK w : w = Strings!Written(m, to, cells)
  OBVIOUS
<1>9. Wrote(w, m, to, cells)
  <2>1. to \in Nat /\ Len(cells) \in Nat
    BY <1>7
  <2>. QED  BY <1>8, <2>1, WrittenIs
<1>10. ASSUME NEW p \in 1..Room, p < to \/ p > to + n + 1 PROVE w[p] = m[p]
  BY <1>0, <1>7, <1>9, <1>10 DEF Wrote
<1>11. ASSUME NEW i \in 1..n + 1 PROVE w[to + i - 1] = m[from + i]
  <2>1. to + i - 1 \in 1..Room /\ i \in 1..Len(cells) /\ i \in 1..Len(part)
    BY <1>0, <1>2, <1>7
  <2>2. w[to + i - 1] = cells[i]
    BY <1>9, <2>1 DEF Wrote
  <2>3. cells[i] = part[i]
    BY <1>6, <2>1
  <2>. QED  BY <1>2, <2>2, <2>3
<1>12. Chars(w, to, d, f, n)
  <2>1. ASSUME NEW i \in 1..n PROVE w[to + i - 1] = Strings!Char(d, f, i)
    <3>1. w[to + i - 1] = m[from + i]
      BY <1>11, i \in 1..n + 1
    <3>2. m[from + 1 + i - 1] = Strings!Char(d, f, i)
      BY DEF Waits, Chars
    <3>3. from + 1 + i - 1 = from + i
      OBVIOUS
    <3>. QED  BY <3>1, <3>2, <3>3
  <2>. QED  BY <2>1 DEF Chars
<1>13. w[to + n] = Strings!Nul
  <2>1. w[to + (n + 1) - 1] = m[from + (n + 1)]
    BY <1>11, n + 1 \in 1..n + 1
  <2>2. to + (n + 1) - 1 = to + n /\ from + (n + 1) = from + n + 1
    OBVIOUS
  <2>3. m[from + n + 1] = Strings!Nul
    BY DEF Waits
  <2>. QED  BY <2>1, <2>2, <2>3
<1>14. Strings!ReadStr(m, from, to, len) = [mem |-> w, from |-> from + n + 2, len |-> n + 1]
  <2>1. m[from] = Strings!Head1(n + 1)
    BY DEF Waits
  <2>2. m[from][1] = "str" /\ m[from][4] = n + 1
    BY <2>1, CellsDiffer
  <2>3. ~(n + 1 + 1 > len) /\ from + 1 + (n + 1) = from + n + 2
    OBVIOUS
  <2>4. w = Strings!Written(m, to, SubSeq(m, from + 1, from + (n + 1)) \o <<Strings!Nul>>)
    BY <1>1, <1>3, <1>5, <1>8
  <2>. QED  BY <2>2, <2>3, <2>4 DEF Strings!ReadStr
<1>15. Took(w, m, to, d, f, n, Strings!Nul)
  BY <1>9, <1>10, <1>12, <1>13 DEF Took, Wrote
<1>. QED  BY <1>14, <1>15 DEF Reads

LEMMA NextOf ==
    ASSUME NEW s, NEW f, NEW w, NEW from, NEW n,
           Strings!ReadStr(s.mem, s.from, s.to, Strings!Limit(f, s.len)) =
               [mem |-> w, from |-> from, len |-> n]
    PROVE  Strings!NextString(s, f) =
               At(Strings!Ended(f, w, s.to + n - 1), from, s.to + n, n, Append(s.ptr, s.to))
<1>1. PICK q : q = Strings!ReadStr(s.mem, s.from, s.to, Strings!Limit(f, s.len))
  OBVIOUS
<1>2. q.mem = w /\ q.from = from /\ q.len = n
  BY <1>1
<1>3. Strings!NextString(s, f) = Strings!Behind(s, f, q)
  BY <1>1 DEF Strings!NextString
<1>4. Strings!Behind(s, f, q) =
          At(Strings!Ended(f, q.mem, s.to + q.len - 1), q.from, s.to + q.len, q.len,
             Append(s.ptr, s.to))
  BY DEF Strings!Behind, At
<1>. QED  BY <1>2, <1>3, <1>4

(* The string is taken, or passed over.                                    *)
Advances(m, from, to, len, ptr, d, f, n) ==
    \E w : /\ Strings!NextString(At(m, from, to, len, ptr), f) =
                 At(w, from + n + 2, to + n + 1, n + 1, Append(ptr, to))
           /\ Took(w, m, to, d, f, n, IF f = "type" THEN Strings!Slash ELSE Strings!Nul)

LEMMA NextIs ==
    ASSUME Buffer, NEW m, DOMAIN m = 1..Room, NEW from \in Nat \ {0}, NEW to \in 1..from,
           NEW len \in Nat, NEW ptr, NEW d, NEW f, NEW n \in Nat,
           Waits(m, from, d, f, n), from + n + 1 <= Room, n + 2 <= Strings!Limit(f, len)
    PROVE  Advances(m, from, to, len, ptr, d, f, n)
<1>0. Room \in Nat
  BY DEF Buffer
<1>1. PICK limit \in Nat : limit = Strings!Limit(f, len)
  BY DEF Strings!Limit, Buffer
<1>2. PICK v : /\ Strings!ReadStr(m, from, to, limit) =
                     [mem |-> v, from |-> from + n + 2, len |-> n + 1]
               /\ Took(v, m, to, d, f, n, Strings!Nul)
  <2>1. n + 2 <= limit
    BY <1>1
  <2>2. Reads(m, from, to, limit, d, f, n)
    BY <2>1, ReadStrIs
  <2>. QED  BY <2>2 DEF Reads
<1>3. PICK x : x = Strings!Written(v, to + n, <<Strings!Slash>>)
  OBVIOUS
<1>4. PICK w : w = IF f = "type" THEN x ELSE v
  OBVIOUS
<1>5. Strings!NextString(At(m, from, to, len, ptr), f) =
        At(w, from + n + 2, to + n + 1, n + 1, Append(ptr, to))
  <2>1. PICK s : s = At(m, from, to, len, ptr)
    OBVIOUS
  <2>2. s.mem = m /\ s.from = from /\ s.to = to /\ s.len = len /\ s.ptr = ptr
    BY <2>1 DEF At
  <2>3. Strings!ReadStr(s.mem, s.from, s.to, Strings!Limit(f, s.len)) =
          [mem |-> v, from |-> from + n + 2, len |-> n + 1]
    BY <1>1, <1>2, <2>2
  <2>4. PICK k : k = n + 1
    OBVIOUS
  <2>5. PICK next : next = from + n + 2
    OBVIOUS
  <2>6. Strings!NextString(s, f) =
          At(Strings!Ended(f, v, s.to + k - 1), next, s.to + k, k, Append(s.ptr, s.to))
    BY ONLY <2>3, <2>4, <2>5, NextOf
  <2>7. s.to + k - 1 = to + n /\ s.to + k = to + n + 1
    BY <2>2, <2>4
  <2>8. Strings!Ended(f, v, to + n) = w
    BY <1>3, <1>4 DEF Strings!Ended
  <2>. QED  BY <2>1, <2>2, <2>4, <2>5, <2>6, <2>7, <2>8
<1>6. /\ DOMAIN x = 1..Room
      /\ \A p \in 1..Room : p # to + n => x[p] = v[p]
      /\ x[to + n] = Strings!Slash
  <2>0. PICK z : z = <<Strings!Slash>>
    OBVIOUS
  <2>1. Len(z) = 1 /\ z[1] = Strings!Slash
    BY <2>0, OneCell
  <2>2. PICK at \in Nat : at = to + n
    OBVIOUS
  <2>3. Wrote(x, v, at, z)
    <3>1. DOMAIN v = 1..Room /\ Len(z) \in Nat
      BY <1>2, <2>1 DEF Took
    <3>2. x = Strings!Written(v, at, z)
      BY <1>3, <2>0, <2>2
    <3>. QED  BY <3>1, <3>2, WrittenIs
  <2>4. x[to + n] = Strings!Slash
    <3>1. to + n \in 1..Room /\ at + 1 - 1 = to + n
      BY <1>0, <2>2
    <3>. QED  BY <2>1, <2>3, <3>1 DEF Wrote
  <2>5. ASSUME NEW p \in 1..Room, p # to + n PROVE x[p] = v[p]
    <3>1. p < at \/ p >= at + Len(z)
      BY <1>0, <2>1, <2>2, <2>5
    <3>. QED  BY <2>3, <3>1 DEF Wrote
  <2>. QED  BY <2>3, <2>4, <2>5 DEF Wrote
<1>7. ASSUME NEW p \in 1..Room, p < to \/ p > to + n + 1 PROVE w[p] = m[p]
  <2>1. p # to + n
    BY <1>7, <1>0
  <2>. QED  BY <1>2, <1>4, <1>6, <1>7, <2>1 DEF Took
<1>8. Chars(w, to, d, f, n)
  <2>1. ASSUME NEW i \in 1..n PROVE w[to + i - 1] = Strings!Char(d, f, i)
    <3>1. to + i - 1 \in 1..Room /\ to + i - 1 # to + n
      BY <1>0
    <3>2. v[to + i - 1] = Strings!Char(d, f, i)
      BY <1>2 DEF Took, Chars
    <3>. QED  BY <1>4, <1>6, <3>1, <3>2
  <2>. QED  BY <2>1 DEF Chars
<1>9. Took(w, m, to, d, f, n, IF f = "type" THEN Strings!Slash ELSE Strings!Nul)
  <2>1. DOMAIN w = 1..Room
    BY <1>2, <1>4, <1>6 DEF Took
  <2>2. w[to + n] = IF f = "type" THEN Strings!Slash ELSE Strings!Nul
    BY <1>2, <1>4, <1>6 DEF Took
  <2>. QED  BY <1>7, <1>8, <2>1, <2>2 DEF Took
<1>. QED  BY <1>5, <1>9 DEF Advances

LEMMA NextRefused ==
    ASSUME NEW m, NEW from \in Nat, NEW to \in Nat, NEW len \in Nat, NEW ptr, NEW n \in Nat,
           m[from] = Strings!Head1(n), n >= len,
           NEW next, next = from + 1, NEW end, end = to + n
    PROVE  Strings!NextString(At(m, from, to, len, ptr), "group") = At(m, next, end, n, Append(ptr, to))
<1>1. PICK s : s = At(m, from, to, len, ptr)
  OBVIOUS
<1>2. s.mem = m /\ s.from = from /\ s.to = to /\ s.len = len /\ s.ptr = ptr
  BY <1>1 DEF At
<1>3. m[from][1] = "str" /\ m[from][4] = n
  BY CellsDiffer
<1>4. Strings!Limit("group", len) = len
  BY DEF Strings!Limit
<1>5. Strings!ReadStr(m, from, to, len) = [mem |-> m, from |-> from + 1, len |-> n]
  <2>1. n + 1 > len
    OBVIOUS
  <2>. QED  BY <1>3, <2>1 DEF Strings!ReadStr
<1>6. Strings!ReadStr(s.mem, s.from, s.to, Strings!Limit("group", s.len)) = [mem |-> m, from |-> next, len |-> n]
  BY <1>2, <1>4, <1>5
<1>7. Strings!NextString(s, "group") =
          At(Strings!Ended("group", m, s.to + n - 1), next, s.to + n, n, Append(s.ptr, s.to))
  BY ONLY <1>6, NextOf
<1>8. Strings!Ended("group", m, s.to + n - 1) = m
  BY DEF Strings!Ended
<1>. QED  BY <1>1, <1>2, <1>7, <1>8

LEMMA NextSkipped ==
    ASSUME NEW m, NEW from, NEW to, NEW len, NEW ptr, NEW f, f \notin {"type", "group"},
           m[from][1] # "str", NEW next, next = from + 1, NEW end, end = to + StringMax
    PROVE  Strings!NextString(At(m, from, to, len, ptr), f) =
               At(m, next, end, StringMax, Append(ptr, to))
<1>1. PICK s : s = At(m, from, to, len, ptr)
  OBVIOUS
<1>2. s.mem = m /\ s.from = from /\ s.to = to /\ s.len = len /\ s.ptr = ptr
  BY <1>1 DEF At
<1>3. Strings!Limit(f, len) = StringMax
  BY DEF Strings!Limit
<1>4. Strings!ReadStr(m, from, to, StringMax) = [mem |-> m, from |-> from + 1, len |-> StringMax]
  BY DEF Strings!ReadStr
<1>6. Strings!ReadStr(s.mem, s.from, s.to, Strings!Limit(f, s.len)) =
          [mem |-> m, from |-> next, len |-> StringMax]
  BY <1>2, <1>3, <1>4
<1>7. Strings!NextString(s, f) =
          At(Strings!Ended(f, m, s.to + StringMax - 1), next, s.to + StringMax, StringMax,
             Append(s.ptr, s.to))
  BY ONLY <1>6, NextOf
<1>8. Strings!Ended(f, m, s.to + StringMax - 1) = m
  BY DEF Strings!Ended
<1>. QED  BY <1>1, <1>2, <1>7, <1>8

(* What is written in front of a string that waits leaves it alone.        *)
LEMMA StillWaits ==
    ASSUME Buffer, NEW m, NEW w, NEW to \in Nat \ {0}, NEW d, NEW f, NEW n \in Nat, NEW last,
           Took(w, m, to, d, f, n, last),
           NEW p \in Nat, NEW g, NEW k \in Nat, p > to + n + 1, p + k + 1 <= Room,
           Waits(m, p, d, g, k)
    PROVE  Waits(w, p, d, g, k)
<1>1. Room \in Nat
  BY DEF Buffer
<1>2. ASSUME NEW x \in p..p + k + 1 PROVE w[x] = m[x]
  <2>1. x \in 1..Room /\ x > to + n + 1
    BY <1>1
  <2>. QED  BY <2>1 DEF Took
<1>3. w[p] = m[p] /\ w[p + k + 1] = m[p + k + 1]
  BY <1>2, p \in p..p + k + 1, p + k + 1 \in p..p + k + 1
<1>4. ASSUME NEW i \in 1..k PROVE w[p + 1 + i - 1] = Strings!Char(d, g, i)
  <2>1. p + 1 + i - 1 \in p..p + k + 1
    OBVIOUS
  <2>2. m[p + 1 + i - 1] = Strings!Char(d, g, i)
    BY DEF Waits, Chars
  <2>. QED  BY <1>2, <2>1, <2>2
<1>. QED  BY <1>3, <1>4 DEF Waits, Chars

Longer(r, q, x, S) ==
    /\ r \in Seq(S) /\ Len(r) = Len(q) + 1 /\ r[Len(q) + 1] = x
    /\ \A i \in 1..Len(q) : r[i] = q[i]

LEMMA Appended ==
    ASSUME NEW S, NEW q \in Seq(S), NEW x \in S
    PROVE  Longer(Append(q, x), q, x, S)
BY AppendProperties DEF Longer

LEMMA Single ==
    ASSUME NEW S, NEW q \in Seq(S), q # <<>>, Len(q) <= 1
    PROVE  Len(q) = 1 /\ q[1] \in S
<1>1. Len(q) \in Nat \ {0}
  BY EmptySeq
<1>. QED  BY <1>1

LEMMA Joined ==
    ASSUME NEW S, NEW q \in Seq(S), NEW r \in Seq(S), Len(r) = 1
    PROVE  Longer(q \o r, q, r[1], S)
<1>1. PICK z : z = q \o r
  OBVIOUS
<1>2. /\ z \in Seq(S) /\ Len(z) = Len(q) + Len(r)
      /\ \A i \in 1..Len(q) + Len(r) : z[i] = IF i <= Len(q) THEN q[i] ELSE r[i - Len(q)]
  BY <1>1, ConcatProperties
<1>3. PICK n \in Nat : n = Len(q)
  OBVIOUS
<1>4. Len(z) = n + 1 /\ \A i \in 1..n + 1 : z[i] = IF i <= n THEN q[i] ELSE r[i - n]
  BY <1>2, <1>3
<1>5. z[n + 1] = r[1]
  <2>1. n + 1 \in 1..n + 1 /\ ~(n + 1 <= n) /\ n + 1 - n = 1
    BY <1>3
  <2>. QED  BY ONLY <1>4, <2>1
<1>6. \A i \in 1..n : z[i] = q[i]
  BY <1>3, <1>4
<1>. QED  BY <1>1, <1>2, <1>3, <1>4, <1>5, <1>6 DEF Longer

LEMMA FivePointers ==
    ASSUME NEW a, NEW b, NEW c, NEW d, NEW e
    PROVE  Append(Append(Append(Append(Append(<<>>, a), b), c), d), e) = <<a, b, c, d, e>>
<1>1. PICK S : S = {a, b, c, d, e}
  OBVIOUS
<1>2. PICK s0 : s0 = <<>>
  OBVIOUS
<1>3. s0 \in Seq(S) /\ Len(s0) = 0 /\ a \in S /\ b \in S /\ c \in S /\ d \in S /\ e \in S
  BY <1>1, <1>2
<1>4. PICK s1 : s1 = Append(s0, a)
  OBVIOUS
<1>5. s1 \in Seq(S) /\ Len(s1) = 1 /\ s1[1] = a
  <2>1. s0 \in Seq(S) /\ a \in S
    BY <1>3, <1>3
  <2>2. Longer(s1, s0, a, S)
    BY <2>1, <1>4, Appended
  <2>. QED  BY <2>2, <1>3 DEF Longer
<1>6. PICK s2 : s2 = Append(s1, b)
  OBVIOUS
<1>7. s2 \in Seq(S) /\ Len(s2) = 2 /\ s2[1] = a /\ s2[2] = b
  <2>1. s1 \in Seq(S) /\ b \in S
    BY <1>3, <1>5
  <2>2. Longer(s2, s1, b, S)
    BY <2>1, <1>6, Appended
  <2>. QED  BY <2>2, <1>5 DEF Longer
<1>8. PICK s3 : s3 = Append(s2, c)
  OBVIOUS
<1>9. s3 \in Seq(S) /\ Len(s3) = 3 /\ s3[1] = a /\ s3[2] = b /\ s3[3] = c
  <2>1. s2 \in Seq(S) /\ c \in S
    BY <1>3, <1>7
  <2>2. Longer(s3, s2, c, S)
    BY <2>1, <1>8, Appended
  <2>. QED  BY <2>2, <1>7 DEF Longer
<1>10. PICK s4 : s4 = Append(s3, d)
  OBVIOUS
<1>11. s4 \in Seq(S) /\ Len(s4) = 4 /\ s4[1] = a /\ s4[2] = b /\ s4[3] = c /\ s4[4] = d
  <2>1. s3 \in Seq(S) /\ d \in S
    BY <1>3, <1>9
  <2>2. Longer(s4, s3, d, S)
    BY <2>1, <1>10, Appended
  <2>. QED  BY <2>2, <1>9 DEF Longer
<1>12. PICK s5 : s5 = Append(s4, e)
  OBVIOUS
<1>13. s5 \in Seq(S) /\ Len(s5) = 5 /\ s5[1] = a /\ s5[2] = b /\ s5[3] = c /\ s5[4] = d /\ s5[5] = e
  <2>1. s4 \in Seq(S) /\ e \in S
    BY <1>3, <1>11
  <2>2. Longer(s5, s4, e, S)
    BY <2>1, <1>12, Appended
  <2>. QED  BY <2>2, <1>11 DEF Longer
<1>14. s5 = <<a, b, c, d, e>>
  BY <1>13
<1>. QED  BY <1>2, <1>4, <1>6, <1>8, <1>10, <1>12, <1>14

(* The strings of sensor d, from s[1] up to l, in front of its readings.   *)
Row(m, s, l, c, d) ==
    /\ s[2] = s[1] + c["unit"] + 1
    /\ s[3] = s[2] + c["spec"] + 1
    /\ s[4] = s[3] + c["type"] + 1
    /\ s[5] = s[4] + c["group"] + 1
    /\ l = s[5] + c["attr"] + 1
    /\ Chars(m, s[1], d, "unit", c["unit"]) /\ m[s[2] - 1] = Strings!Nul
    /\ Chars(m, s[2], d, "spec", c["spec"]) /\ m[s[3] - 1] = Strings!Nul
    /\ Chars(m, s[3], d, "type", c["type"]) /\ m[s[4] - 1] = Strings!Slash
    /\ Chars(m, s[4], d, "group", c["group"]) /\ m[s[5] - 1] = Strings!Nul
    /\ Chars(m, s[5], d, "attr", c["attr"]) /\ m[l - 1] = Strings!Nul

Configurations == [Strings!FieldNames -> Nat]
Allowed(c) == \A f \in Strings!FieldNames : c[f] + 2 <= StringMax

(* Where the strings of c go, behind p.                                    *)
Place(c, p) ==
    <<p, p + c["unit"] + 1, p + c["unit"] + c["spec"] + 2,
      p + c["unit"] + c["spec"] + c["type"] + 3,
      p + c["unit"] + c["spec"] + c["type"] + c["group"] + 4>>

(* What it takes for the strings up to the type.                           *)
NamedAs(m, p, d, c) ==
    \E w1, w2, w3 :
        /\ Took(w1, m, p, d, "unit", c["unit"], Strings!Nul)
        /\ Took(w2, w1, p + c["unit"] + 1, d, "spec", c["spec"], Strings!Nul)
        /\ Took(w3, w2, p + c["unit"] + c["spec"] + 2, d, "type", c["type"], Strings!Slash)
        /\ Strings!Named(m, p) =
              At(w3, p + Numbers + c["unit"] + c["spec"] + c["type"] + 6,
                 p + c["unit"] + c["spec"] + c["type"] + 3, c["type"] + 1,
                 Append(Append(Append(<<>>, p), p + c["unit"] + 1), p + c["unit"] + c["spec"] + 2))
        /\ Waits(w3, p + Numbers + c["unit"] + c["spec"] + c["type"] + 6, d, "group", c["group"])
        /\ Waits(w3, p + Numbers + c["unit"] + c["spec"] + c["type"] + c["group"] + 8,
                 d, "attr", c["attr"])

LEMMA NamedIs ==
    ASSUME Buffer, NEW m, DOMAIN m = 1..Room, NEW p \in Nat \ {0}, NEW d,
           NEW c \in Configurations, Allowed(c),
           Holds(m, p, Strings!Encoded(d, c)), p + Len(Strings!Encoded(d, c)) - 1 <= Room
    PROVE  NamedAs(m, p, d, c)
<1>1. PICK u \in Nat, s \in Nat, t \in Nat, g \in Nat, a \in Nat :
         u = c["unit"] /\ s = c["spec"] /\ t = c["type"] /\ g = c["group"] /\ a = c["attr"]
  BY DEF Configurations, Strings!FieldNames
<1>2. Numbers \in Nat /\ StringMax \in Nat /\ Room \in Nat
  BY DEF Buffer
<1>3. u + 2 <= StringMax /\ s + 2 <= StringMax /\ t + 2 <= StringMax
  BY <1>1 DEF Allowed, Strings!FieldNames
<1>4. PICK f1 \in Nat \ {0}, f2 \in Nat \ {0}, f3 \in Nat \ {0}, f4 \in Nat \ {0}, f5 \in Nat \ {0} :
         /\ f1 = p + Numbers /\ f2 = p + Numbers + u + 2
         /\ f3 = p + Numbers + u + s + 4 /\ f4 = p + Numbers + u + s + t + 6
         /\ f5 = p + Numbers + u + s + t + g + 8
  BY <1>2
<1>5. PICK t2 \in Nat \ {0}, t3 \in Nat \ {0}, t4 \in Nat \ {0} :
         t2 = p + u + 1 /\ t3 = p + u + s + 2 /\ t4 = p + u + s + t + 3
  OBVIOUS
<1>6. /\ Waits(m, f1, d, "unit", u) /\ Waits(m, f2, d, "spec", s) /\ Waits(m, f3, d, "type", t)
      /\ Waits(m, f4, d, "group", g) /\ Waits(m, f5, d, "attr", a)
      /\ f5 + a + 1 <= Room
  <2>1. c \in [Strings!FieldNames -> Nat]
    BY DEF Configurations
  <2>2. Len(Strings!Encoded(d, c)) = Numbers + u + s + t + g + a + 10
    BY <1>1, <2>1, EncodedIs
  <2>3. /\ Waits(m, p + Numbers, d, "unit", u)
        /\ Waits(m, p + Numbers + u + 2, d, "spec", s)
        /\ Waits(m, p + Numbers + u + s + 4, d, "type", t)
        /\ Waits(m, p + Numbers + u + s + t + 6, d, "group", g)
        /\ Waits(m, p + Numbers + u + s + t + g + 8, d, "attr", a)
    BY <1>1, <2>1, EncodedIs
  <2>4. f5 + a + 1 <= Room
    BY <1>2, <1>4, <2>2
  <2>. QED  BY <1>4, <2>3, <2>4
<1> DEFINE P1 == Append(<<>>, p)
           P2 == Append(P1, t2)
           P3 == Append(P2, t3)
<1>7. PICK w1 : /\ Strings!NextString(At(m, f1, p, StringMax, <<>>), "unit") =
                      At(w1, f2, t2, u + 1, P1)
                /\ Took(w1, m, p, d, "unit", u, Strings!Nul)
  <2>1. p \in 1..f1 /\ f1 + u + 1 <= Room
    BY <1>2, <1>4, <1>6
  <2>2. u + 2 <= Strings!Limit("unit", StringMax)
    BY <1>3 DEF Strings!Limit
  <2>3. Advances(m, f1, p, StringMax, <<>>, d, "unit", u)
    BY <1>2, <1>6, <2>1, <2>2, NextIs
  <2>4. f1 + u + 2 = f2 /\ p + u + 1 = t2
    BY <1>2, <1>4, <1>5
  <2>. QED  BY <2>3, <2>4 DEF Advances
<1>8. /\ Waits(w1, f2, d, "spec", s) /\ Waits(w1, f3, d, "type", t)
      /\ Waits(w1, f4, d, "group", g) /\ Waits(w1, f5, d, "attr", a) /\ DOMAIN w1 = 1..Room
  <2>1. /\ f2 > p + u + 1 /\ f3 > p + u + 1 /\ f4 > p + u + 1 /\ f5 > p + u + 1
        /\ f2 + s + 1 <= Room /\ f3 + t + 1 <= Room /\ f4 + g + 1 <= Room
    BY <1>2, <1>4, <1>6
  <2>2. Waits(w1, f2, d, "spec", s)
    BY <1>6, <1>7, <2>1, StillWaits
  <2>3. Waits(w1, f3, d, "type", t)
    BY <1>6, <1>7, <2>1, StillWaits
  <2>4. Waits(w1, f4, d, "group", g)
    BY <1>6, <1>7, <2>1, StillWaits
  <2>5. Waits(w1, f5, d, "attr", a)
    BY <1>6, <1>7, <2>1, StillWaits
  <2>. QED  BY <1>7, <2>2, <2>3, <2>4, <2>5 DEF Took
<1>9. PICK w2 : /\ Strings!NextString(At(w1, f2, t2, u + 1, P1), "spec") = At(w2, f3, t3, s + 1, P2)
                /\ Took(w2, w1, t2, d, "spec", s, Strings!Nul)
  <2>1. t2 \in 1..f2 /\ f2 + s + 1 <= Room /\ u + 1 \in Nat
    BY <1>2, <1>4, <1>5, <1>6
  <2>2. s + 2 <= Strings!Limit("spec", u + 1)
    BY <1>3 DEF Strings!Limit
  <2>3. Advances(w1, f2, t2, u + 1, P1, d, "spec", s)
    BY <1>2, <1>8, <2>1, <2>2, NextIs
  <2>4. f2 + s + 2 = f3 /\ t2 + s + 1 = t3
    BY <1>2, <1>4, <1>5
  <2>. QED  BY <2>3, <2>4 DEF Advances
<1>10. /\ Waits(w2, f3, d, "type", t) /\ Waits(w2, f4, d, "group", g)
       /\ Waits(w2, f5, d, "attr", a) /\ DOMAIN w2 = 1..Room
  <2>1. /\ f3 > t2 + s + 1 /\ f4 > t2 + s + 1 /\ f5 > t2 + s + 1
        /\ f3 + t + 1 <= Room /\ f4 + g + 1 <= Room
    BY <1>2, <1>4, <1>5, <1>6
  <2>3. Waits(w2, f3, d, "type", t)
    BY <1>8, <1>9, <2>1, StillWaits
  <2>4. Waits(w2, f4, d, "group", g)
    BY <1>8, <1>9, <2>1, StillWaits
  <2>5. Waits(w2, f5, d, "attr", a)
    BY <1>6, <1>8, <1>9, <2>1, StillWaits
  <2>. QED  BY <1>9, <2>3, <2>4, <2>5 DEF Took
<1>11. PICK w3 : /\ Strings!NextString(At(w2, f3, t3, s + 1, P2), "type") = At(w3, f4, t4, t + 1, P3)
                 /\ Took(w3, w2, t3, d, "type", t, Strings!Slash)
  <2>1. t3 \in 1..f3 /\ f3 + t + 1 <= Room /\ s + 1 \in Nat
    BY <1>2, <1>4, <1>5, <1>6
  <2>2. t + 2 <= Strings!Limit("type", s + 1)
    BY <1>3 DEF Strings!Limit
  <2>3. Advances(w2, f3, t3, s + 1, P2, d, "type", t)
    BY <1>2, <1>10, <2>1, <2>2, NextIs
  <2>4. f3 + t + 2 = f4 /\ t3 + t + 1 = t4
    BY <1>2, <1>4, <1>5
  <2>. QED  BY <2>3, <2>4 DEF Advances
<1>12. Waits(w3, f4, d, "group", g) /\ Waits(w3, f5, d, "attr", a)
  <2>1. f4 > t3 + t + 1 /\ f5 > t3 + t + 1 /\ f4 + g + 1 <= Room
    BY <1>2, <1>4, <1>5, <1>6
  <2>4. Waits(w3, f4, d, "group", g)
    BY <1>10, <1>11, <2>1, StillWaits
  <2>5. Waits(w3, f5, d, "attr", a)
    BY <1>6, <1>10, <1>11, <2>1, StillWaits
  <2>. QED  BY <2>4, <2>5
<1>13. Strings!Named(m, p) = At(w3, f4, t4, t + 1, P3)
  <2>1. Strings!Start(m, p) = At(m, f1, p, StringMax, <<>>)
    BY <1>4 DEF Strings!Start, At
  <2>. HIDE DEF P1, P2, P3
  <2>. QED  BY <1>7, <1>9, <1>11, <2>1 DEF Strings!Named
<1>. QED  BY <1>1, <1>4, <1>5, <1>7, <1>9, <1>11, <1>12, <1>13 DEF NamedAs

(* A message that ends at e, decoded: nothing in front of it and nothing   *)
(* from its last cell on is written; the strings are there if the group is *)
(* shorter than the type.                                                  *)
DecodedAs(r, m, p, d, c, e) ==
    /\ DOMAIN r.mem = 1..Room
    /\ \A x \in 1..Room : x < p \/ x >= e => r.mem[x] = m[x]
    /\ r.ptr = Place(c, p)
    /\ c["group"] < c["type"] =>
          /\ Row(r.mem, r.ptr, r.ptr[5] + c["attr"] + 1, c, d)
          /\ r.ptr[5] + c["attr"] + 1 <= e

(* The strings of a row are taken one after the other.                     *)
RowTaken(w1, w2, w3, w4, w5, m, p, d, c, u, s, t, g, a) ==
    /\ u \in Nat /\ s \in Nat /\ t \in Nat /\ g \in Nat /\ a \in Nat
    /\ u = c["unit"] /\ s = c["spec"] /\ t = c["type"] /\ g = c["group"] /\ a = c["attr"]
    /\ p + u + s + t + g + a + 5 <= Room
    /\ Took(w1, m, p, d, "unit", u, Strings!Nul)
    /\ Took(w2, w1, p + u + 1, d, "spec", s, Strings!Nul)
    /\ Took(w3, w2, p + u + s + 2, d, "type", t, Strings!Slash)
    /\ Took(w4, w3, p + u + s + t + 3, d, "group", g, Strings!Nul)
    /\ Took(w5, w4, p + u + s + t + g + 4, d, "attr", a, Strings!Nul)

(* What is taken, string after string, is a row.                           *)
LEMMA RowIs ==
    ASSUME Buffer, NEW d, NEW c, NEW p \in Nat \ {0}, NEW m, NEW w1, NEW w2, NEW w3, NEW w4, NEW w5,
           NEW u, NEW s, NEW t, NEW g, NEW a,
           RowTaken(w1, w2, w3, w4, w5, m, p, d, c, u, s, t, g, a)
    PROVE  Row(w5, Place(c, p), p + u + s + t + g + 4 + a + 1, c, d)
<1>. SUFFICES ASSUME u \in Nat, s \in Nat, t \in Nat, g \in Nat, a \in Nat,
                     u = c["unit"], s = c["spec"], t = c["type"], g = c["group"], a = c["attr"],
                     p + u + s + t + g + a + 5 <= Room
              PROVE  Row(w5, Place(c, p), p + u + s + t + g + 4 + a + 1, c, d)
  BY DEF RowTaken
<1>0. Room \in Nat
  BY DEF Buffer
<1>1. PICK t2 \in Nat, t3 \in Nat, t4 \in Nat, t5 \in Nat, l \in Nat :
         /\ t2 = p + u + 1 /\ t3 = p + u + s + 2 /\ t4 = p + u + s + t + 3
         /\ t5 = p + u + s + t + g + 4 /\ l = p + u + s + t + g + 4 + a + 1
  <2>1. /\ p + u + 1 \in Nat /\ p + u + s + 2 \in Nat /\ p + u + s + t + 3 \in Nat
        /\ p + u + s + t + g + 4 \in Nat /\ p + u + s + t + g + 4 + a + 1 \in Nat
    BY ONLY p \in Nat, u \in Nat, s \in Nat, t \in Nat, g \in Nat, a \in Nat
  <2>. QED  BY ONLY <2>1
<1>2. /\ Took(w2, w1, t2, d, "spec", s, Strings!Nul)
      /\ Took(w3, w2, t3, d, "type", t, Strings!Slash)
      /\ Took(w4, w3, t4, d, "group", g, Strings!Nul)
      /\ Took(w5, w4, t5, d, "attr", a, Strings!Nul)
  BY <1>1 DEF RowTaken
<1>3. ASSUME NEW x \in 1..Room, x < t5 PROVE w5[x] = w4[x]
  BY <1>2, <1>3 DEF Took
<1>4. ASSUME NEW x \in 1..Room, x < t4 PROVE w5[x] = w3[x]
  <2>1. x < t5
    BY <1>1, <1>4
  <2>2. w4[x] = w3[x]
    BY <1>2, <1>4 DEF Took
  <2>. QED  BY <1>3, <2>1, <2>2
<1>5. ASSUME NEW x \in 1..Room, x < t3 PROVE w5[x] = w2[x]
  <2>1. x < t4
    BY <1>1, <1>5
  <2>2. w3[x] = w2[x]
    BY <1>2, <1>5 DEF Took
  <2>. QED  BY <1>4, <2>1, <2>2
<1>6. ASSUME NEW x \in 1..Room, x < t2 PROVE w5[x] = w1[x]
  <2>1. x < t3
    BY <1>1, <1>6
  <2>2. w2[x] = w1[x]
    BY <1>2, <1>6 DEF Took
  <2>. QED  BY <1>5, <2>1, <2>2
<1>7. Chars(w5, p, d, "unit", u) /\ w5[t2 - 1] = Strings!Nul
  <2>1. ASSUME NEW i \in 1..u PROVE w5[p + i - 1] = Strings!Char(d, "unit", i)
    <3>1. p + i - 1 \in 1..Room /\ p + i - 1 < t2
      BY <1>0, <1>1
    <3>2. w1[p + i - 1] = Strings!Char(d, "unit", i)
      BY DEF RowTaken, Took, Chars
    <3>. QED  BY <1>6, <3>1, <3>2
  <2>2. t2 - 1 = p + u /\ p + u \in 1..Room /\ p + u < t2
    BY <1>0, <1>1
  <2>3. w1[p + u] = Strings!Nul
    BY DEF RowTaken, Took
  <2>. QED  BY <1>6, <2>1, <2>2, <2>3 DEF Chars
<1>8. Chars(w5, t2, d, "spec", s) /\ w5[t3 - 1] = Strings!Nul
  <2>1. ASSUME NEW i \in 1..s PROVE w5[t2 + i - 1] = Strings!Char(d, "spec", i)
    <3>1. t2 + i - 1 \in 1..Room /\ t2 + i - 1 < t3
      BY <1>0, <1>1
    <3>2. w2[t2 + i - 1] = Strings!Char(d, "spec", i)
      BY <1>2 DEF Took, Chars
    <3>. QED  BY <1>5, <3>1, <3>2
  <2>2. t3 - 1 = t2 + s /\ t2 + s \in 1..Room /\ t2 + s < t3
    BY <1>0, <1>1
  <2>3. w2[t2 + s] = Strings!Nul
    BY <1>2 DEF Took
  <2>. QED  BY <1>5, <2>1, <2>2, <2>3 DEF Chars
<1>9. Chars(w5, t3, d, "type", t) /\ w5[t4 - 1] = Strings!Slash
  <2>1. ASSUME NEW i \in 1..t PROVE w5[t3 + i - 1] = Strings!Char(d, "type", i)
    <3>1. t3 + i - 1 \in 1..Room /\ t3 + i - 1 < t4
      BY <1>0, <1>1
    <3>2. w3[t3 + i - 1] = Strings!Char(d, "type", i)
      BY <1>2 DEF Took, Chars
    <3>. QED  BY <1>4, <3>1, <3>2
  <2>2. t4 - 1 = t3 + t /\ t3 + t \in 1..Room /\ t3 + t < t4
    BY <1>0, <1>1
  <2>3. w3[t3 + t] = Strings!Slash
    BY <1>2 DEF Took
  <2>. QED  BY <1>4, <2>1, <2>2, <2>3 DEF Chars
<1>10. Chars(w5, t4, d, "group", g) /\ w5[t5 - 1] = Strings!Nul
  <2>1. ASSUME NEW i \in 1..g PROVE w5[t4 + i - 1] = Strings!Char(d, "group", i)
    <3>1. t4 + i - 1 \in 1..Room /\ t4 + i - 1 < t5
      BY <1>0, <1>1
    <3>2. w4[t4 + i - 1] = Strings!Char(d, "group", i)
      BY <1>2 DEF Took, Chars
    <3>. QED  BY <1>3, <3>1, <3>2
  <2>2. t5 - 1 = t4 + g /\ t4 + g \in 1..Room /\ t4 + g < t5
    BY <1>0, <1>1
  <2>3. w4[t4 + g] = Strings!Nul
    BY <1>2 DEF Took
  <2>. QED  BY <1>3, <2>1, <2>2, <2>3 DEF Chars
<1>11. Chars(w5, t5, d, "attr", a) /\ w5[l - 1] = Strings!Nul
  <2>1. l - 1 = t5 + a
    BY <1>1
  <2>. QED  BY <1>2, <2>1 DEF Took
<1>12. PICK q : q = Place(c, p)
  OBVIOUS
<1>13. q[1] = p /\ q[2] = t2 /\ q[3] = t3 /\ q[4] = t4 /\ q[5] = t5
  BY <1>1, <1>12 DEF Place
<1>14. t2 = p + u + 1 /\ t3 = t2 + s + 1 /\ t4 = t3 + t + 1 /\ t5 = t4 + g + 1 /\ l = t5 + a + 1
  BY <1>1
<1>15. Row(w5, q, l, c, d)
  <2>1. /\ q[2] = q[1] + c["unit"] + 1 /\ q[3] = q[2] + c["spec"] + 1
        /\ q[4] = q[3] + c["type"] + 1 /\ q[5] = q[4] + c["group"] + 1
        /\ l = q[5] + c["attr"] + 1
    BY <1>13, <1>14
  <2>2. Chars(w5, q[1], d, "unit", c["unit"]) /\ w5[q[2] - 1] = Strings!Nul
    BY <1>7, <1>13
  <2>3. Chars(w5, q[2], d, "spec", c["spec"]) /\ w5[q[3] - 1] = Strings!Nul
    BY <1>8, <1>13
  <2>4. Chars(w5, q[3], d, "type", c["type"]) /\ w5[q[4] - 1] = Strings!Slash
    BY <1>9, <1>13
  <2>5. Chars(w5, q[4], d, "group", c["group"]) /\ w5[q[5] - 1] = Strings!Nul
    BY <1>10, <1>13
  <2>6. Chars(w5, q[5], d, "attr", c["attr"]) /\ w5[l - 1] = Strings!Nul
    BY <1>11, <1>13
  <2>. QED  BY <2>1, <2>2, <2>3, <2>4, <2>5, <2>6 DEF Row
<1>16. l = p + u + s + t + g + 4 + a + 1
  BY <1>1
<1>. QED  BY <1>12, <1>15, <1>16

LEMMA DecodedIs ==
    ASSUME Buffer, NEW m, DOMAIN m = 1..Room, NEW p \in Nat \ {0}, NEW d,
           NEW c \in Configurations, Allowed(c),
           Holds(m, p, Strings!Encoded(d, c)), NEW e \in 1..Room,
           e = p + Len(Strings!Encoded(d, c)) - 1
    PROVE  DecodedAs(Strings!Decoded(m, p), m, p, d, c, e) /\ m[e] = Strings!Nul
<1>1. PICK u \in Nat, s \in Nat, t \in Nat, g \in Nat, a \in Nat :
         u = c["unit"] /\ s = c["spec"] /\ t = c["type"] /\ g = c["group"] /\ a = c["attr"]
  BY DEF Configurations, Strings!FieldNames
<1>2. Numbers \in Nat /\ StringMax \in Nat /\ Room \in Nat
  BY DEF Buffer
<1>3. a + 2 <= StringMax
  BY <1>1 DEF Allowed, Strings!FieldNames
<1>4. /\ e = p + Numbers + u + s + t + g + a + 9
      /\ Waits(m, p + Numbers + u + s + t + g + 8, d, "attr", a)
  <2>1. c \in [Strings!FieldNames -> Nat]
    BY DEF Configurations
  <2>2. Len(Strings!Encoded(d, c)) = Numbers + u + s + t + g + a + 10
    BY <1>1, <2>1, EncodedIs
  <2>3. Waits(m, p + Numbers + u + s + t + g + 8, d, "attr", a)
    BY <1>1, <2>1, EncodedIs
  <2>. QED  BY <1>2, <2>2, <2>3
<1>5. m[e] = Strings!Nul
  <2>1. p + Numbers + u + s + t + g + 8 + a + 1 = e
    BY <1>2, <1>4
  <2>. QED  BY <1>4, <2>1 DEF Waits
<1>6. PICK t2 \in Nat, t3 \in Nat, t4 \in Nat, t5 \in Nat, f4 \in Nat, f5 \in Nat :
         /\ t2 = p + u + 1 /\ t3 = p + u + s + 2 /\ t4 = p + u + s + t + 3
         /\ t5 = p + u + s + t + g + 4
         /\ f4 = p + Numbers + u + s + t + 6 /\ f5 = p + Numbers + u + s + t + g + 8
  <2>1. /\ p + u + 1 \in Nat /\ p + u + s + 2 \in Nat /\ p + u + s + t + 3 \in Nat
        /\ p + u + s + t + g + 4 \in Nat /\ p + Numbers + u + s + t + 6 \in Nat
        /\ p + Numbers + u + s + t + g + 8 \in Nat
    BY <1>2
  <2>. QED  BY ONLY <2>1
<1> DEFINE P3 == Append(Append(Append(<<>>, p), t2), t3)
           P4 == Append(P3, t4)
           P5 == Append(P4, t5)
<1>7. P5 = Place(c, p)
  <2>1. P5 = <<p, t2, t3, t4, t5>>
    BY FivePointers
  <2>. QED  BY <1>1, <1>6, <2>1 DEF Place
<1>8. PICK w1, w2, w3 :
         /\ Took(w1, m, p, d, "unit", u, Strings!Nul)
         /\ Took(w2, w1, t2, d, "spec", s, Strings!Nul)
         /\ Took(w3, w2, t3, d, "type", t, Strings!Slash)
         /\ Strings!Named(m, p) = At(w3, f4, t4, t + 1, P3)
         /\ Waits(w3, f4, d, "group", g) /\ Waits(w3, f5, d, "attr", a)
  <2>1. p + Len(Strings!Encoded(d, c)) - 1 <= Room
    BY <1>2
  <2>2. NamedAs(m, p, d, c)
    BY <2>1, NamedIs
  <2>. QED  BY <1>1, <1>6, <2>2 DEF NamedAs
<1> HIDE DEF P3, P4, P5
<1>9. /\ t4 \in 1..f4 /\ t5 \in 1..f5 /\ f4 + g + 1 <= Room /\ f5 + a + 1 <= Room
      /\ f4 + g + 2 = f5 /\ t4 + g + 1 = t5 /\ f5 > t4 + g + 1
      /\ f4 \in Nat \ {0} /\ f5 \in Nat \ {0} /\ t4 \in Nat \ {0}
  BY <1>2, <1>4, <1>6
<1>10. /\ p + u + 1 < e /\ t2 + s + 1 < e /\ t3 + t + 1 < e /\ t4 + g + 1 < e /\ t5 + a + 1 < e
       /\ p <= t2 /\ p <= t3 /\ p <= t4 /\ p <= t5 /\ p + u + s + t + g + a + 5 <= Room
  BY <1>2, <1>4, <1>6
<1>11. ASSUME NEW x \in 1..Room, x < p \/ x >= e PROVE w3[x] = m[x]
  <2>0. /\ x < p \/ x > p + u + 1
        /\ x < t2 \/ x > t2 + s + 1
        /\ x < t3 \/ x > t3 + t + 1
    BY <1>2, <1>10, <1>11
  <2>1. w1[x] = m[x]
    BY <1>8, <2>0 DEF Took
  <2>2. w2[x] = w1[x]
    BY <1>8, <2>0 DEF Took
  <2>3. w3[x] = w2[x]
    BY <1>8, <2>0 DEF Took
  <2>. QED  BY <2>1, <2>2, <2>3
<1>12. DOMAIN w3 = 1..Room
  BY <1>8 DEF Took
<1>13. CASE g < t
  <2>1. PICK w4 : /\ Strings!NextString(At(w3, f4, t4, t + 1, P3), "group") =
                        At(w4, f5, t5, g + 1, P4)
                  /\ Took(w4, w3, t4, d, "group", g, Strings!Nul)
    <3>1. g + 2 <= Strings!Limit("group", t + 1) /\ t + 1 \in Nat
      BY <1>13 DEF Strings!Limit
    <3>2. Advances(w3, f4, t4, t + 1, P3, d, "group", g)
      BY <1>8, <1>9, <1>12, <3>1, NextIs
    <3>. QED  BY <1>9, <3>2 DEF Advances, P4
  <2>2. DOMAIN w4 = 1..Room
    BY <2>1 DEF Took
  <2>3. Waits(w4, f5, d, "attr", a)
    BY <1>8, <1>9, <2>1, StillWaits
  <2>4. PICK w5 : /\ Strings!NextString(At(w4, f5, t5, g + 1, P4), "attr") =
                        At(w5, f5 + a + 2, t5 + a + 1, a + 1, P5)
                  /\ Took(w5, w4, t5, d, "attr", a, Strings!Nul)
    <3>1. a + 2 <= Strings!Limit("attr", g + 1) /\ g + 1 \in Nat
      BY <1>3 DEF Strings!Limit
    <3>2. Advances(w4, f5, t5, g + 1, P4, d, "attr", a)
      BY <1>9, <2>2, <2>3, <3>1, NextIs
    <3>. QED  BY <3>2 DEF Advances, P5
  <2>5. PICK r : r = At(w5, f5 + a + 2, t5 + a + 1, a + 1, P5)
    OBVIOUS
  <2>6. r = Strings!Decoded(m, p)
    BY <1>8, <2>1, <2>4, <2>5 DEF Strings!Decoded
  <2>7. r.mem = w5 /\ r.ptr = Place(c, p)
    BY <1>7, <2>5 DEF At
  <2>8. ASSUME NEW x \in 1..Room, x < p \/ x >= e PROVE w5[x] = m[x]
    <3>1. x < t4 \/ x > t4 + g + 1
      BY <1>2, <1>10, <2>8
    <3>2. x < t5 \/ x > t5 + a + 1
      BY <1>2, <1>10, <2>8
    <3>3. w4[x] = w3[x]
      BY ONLY <2>1, <3>1 DEF Took
    <3>4. w5[x] = w4[x]
      BY ONLY <2>4, <3>2 DEF Took
    <3>. QED  BY <1>11, <2>8, <3>3, <3>4
  <2>9. Row(w5, Place(c, p), p + u + s + t + g + 4 + a + 1, c, d)
    <3>1. /\ Took(w1, m, p, d, "unit", u, Strings!Nul)
          /\ Took(w2, w1, p + u + 1, d, "spec", s, Strings!Nul)
          /\ Took(w3, w2, p + u + s + 2, d, "type", t, Strings!Slash)
          /\ Took(w4, w3, p + u + s + t + 3, d, "group", g, Strings!Nul)
          /\ Took(w5, w4, p + u + s + t + g + 4, d, "attr", a, Strings!Nul)
      BY <1>6, <1>8, <2>1, <2>4
    <3>2. p + u + s + t + g + a + 5 <= Room
      BY <1>10
    <3>3. RowTaken(w1, w2, w3, w4, w5, m, p, d, c, u, s, t, g, a)
      BY Zenon, <1>1, <3>1, <3>2 DEF RowTaken
    <3>. QED  BY Zenon, <3>3, RowIs
  <2>10. Place(c, p)[5] = t5
    BY <1>1, <1>6 DEF Place
  <2>11. r.ptr[5] + c["attr"] + 1 = p + u + s + t + g + 4 + a + 1
    BY <1>1, <1>6, <2>7, <2>10
  <2>12. r.ptr[5] + c["attr"] + 1 <= e
    BY <1>1, <1>2, <1>10, <2>7, <2>10
  <2>13. Row(r.mem, r.ptr, r.ptr[5] + c["attr"] + 1, c, d)
    BY <2>7, <2>9, <2>11
  <2>14. DOMAIN w5 = 1..Room
    BY <2>4 DEF Took
  <2>15. DecodedAs(r, m, p, d, c, e)
    BY <2>7, <2>8, <2>12, <2>13, <2>14 DEF DecodedAs
  <2>. QED  BY <1>5, <2>6, <2>15
<1>14. CASE ~(g < t)
  <2>0. PICK k \in Nat, len \in Nat, f \in Nat, f6 \in Nat :
           k = g + 1 /\ len = t + 1 /\ f = f4 + 1 /\ f6 = f + 1
    OBVIOUS
  <2>3. PICK t6 : t6 = t5 + StringMax
    OBVIOUS
  <2>1. Strings!NextString(At(w3, f4, t4, t + 1, P3), "group") = At(w3, f, t5, k, P4)
    <3>1. t5 = t4 + k
      BY <1>9, <2>0
    <3>2. w3[f4] = Strings!Head1(k)
      BY <1>8, <2>0 DEF Waits
    <3>3. k >= len
      BY <1>14, <2>0
    <3>4. /\ f4 \in Nat /\ t4 \in Nat /\ len \in Nat /\ k \in Nat
          /\ f = f4 + 1
      BY <2>0
    <3>5. Strings!NextString(At(w3, f4, t4, len, P3), "group") = At(w3, f, t5, k, Append(P3, t4))
      BY ONLY <3>1, <3>2, <3>3, <3>4, NextRefused
    <3>. QED  BY <2>0, <3>5 DEF P4
  <2>2. w3[f4 + 1][1] # "str"
    <3>1. CASE g = 0
      <4>1. w3[f4 + g + 1] = Strings!Nul /\ f4 + g + 1 = f4 + 1
        BY <1>8, <3>1 DEF Waits
      <4>. QED  BY <4>1, CellsDiffer
    <3>2. CASE g # 0
      <4>1. w3[f4 + 1 + 1 - 1] = Strings!Char(d, "group", 1)
        BY <1>8, <3>2, 1 \in 1..g DEF Waits, Chars
      <4>2. f4 + 1 + 1 - 1 = f4 + 1
        OBVIOUS
      <4>. QED  BY <4>1, <4>2, CellsDiffer
    <3>. QED  BY <3>1, <3>2
  <2>6. Strings!NextString(At(w3, f, t5, k, P4), "attr") = At(w3, f6, t6, StringMax, P5)
    <3>1. w3[f][1] # "str"
      BY <2>0, <2>2
    <3>2. "attr" \notin {"type", "group"}
      OBVIOUS
    <3>3. Strings!NextString(At(w3, f, t5, k, P4), "attr") = At(w3, f6, t6, StringMax, Append(P4, t5))
      BY <2>0, <2>3, <3>1, <3>2, NextSkipped
    <3>. QED  BY <3>3 DEF P5
  <2>7. PICK r : r = At(w3, f6, t6, StringMax, P5)
    OBVIOUS
  <2>8. r = Strings!Decoded(m, p)
    BY <1>8, <2>1, <2>6, <2>7 DEF Strings!Decoded
  <2>9. r.mem = w3 /\ r.ptr = Place(c, p)
    BY <1>7, <2>7 DEF At
  <2>10. ~(c["group"] < c["type"])
    BY <1>1, <1>14
  <2>11. DecodedAs(r, m, p, d, c, e)
    BY <1>11, <1>12, <2>9, <2>10 DEF DecodedAs
  <2>. QED  BY <1>5, <2>8, <2>11
<1>. QED  BY <1>13, <1>14

-----------------------------------------------------------------------------
(* Reading the strings that are kept.                                      *)

LEMMA LeastNumber ==
    ASSUME NEW T \in SUBSET Nat, T # {}
    PROVE  \E x \in T : \A y \in T : x <= y
<1>1. PICK x \in T : \A y \in T : <<y, x>> \notin OpToRel(<, Nat)
  BY NatLessThanWellFounded, WFMin
<1>2. \A y \in T : ~(y < x)
  BY <1>1 DEF OpToRel
<1>. QED  BY <1>2

IsEnd(m, p, q) == m[q] = Strings!Nul /\ \A x \in p..(q - 1) : m[x] # Strings!Nul

LEMMA EndIs ==
    ASSUME Buffer, NEW m, NEW p \in Nat \ {0}, NEW e \in p..Room, m[e] = Strings!Nul
    PROVE  Strings!End(m, p) \in p..e /\ IsEnd(m, p, Strings!End(m, p))
<1>0. Room \in Nat
  BY DEF Buffer
<1>1. PICK T : T = {q \in p..e : m[q] = Strings!Nul}
  OBVIOUS
<1>10. T \in SUBSET Nat
  BY <1>0, <1>1
<1>2. T # {}
  <2>1. e \in T
    BY <1>0, <1>1
  <2>. QED  BY <2>1
<1>3. PICK q \in T : \A y \in T : q <= y
  BY <1>2, <1>10, LeastNumber
<1>4. q \in p..e /\ q \in p..Room /\ m[q] = Strings!Nul
  BY <1>0, <1>1
<1>5. ASSUME NEW x \in p..(q - 1) PROVE m[x] # Strings!Nul
  <2>1. x \in p..e /\ ~(q <= x)
    BY <1>0, <1>4
  <2>. QED  BY <1>1, <1>3, <2>1
<1>6. IsEnd(m, p, q)
  BY <1>4, <1>5 DEF IsEnd
<1>7. PICK z : z = Strings!End(m, p)
  OBVIOUS
<1>8. z \in p..Room /\ IsEnd(m, p, z)
  <2>1. \E y \in p..Room : m[y] = Strings!Nul /\ \A x \in p..(y - 1) : m[x] # Strings!Nul
    BY <1>4, <1>5
  <2>. QED  BY <1>7, <2>1 DEF Strings!End, IsEnd
<1>9. z \in p..e
  <2>1. ~(q < z)
    <3>1. SUFFICES ASSUME q < z PROVE FALSE
      OBVIOUS
    <3>2. q \in p..(z - 1)
      BY <1>0, <1>4, <1>8, <3>1
    <3>. QED  BY <1>4, <1>8, <3>2 DEF IsEnd
  <2>. QED  BY <1>0, <1>4, <1>8, <2>1
<1>. QED  BY <1>7, <1>8, <1>9

(* The string that ends at q.                                              *)
LEMMA StringTo ==
    ASSUME Buffer, NEW m, NEW p \in Nat \ {0}, NEW q \in p..Room, IsEnd(m, p, q)
    PROVE  Strings!End(m, p) = q /\ IsStretch(Strings!CString(m, p), m, p, q - p)
<1>0. Room \in Nat
  BY DEF Buffer
<1>1. PICK z : z = Strings!End(m, p)
  OBVIOUS
<1>2. z \in p..q /\ IsEnd(m, p, z)
  <2>1. m[q] = Strings!Nul
    BY DEF IsEnd
  <2>. QED  BY <1>1, <2>1, EndIs
<1>3. z = q
  <2>1. SUFFICES ASSUME z # q PROVE FALSE
    OBVIOUS
  <2>2. z \in p..(q - 1)
    BY <1>0, <1>2, <2>1
  <2>. QED  BY <1>2, <2>2 DEF IsEnd
<1>4. PICK b \in Nat : b = q - 1
  BY <1>0
<1>5. Strings!CString(m, p) = SubSeq(m, p, b)
  BY <1>1, <1>3, <1>4 DEF Strings!CString
<1>6. IsStretch(SubSeq(m, p, b), m, p, b - p + 1)
  <2>1. p <= b + 1
    BY <1>0, <1>4
  <2>. QED  BY <2>1, StretchIs
<1>7. b - p + 1 = q - p
  BY <1>0, <1>4
<1>. QED  BY <1>1, <1>3, <1>5, <1>6, <1>7

HasText(m, p, d, f, n) == Chars(m, p, d, f, n) /\ m[p + n] = Strings!Nul /\ p + n <= Room
ReadsText(m, p, d, f, n) ==
    /\ Strings!End(m, p) = p + n
    /\ Strings!CString(m, p) = [i \in 1..n |-> Strings!Char(d, f, i)]

LEMMA TextIs ==
    ASSUME Buffer, NEW m, NEW p \in Nat \ {0}, NEW d, NEW f, NEW n \in Nat, HasText(m, p, d, f, n)
    PROVE  ReadsText(m, p, d, f, n)
<1>0. Room \in Nat /\ Chars(m, p, d, f, n) /\ m[p + n] = Strings!Nul /\ p + n <= Room
  BY DEF Buffer, HasText
<1>1. PICK q \in p..Room : q = p + n
  BY <1>0
<1>2. IsEnd(m, p, q)
  <2>1. ASSUME NEW x \in p..(q - 1) PROVE m[x] # Strings!Nul
    <3>1. PICK i \in 1..n : x = p + i - 1
      <4>1. x - p + 1 \in 1..n /\ x = p + (x - p + 1) - 1
        BY <1>0, <1>1
      <4>. QED  BY <4>1
    <3>2. m[p + i - 1] = Strings!Char(d, f, i)
      BY <1>0 DEF Chars
    <3>. QED  BY <3>1, <3>2, CellsDiffer
  <2>. QED  BY <1>0, <1>1, <2>1 DEF IsEnd
<1>3. Strings!End(m, p) = q /\ IsStretch(Strings!CString(m, p), m, p, q - p)
  BY <1>2, StringTo
<1>4. PICK s : s = Strings!CString(m, p)
  OBVIOUS
<1>5. PICK t : t = [i \in 1..n |-> Strings!Char(d, f, i)]
  OBVIOUS
<1>6. IsSequence(t) /\ Len(t) = n
  BY <1>5, CharsIs
<1>7. q - p = n
  BY <1>0, <1>1
<1>8. IsSequence(s) /\ Len(s) = n /\ \A i \in 1..n : s[i] = m[p + i - 1]
  BY <1>3, <1>4, <1>7 DEF IsStretch
<1>9. \A i \in 1..Len(s) : s[i] = t[i]
  BY <1>0, <1>5, <1>8 DEF Chars
<1>10. s = t
  BY <1>6, <1>8, <1>9, SameSequence
<1>. QED  BY <1>1, <1>3, <1>4, <1>5, <1>10 DEF ReadsText

(* A type, a slash and a group.                                            *)
HasUrl(m, p, d, n, k) ==
    /\ Chars(m, p, d, "type", n) /\ m[p + n] = Strings!Slash
    /\ Chars(m, p + n + 1, d, "group", k) /\ m[p + n + 1 + k] = Strings!Nul
    /\ p + n + 1 + k <= Room
ReadsUrl(m, p, d, n, k) ==
    Strings!CString(m, p) =
        [i \in 1..n |-> Strings!Char(d, "type", i)] \o <<Strings!Slash>>
            \o [i \in 1..k |-> Strings!Char(d, "group", i)]

LEMMA UrlIs ==
    ASSUME Buffer, NEW m, NEW p \in Nat \ {0}, NEW d, NEW n \in Nat, NEW k \in Nat,
           HasUrl(m, p, d, n, k)
    PROVE  ReadsUrl(m, p, d, n, k)
<1>0. /\ Room \in Nat /\ Chars(m, p, d, "type", n) /\ m[p + n] = Strings!Slash
      /\ Chars(m, p + n + 1, d, "group", k) /\ m[p + n + 1 + k] = Strings!Nul
      /\ p + n + 1 + k <= Room
  BY DEF Buffer, HasUrl
<1>1. PICK q \in p..Room : q = p + n + 1 + k
  BY <1>0
<1>2. PICK a : a = [i \in 1..n |-> Strings!Char(d, "type", i)]
  OBVIOUS
<1>3. PICK b : b = <<Strings!Slash>>
  OBVIOUS
<1>4. PICK c : c = [i \in 1..k |-> Strings!Char(d, "group", i)]
  OBVIOUS
<1>5. IsSequence(a) /\ Len(a) = n
  BY <1>2, CharsIs
<1>6. IsSequence(b) /\ Len(b) = 1 /\ b[1] = Strings!Slash
  BY <1>3, OneCell
<1>7. IsSequence(c) /\ Len(c) = k
  <2>1. /\ IsSequence([i \in 1..k |-> Strings!Char(d, "group", i)])
        /\ Len([i \in 1..k |-> Strings!Char(d, "group", i)]) = k
    BY ONLY k \in Nat, CharsIs
  <2>. QED  BY <1>4, <2>1
<1>8. PICK ab : ab = a \o b
  OBVIOUS
<1>9. Follow(ab, a, b)
  BY <1>5, <1>6, <1>8, TheyFollow
<1>10. Len(ab) = n + 1 /\ (\A i \in 1..n : ab[i] = a[i]) /\ ab[n + 1] = Strings!Slash
  BY <1>5, <1>6, <1>9 DEF Follow
<1>11. PICK t : t = ab \o c
  OBVIOUS
<1>12. Follow(t, ab, c)
  <2>1. IsSequence(ab)
    BY <1>9 DEF Follow
  <2>. QED  BY <1>7, <1>11, <2>1, TheyFollow
<1>13. /\ Len(t) = n + 1 + k
       /\ \A i \in 1..n + 1 : t[i] = ab[i]
       /\ \A i \in 1..k : t[n + 1 + i] = c[i]
  BY <1>7, <1>10, <1>12 DEF Follow
<1>14. ASSUME NEW i \in 1..n + 1 + k PROVE t[i] = m[p + i - 1] /\ t[i] # Strings!Nul
  <2>1. CASE i <= n
    <3>1. i \in 1..n /\ i \in 1..n + 1
      BY <2>1
    <3>2. t[i] = Strings!Char(d, "type", i)
      BY <1>2, <1>10, <1>13, <3>1
    <3>3. m[p + i - 1] = Strings!Char(d, "type", i)
      BY <1>0, <3>1 DEF Chars
    <3>. QED  BY <3>2, <3>3, CellsDiffer
  <2>2. CASE i = n + 1
    <3>1. t[i] = Strings!Slash
      BY <1>10, <1>13, <2>2
    <3>2. p + i - 1 = p + n
      BY <2>2
    <3>. QED  BY <1>0, <3>1, <3>2, CellsDiffer
  <2>3. CASE i > n + 1
    <3>1. PICK x \in 1..k : i = n + 1 + x
      <4>1. i - n - 1 \in 1..k /\ i = n + 1 + (i - n - 1)
        BY <2>3
      <4>. QED  BY <4>1
    <3>2. t[i] = Strings!Char(d, "group", x)
      BY <1>4, <1>13, <3>1
    <3>3. m[p + n + 1 + x - 1] = Strings!Char(d, "group", x)
      BY <1>0 DEF Chars
    <3>4. p + n + 1 + x - 1 = p + i - 1
      BY <3>1
    <3>. QED  BY <3>2, <3>3, <3>4, CellsDiffer
  <2>. QED  BY <2>1, <2>2, <2>3
<1>15. IsEnd(m, p, q)
  <2>1. ASSUME NEW x \in p..(q - 1) PROVE m[x] # Strings!Nul
    <3>1. PICK i \in 1..n + 1 + k : x = p + i - 1
      <4>1. x - p + 1 \in 1..n + 1 + k /\ x = p + (x - p + 1) - 1
        BY <1>0, <1>1
      <4>. QED  BY <4>1
    <3>. QED  BY <1>14, <3>1
  <2>. QED  BY <1>0, <1>1, <2>1 DEF IsEnd
<1>16. IsStretch(Strings!CString(m, p), m, p, q - p)
  BY <1>15, StringTo
<1>17. PICK s : s = Strings!CString(m, p)
  OBVIOUS
<1>18. q - p = n + 1 + k
  BY <1>0, <1>1
<1>19. IsSequence(s) /\ Len(s) = n + 1 + k /\ \A i \in 1..n + 1 + k : s[i] = m[p + i - 1]
  BY <1>16, <1>17, <1>18 DEF IsStretch
<1>20. \A i \in 1..Len(s) : s[i] = t[i]
  BY <1>14, <1>19
<1>21. s = t
  <2>1. IsSequence(t)
    BY <1>12 DEF Follow
  <2>. QED  BY <2>1, <1>13, <1>19, <1>20, SameSequence
<1>. QED  BY <1>2, <1>3, <1>4, <1>8, <1>11, <1>17, <1>21 DEF ReadsUrl

LEMMA RowReads ==
    ASSUME Buffer, NEW m, NEW s \in [1..5 -> 1..Room], NEW l \in 1..Room, NEW d,
           NEW c \in Configurations, Row(m, s, l, c, d)
    PROVE  /\ ReadsText(m, s[1], d, "unit", c["unit"])
           /\ ReadsText(m, s[2], d, "spec", c["spec"])
           /\ ReadsUrl(m, s[3], d, c["type"], c["group"])
           /\ ReadsText(m, s[5], d, "attr", c["attr"])
<1>0. Room \in Nat
  BY DEF Buffer
<1>1. PICK u \in Nat, v \in Nat, t \in Nat, g \in Nat, a \in Nat :
         u = c["unit"] /\ v = c["spec"] /\ t = c["type"] /\ g = c["group"] /\ a = c["attr"]
  BY DEF Configurations, Strings!FieldNames
<1>2. PICK s1 \in 1..Room, s2 \in 1..Room, s3 \in 1..Room, s4 \in 1..Room, s5 \in 1..Room :
         s1 = s[1] /\ s2 = s[2] /\ s3 = s[3] /\ s4 = s[4] /\ s5 = s[5]
  OBVIOUS
<1>3. /\ s2 = s1 + u + 1 /\ s3 = s2 + v + 1 /\ s4 = s3 + t + 1 /\ s5 = s4 + g + 1 /\ l = s5 + a + 1
      /\ Chars(m, s1, d, "unit", u) /\ m[s2 - 1] = Strings!Nul
      /\ Chars(m, s2, d, "spec", v) /\ m[s3 - 1] = Strings!Nul
      /\ Chars(m, s3, d, "type", t) /\ m[s4 - 1] = Strings!Slash
      /\ Chars(m, s4, d, "group", g) /\ m[s5 - 1] = Strings!Nul
      /\ Chars(m, s5, d, "attr", a) /\ m[l - 1] = Strings!Nul
  BY <1>1, <1>2 DEF Row
<1>4. /\ s2 - 1 = s1 + u /\ s3 - 1 = s2 + v /\ s4 - 1 = s3 + t /\ s4 = s3 + t + 1
      /\ s5 - 1 = s3 + t + 1 + g /\ l - 1 = s5 + a
      /\ s1 + u <= Room /\ s2 + v <= Room /\ s3 + t + 1 + g <= Room /\ s5 + a <= Room
      /\ s1 \in Nat \ {0} /\ s2 \in Nat \ {0} /\ s3 \in Nat \ {0} /\ s5 \in Nat \ {0}
  BY <1>0, <1>3
<1>5. HasText(m, s1, d, "unit", u)
  BY <1>3, <1>4 DEF HasText
<1>6. HasText(m, s2, d, "spec", v)
  BY <1>3, <1>4 DEF HasText
<1>7. HasUrl(m, s3, d, t, g)
  BY <1>3, <1>4 DEF HasUrl
<1>8. HasText(m, s5, d, "attr", a)
  BY <1>3, <1>4 DEF HasText
<1>9. ReadsText(m, s1, d, "unit", u)
  BY <1>4, <1>5, TextIs
<1>10. ReadsText(m, s2, d, "spec", v)
  BY <1>4, <1>6, TextIs
<1>11. ReadsUrl(m, s3, d, t, g)
  BY <1>4, <1>7, UrlIs
<1>12. ReadsText(m, s5, d, "attr", a)
  BY <1>4, <1>8, TextIs
<1>. QED  BY <1>1, <1>2, <1>9, <1>10, <1>11, <1>12

(* What is written elsewhere leaves a row alone.                           *)
LEMMA RowStays ==
    ASSUME Buffer, NEW m, NEW w, NEW s \in [1..5 -> 1..Room], NEW l \in 1..Room, NEW d,
           NEW c \in Configurations, Row(m, s, l, c, d),
           \A x \in 1..Room : s[1] <= x /\ x < l => w[x] = m[x]
    PROVE  Row(w, s, l, c, d)
<1>0. Room \in Nat
  BY DEF Buffer
<1>1. PICK u \in Nat, v \in Nat, t \in Nat, g \in Nat, a \in Nat :
         u = c["unit"] /\ v = c["spec"] /\ t = c["type"] /\ g = c["group"] /\ a = c["attr"]
  BY DEF Configurations, Strings!FieldNames
<1>2. PICK s1 \in 1..Room, s2 \in 1..Room, s3 \in 1..Room, s4 \in 1..Room, s5 \in 1..Room :
         s1 = s[1] /\ s2 = s[2] /\ s3 = s[3] /\ s4 = s[4] /\ s5 = s[5]
  OBVIOUS
<1>3. /\ s2 = s1 + u + 1 /\ s3 = s2 + v + 1 /\ s4 = s3 + t + 1 /\ s5 = s4 + g + 1 /\ l = s5 + a + 1
      /\ Chars(m, s1, d, "unit", u) /\ m[s2 - 1] = Strings!Nul
      /\ Chars(m, s2, d, "spec", v) /\ m[s3 - 1] = Strings!Nul
      /\ Chars(m, s3, d, "type", t) /\ m[s4 - 1] = Strings!Slash
      /\ Chars(m, s4, d, "group", g) /\ m[s5 - 1] = Strings!Nul
      /\ Chars(m, s5, d, "attr", a) /\ m[l - 1] = Strings!Nul
  BY <1>1, <1>2 DEF Row
<1>4. \A x \in 1..Room : s1 <= x /\ x < l => w[x] = m[x]
  BY <1>2
<1>5. ASSUME NEW p \in 1..Room, NEW f, NEW n \in Nat, s1 <= p, p + n < l, Chars(m, p, d, f, n)
      PROVE  Chars(w, p, d, f, n)
  <2>1. ASSUME NEW i \in 1..n PROVE w[p + i - 1] = Strings!Char(d, f, i)
    <3>1. p + i - 1 \in 1..Room /\ s1 <= p + i - 1 /\ p + i - 1 < l
      BY <1>0, <1>5
    <3>2. m[p + i - 1] = Strings!Char(d, f, i)
      BY <1>5 DEF Chars
    <3>. QED  BY <1>4, <3>1, <3>2
  <2>. QED  BY <2>1 DEF Chars
<1>6. /\ s1 <= s2 /\ s1 <= s3 /\ s1 <= s4 /\ s1 <= s5
      /\ s1 + u < l /\ s2 + v < l /\ s3 + t < l /\ s4 + g < l /\ s5 + a < l
      /\ s2 - 1 \in 1..Room /\ s3 - 1 \in 1..Room /\ s4 - 1 \in 1..Room /\ s5 - 1 \in 1..Room
      /\ l - 1 \in 1..Room
      /\ s1 <= s2 - 1 /\ s1 <= s3 - 1 /\ s1 <= s4 - 1 /\ s1 <= s5 - 1 /\ s1 <= l - 1
      /\ s2 - 1 < l /\ s3 - 1 < l /\ s4 - 1 < l /\ s5 - 1 < l /\ l - 1 < l
  BY <1>0, <1>3
<1>7. /\ w[s2 - 1] = m[s2 - 1] /\ w[s3 - 1] = m[s3 - 1] /\ w[s4 - 1] = m[s4 - 1]
      /\ w[s5 - 1] = m[s5 - 1] /\ w[l - 1] = m[l - 1]
  BY <1>4, <1>6
<1>8. Chars(w, s1, d, "unit", u)
  BY <1>3, <1>5, <1>6
<1>9. Chars(w, s2, d, "spec", v)
  BY <1>3, <1>5, <1>6
<1>10. Chars(w, s3, d, "type", t)
  BY <1>3, <1>5, <1>6
<1>11. Chars(w, s4, d, "group", g)
  BY <1>3, <1>5, <1>6
<1>12. Chars(w, s5, d, "attr", a)
  BY <1>3, <1>5, <1>6
<1>13. /\ w[s2 - 1] = Strings!Nul /\ w[s3 - 1] = Strings!Nul /\ w[s4 - 1] = Strings!Slash
       /\ w[s5 - 1] = Strings!Nul /\ w[l - 1] = Strings!Nul
  BY <1>3, <1>7
<1>14. /\ s2 = s1 + u + 1 /\ s3 = s2 + v + 1 /\ s4 = s3 + t + 1 /\ s5 = s4 + g + 1 /\ l = s5 + a + 1
  BY <1>3
<1>. QED  BY <1>1, <1>2, <1>8, <1>9, <1>10, <1>11, <1>12, <1>13, <1>14 DEF Row

-----------------------------------------------------------------------------
(* The strings of every sensor set up, in rows of their own.               *)

Waiting ==
    received # <<>> =>
        /\ Len(confs) < UartDevices
        /\ payload + Len(Strings!Encoded(Len(confs) + 1, received[1])) + LASTVALSIZE <= Room
        /\ Holds(mem, payload, Strings!Encoded(Len(confs) + 1, received[1]))

GroupsShorter == \A d \in DOMAIN confs : confs[d]["group"] < confs[d]["type"]

RowsKept ==
    GroupsShorter =>
        \A d \in DOMAIN confs :
            /\ Row(mem, strings[d], lastval[d], confs[d], d)
            /\ lastval[d] + LASTVALSIZE <= payload
            /\ \A e \in DOMAIN confs : d < e => lastval[d] + LASTVALSIZE <= strings[e][1]

StringsKept == Strings!TypeOK /\ Waiting /\ RowsKept

LEMMA InitStrings == ASSUME Buffer, Strings!Init PROVE StringsKept
<1>1. DOMAIN confs = {}
  BY DEF Strings!Init
<1>2. RowsKept
  BY <1>1 DEF RowsKept
<1>3. Waiting
  BY DEF Strings!Init, Waiting
<1>4. Strings!TypeOK
  <2>1. DOMAIN mem = 1..Room /\ payload \in 1..Room
    BY DEF Strings!Init, Buffer
  <2>2. confs \in Seq(Confs) /\ Len(confs) = 0 /\ received \in Seq(Confs) /\ Len(received) = 0
    BY DEF Strings!Init
  <2>3. strings \in Seq([1..5 -> 1..Room]) /\ Len(strings) = 0
    BY DEF Strings!Init
  <2>4. lastval \in Seq(1..Room) /\ Len(lastval) = 0
    BY DEF Strings!Init
  <2>5. readings \in 0..MaxReadings
    BY DEF Strings!Init, Buffer
  <2>6. Len(confs) <= UartDevices /\ Len(received) <= 1
    BY <2>2 DEF Buffer
  <2>. QED  BY <2>1, <2>2, <2>3, <2>4, <2>5, <2>6 DEF Strings!TypeOK
<1>. QED  BY <1>2, <1>3, <1>4 DEF StringsKept

LEMMA ElementOf == ASSUME NEW S, NEW s \in Seq(S), NEW i \in 1..Len(s) PROVE s[i] \in S
OBVIOUS

LEMMA KeptMeans == ASSUME Buffer, StringsKept PROVE Strings!StringsIntact
<1>1. SUFFICES ASSUME GroupsShorter, NEW d \in DOMAIN confs PROVE Strings!Reads(d)
  BY DEF Strings!StringsIntact, GroupsShorter
<1>2. /\ d \in 1..Len(confs) /\ Len(strings) = Len(confs) /\ Len(lastval) = Len(confs)
      /\ confs \in Seq(Confs) /\ strings \in Seq([1..5 -> 1..Room]) /\ lastval \in Seq(1..Room)
  BY DEF StringsKept, Strings!TypeOK
<1>3. PICK s \in [1..5 -> 1..Room], l \in 1..Room, c \in Confs :
         s = strings[d] /\ l = lastval[d] /\ c = confs[d]
  <2>1. strings[d] \in [1..5 -> 1..Room]
    BY ONLY <1>2, ElementOf
  <2>2. lastval[d] \in 1..Room
    BY ONLY <1>2, ElementOf
  <2>3. confs[d] \in Confs
    BY ONLY <1>2, ElementOf
  <2>. QED  BY ONLY <2>1, <2>2, <2>3
<1>4. c \in Configurations
  BY DEF Buffer, Configurations
<1>5. Row(mem, s, l, c, d)
  BY <1>1, <1>3 DEF StringsKept, RowsKept
<1>6. /\ ReadsText(mem, s[1], d, "unit", c["unit"])
      /\ ReadsText(mem, s[2], d, "spec", c["spec"])
      /\ ReadsUrl(mem, s[3], d, c["type"], c["group"])
      /\ ReadsText(mem, s[5], d, "attr", c["attr"])
  BY <1>4, <1>5, RowReads
<1>. QED  BY <1>3, <1>6 DEF ReadsText, ReadsUrl, Strings!Reads, Strings!Sent, Strings!Url

LEMMA RowIn ==
    ASSUME Buffer, StringsKept, NEW d \in DOMAIN confs
    PROVE  /\ d \in 1..Len(confs) /\ Len(confs) \in Nat
           /\ strings[d] \in [1..5 -> 1..Room] /\ lastval[d] \in 1..Room
           /\ confs[d] \in Confs /\ confs[d] \in Configurations
<1>2. /\ d \in 1..Len(confs) /\ Len(strings) = Len(confs) /\ Len(lastval) = Len(confs)
      /\ confs \in Seq(Confs) /\ strings \in Seq([1..5 -> 1..Room]) /\ lastval \in Seq(1..Room)
  BY DEF StringsKept, Strings!TypeOK
<1>3. strings[d] \in [1..5 -> 1..Room]
  BY ONLY <1>2, ElementOf
<1>4. lastval[d] \in 1..Room
  BY ONLY <1>2, ElementOf
<1>5. confs[d] \in Confs
  BY ONLY <1>2, ElementOf
<1>6. confs[d] \in Configurations
  BY <1>5 DEF Buffer, Configurations
<1>. QED  BY <1>2, <1>3, <1>4, <1>5, <1>6

(* A row begins in front of its readings.                                  *)
LEMMA RowIsInFront ==
    ASSUME Buffer, NEW m, NEW s \in [1..5 -> 1..Room], NEW l \in 1..Room, NEW d,
           NEW c \in Configurations, Row(m, s, l, c, d)
    PROVE  s[1] <= l /\ s[5] + c["attr"] + 1 = l
<1>1. PICK u \in Nat, v \in Nat, t \in Nat, g \in Nat, a \in Nat :
         u = c["unit"] /\ v = c["spec"] /\ t = c["type"] /\ g = c["group"] /\ a = c["attr"]
  BY DEF Configurations, Strings!FieldNames
<1>2. PICK s1 \in 1..Room, s2 \in 1..Room, s3 \in 1..Room, s4 \in 1..Room, s5 \in 1..Room :
         s1 = s[1] /\ s2 = s[2] /\ s3 = s[3] /\ s4 = s[4] /\ s5 = s[5]
  OBVIOUS
<1>3. /\ s2 = s1 + u + 1 /\ s3 = s2 + v + 1 /\ s4 = s3 + t + 1 /\ s5 = s4 + g + 1 /\ l = s5 + a + 1
  BY <1>1, <1>2 DEF Row
<1>4. Room \in Nat
  BY DEF Buffer
<1>. QED  BY <1>1, <1>2, <1>3, <1>4

(* What is written behind every row, or where the readings of one sensor   *)
(* are kept, leaves the rows alone.                                        *)
LEMMA RowsStay ==
    ASSUME Buffer, StringsKept, GroupsShorter, NEW w, NEW d \in DOMAIN confs, NEW o \in DOMAIN confs,
           \A x \in 1..Room :
               x < payload /\ (x < lastval[o] \/ x >= lastval[o] + LASTVALSIZE) => w[x] = mem[x]
    PROVE  Row(w, strings[d], lastval[d], confs[d], d)
<1>0. Room \in Nat /\ LASTVALSIZE \in Nat
  BY DEF Buffer
<1>1. PICK s \in [1..5 -> 1..Room], l \in 1..Room, c \in Configurations :
         s = strings[d] /\ l = lastval[d] /\ c = confs[d]
  BY RowIn
<1>2. PICK z \in [1..5 -> 1..Room], y \in 1..Room, k \in Configurations :
         z = strings[o] /\ y = lastval[o] /\ k = confs[o]
  BY RowIn
<1>3. /\ Row(mem, s, l, c, d) /\ l + LASTVALSIZE <= payload
      /\ d < o => l + LASTVALSIZE <= z[1]
  BY <1>1, <1>2 DEF StringsKept, RowsKept
<1>4. /\ Row(mem, z, y, k, o) /\ o < d => y + LASTVALSIZE <= s[1]
  BY <1>1, <1>2 DEF StringsKept, RowsKept
<1>5. Row(mem, z, y, k, o)
  BY <1>1, <1>2 DEF StringsKept, RowsKept
<1>6. z[1] <= y
  BY <1>5, RowIsInFront
<1>7. d \in Nat /\ o \in Nat /\ payload \in 1..Room
  <2>1. PICK k1 \in Nat : k1 = Len(confs)
    BY RowIn
  <2>2. d \in 1..k1 /\ o \in 1..k1
    BY <2>1, RowIn
  <2>3. payload \in 1..Room
    BY DEF StringsKept, Strings!TypeOK
  <2>4. d \in Nat /\ o \in Nat
    BY ONLY <2>2
  <2>. QED  BY ONLY <2>3, <2>4
<1>8. s[1] \in 1..Room /\ z[1] \in 1..Room
  OBVIOUS
<1>9. ASSUME NEW x \in 1..Room, s[1] <= x, x < l PROVE w[x] = mem[x]
  <2>1. x < payload
    BY <1>0, <1>3, <1>7, <1>9
  <2>2. x < y \/ x >= y + LASTVALSIZE
    <3>1. CASE d = o
      BY <1>1, <1>2, <1>9, <3>1
    <3>2. CASE d < o
      <4>1. l + LASTVALSIZE <= z[1]
        BY <1>3, <3>2
      <4>. QED  BY <1>0, <1>6, <1>8, <1>9, <4>1
    <3>3. CASE o < d
      <4>1. y + LASTVALSIZE <= s[1]
        BY <1>4, <1>5, <3>3
      <4>. QED  BY <1>0, <1>8, <1>9, <4>1
    <3>. QED  BY <1>7, <3>1, <3>2, <3>3
  <2>. QED  BY <1>2, <2>1, <2>2
<1>10. Row(mem, s, l, c, d)
  BY <1>3
<1>11. Row(w, s, l, c, d)
  <2>1. \A x \in 1..Room : s[1] <= x /\ x < l => w[x] = mem[x]
    BY <1>9
  <2>. QED  BY <1>10, <2>1, RowStays
<1>. QED  BY <1>1, <1>11

LEMMA ConfKept ==
    ASSUME Buffer, StringsKept, NEW c \in Confs, Strings!ConfReceived(c)
    PROVE  StringsKept'
<1>0. Room \in Nat /\ LASTVALSIZE \in Nat /\ UartDevices \in Nat
  BY DEF Buffer
<1>1. PICK cells : cells = Strings!Encoded(Len(confs) + 1, c)
  OBVIOUS
<1>2. /\ received = <<>> /\ Len(confs) < UartDevices
      /\ payload + Len(cells) + LASTVALSIZE <= Room
      /\ mem' = Strings!Written(mem, payload, cells) /\ received' = <<c>>
      /\ UNCHANGED <<confs, payload, strings, lastval, readings>>
  BY <1>1 DEF Strings!ConfReceived
<1>3. Len(cells) \in Nat
  <2>1. c \in [Strings!FieldNames -> Nat]
    BY DEF Buffer
  <2>2. IsSequence(cells)
    BY <1>1, <2>1, EncodedIs
  <2>3. PICK S : cells \in Seq(S)
    BY <2>2 DEF IsSequence
  <2>. QED  BY <2>3
<1>4. payload \in Nat \ {0} /\ payload \in Nat /\ DOMAIN mem = 1..Room
  BY <1>0 DEF StringsKept, Strings!TypeOK
<1>5. Wrote(mem', mem, payload, cells)
  BY <1>2, <1>3, <1>4, WrittenIs
<1>6. Holds(mem', payload, cells)
  <2>1. payload + Len(cells) - 1 <= Room
    BY <1>0, <1>2, <1>3, <1>4
  <2>. QED  BY <1>0, <1>2, <1>3, <1>4, <2>1, HoldsWritten
<1>7. Strings!TypeOK'
  <2>1. DOMAIN mem' = 1..Room
    BY <1>5 DEF Wrote
  <2>2. received' \in Seq(Confs) /\ Len(received') <= 1
    BY <1>2
  <2>. QED  BY <1>2, <2>1, <2>2 DEF StringsKept, Strings!TypeOK
<1>8. Waiting'
  <2>1. received'[1] = c
    BY <1>2
  <2>. QED  BY <1>1, <1>2, <1>6, <2>1 DEF Waiting
<1>9. RowsKept'
  <2>1. SUFFICES ASSUME GroupsShorter, NEW d \in DOMAIN confs
                 PROVE  Row(mem', strings[d], lastval[d], confs[d], d)
    BY <1>2 DEF StringsKept, RowsKept, GroupsShorter
  <2>2. ASSUME NEW x \in 1..Room, x < payload PROVE mem'[x] = mem[x]
    BY <1>5, <2>2 DEF Wrote
  <2>3. PICK w : w = mem'
    OBVIOUS
  <2>4. \A x \in 1..Room :
          x < payload /\ (x < lastval[d] \/ x >= lastval[d] + LASTVALSIZE) => w[x] = mem[x]
    BY <2>2, <2>3
  <2>5. Row(w, strings[d], lastval[d], confs[d], d)
    BY <2>1, <2>4, RowsStay
  <2>. QED  BY <2>3, <2>5
<1>. QED  BY <1>7, <1>8, <1>9 DEF StringsKept

LEMMA ReadingKept ==
    ASSUME Buffer, StringsKept, NEW o \in 1..Len(confs), Strings!handleSensorMessages(o)
    PROVE  StringsKept'
<1>0. Room \in Nat /\ LASTVALSIZE \in Nat /\ UartDevices \in Nat
  BY DEF Buffer
<1>1. PICK n \in 1..LASTVALSIZE :
         LET reads == [i \in 1..n |-> Strings!Reading(o, i)]
         IN mem' = Strings!Written(Strings!Written(mem, payload, <<Strings!Number>> \o reads),
                                   lastval[o], reads)
  BY DEF Strings!handleSensorMessages
<1>2. PICK val : val = [i \in 1..n |-> Strings!Reading(o, i)]
  OBVIOUS
<1>3. PICK msg : msg = <<Strings!Number>> \o val
  OBVIOUS
<1>4. PICK w : w = Strings!Written(mem, payload, msg)
  OBVIOUS
<1>5. mem' = Strings!Written(w, lastval[o], val)
  BY <1>1, <1>2, <1>3, <1>4
<1>6. /\ Len(confs) = UartDevices /\ readings < MaxReadings /\ readings' = readings + 1
      /\ UNCHANGED <<confs, payload, strings, lastval, received>>
  BY DEF Strings!handleSensorMessages
<1>7. IsSequence(val) /\ Len(val) = n
  <2>1. PICK S : S = {Strings!Reading(o, i) : i \in 1..n}
    OBVIOUS
  <2>2. val \in [1..n -> S] /\ n \in Nat
    BY <1>0, <1>2, <2>1
  <2>3. val \in Seq(S) /\ Len(val) = n
    BY <2>2
  <2>. QED  BY <2>3 DEF IsSequence
<1>8. Len(msg) \in Nat
  <2>1. PICK one : one = <<Strings!Number>>
    OBVIOUS
  <2>2. IsSequence(one) /\ Len(one) = 1
    BY <2>1, OneCell
  <2>3. Follow(msg, one, val)
    BY <1>3, <1>7, <2>1, <2>2, TheyFollow
  <2>. QED  BY <1>0, <1>7, <2>2, <2>3 DEF Follow
<1>9. payload \in Nat /\ DOMAIN mem = 1..Room /\ o \in DOMAIN confs /\ confs \in Seq(Confs)
  BY <1>0 DEF StringsKept, Strings!TypeOK
<1>10. lastval[o] \in 1..Room /\ lastval[o] \in Nat
  <2>1. lastval[o] \in 1..Room
    BY <1>9, RowIn
  <2>. QED  BY <1>0, <2>1
<1>11. Wrote(w, mem, payload, msg)
  BY <1>4, <1>8, <1>9, WrittenIs
<1>12. Wrote(mem', w, lastval[o], val)
  <2>1. DOMAIN w = 1..Room
    BY <1>11 DEF Wrote
  <2>2. PICK at \in Nat : at = lastval[o]
    BY <1>10
  <2>3. Len(val) \in Nat
    BY <1>0, <1>7
  <2>4. mem' = Strings!Written(w, at, val)
    BY <1>5, <2>2
  <2>5. Wrote(mem', w, at, val)
    BY <2>1, <2>3, <2>4, WrittenIs
  <2>. QED  BY <2>2, <2>5
<1>13. Strings!TypeOK'
  <2>1. DOMAIN mem' = 1..Room
    BY <1>12 DEF Wrote
  <2>2. readings' \in 0..MaxReadings
    BY <1>6 DEF StringsKept, Strings!TypeOK, Buffer
  <2>. QED  BY <1>6, <2>1, <2>2 DEF StringsKept, Strings!TypeOK
<1>14. received = <<>>
  <2>1. ~(Len(confs) < UartDevices)
    BY <1>0, <1>6
  <2>. QED  BY <2>1 DEF StringsKept, Waiting
<1>15. Waiting'
  BY <1>6, <1>14 DEF Waiting
<1>16. RowsKept'
  <2>1. SUFFICES ASSUME GroupsShorter, NEW d \in DOMAIN confs
                 PROVE  Row(mem', strings[d], lastval[d], confs[d], d)
    BY <1>6 DEF StringsKept, RowsKept, GroupsShorter
  <2>2. PICK v : v = mem'
    OBVIOUS
  <2>3. ASSUME NEW x \in 1..Room, x < payload, x < lastval[o] \/ x >= lastval[o] + LASTVALSIZE
        PROVE  v[x] = mem[x]
    <3>1. w[x] = mem[x]
      BY <1>11, <2>3 DEF Wrote
    <3>2. x < lastval[o] \/ x >= lastval[o] + Len(val)
      BY <1>0, <1>7, <1>10, <2>3
    <3>3. v[x] = w[x]
      BY <1>12, <2>2, <3>2 DEF Wrote
    <3>. QED  BY <3>1, <3>3
  <2>4. Row(v, strings[d], lastval[d], confs[d], d)
    BY <1>9, <2>1, <2>3, RowsStay
  <2>. QED  BY <2>2, <2>4
<1>. QED  BY <1>13, <1>15, <1>16 DEF StringsKept

LEMMA SetUpKept ==
    ASSUME Buffer, StringsKept, Strings!initResources
    PROVE  StringsKept'
<1>0. Room \in Nat /\ LASTVALSIZE \in Nat /\ UartDevices \in Nat
  BY DEF Buffer
<1>1. /\ confs \in Seq(Confs) /\ received \in Seq(Confs) /\ Len(received) <= 1
      /\ strings \in Seq([1..5 -> 1..Room]) /\ lastval \in Seq(1..Room)
      /\ Len(strings) = Len(confs) /\ Len(lastval) = Len(confs)
      /\ DOMAIN mem = 1..Room /\ payload \in 1..Room
  BY DEF StringsKept, Strings!TypeOK
<1>2. received # <<>>
  BY DEF Strings!initResources, Strings!SetUp
<1>3. PICK c \in Confs : c = received[1] /\ Len(received) = 1
  <2>1. received \in Seq(Confs) /\ Len(received) <= 1
    BY <1>1
  <2>. QED  BY <1>2, <2>1, Single
<1>4. PICK n \in Nat : n = Len(confs)
  BY <1>1
<1>5. PICK D \in Nat \ {0} : D = n + 1
  BY <1>4
<1>6. PICK cells : cells = Strings!Encoded(D, c)
  OBVIOUS
<1>7. /\ n < UartDevices /\ payload + Len(cells) + LASTVALSIZE <= Room
      /\ Holds(mem, payload, cells)
  BY <1>2, <1>3, <1>4, <1>5, <1>6 DEF StringsKept, Waiting
<1>8. c \in Configurations /\ Allowed(c)
  BY DEF Buffer, Configurations, Allowed
<1>9. PICK u \in Nat, v \in Nat, t \in Nat, g \in Nat, a \in Nat :
         u = c["unit"] /\ v = c["spec"] /\ t = c["type"] /\ g = c["group"] /\ a = c["attr"]
  BY <1>8 DEF Configurations, Strings!FieldNames
<1>10. Len(cells) = Numbers + u + v + t + g + a + 10 /\ Numbers \in Nat
  <2>1. c \in [Strings!FieldNames -> Nat]
    BY <1>8 DEF Configurations
  <2>2. Len(Strings!Encoded(D, c)) =
          Numbers + c["unit"] + c["spec"] + c["type"] + c["group"] + c["attr"] + 10
    BY <2>1, EncodedIs
  <2>. QED  BY <1>6, <1>9, <2>2 DEF Buffer
<1>11. PICK e \in 1..Room : e = payload + Len(cells) - 1
  BY <1>0, <1>1, <1>7, <1>10
<1>12. PICK r : r = Strings!Decoded(mem, payload)
  OBVIOUS
<1>13. DecodedAs(r, mem, payload, D, c, e) /\ mem[e] = Strings!Nul
  <2>1. payload \in Nat \ {0}
    BY <1>0, <1>1
  <2>2. e = payload + Len(Strings!Encoded(D, c)) - 1 /\ Holds(mem, payload, Strings!Encoded(D, c))
    BY <1>6, <1>7, <1>11
  <2>. QED  BY <1>1, <1>8, <1>12, <2>1, <2>2, DecodedIs
<1>14. PICK s : s = r.ptr
  OBVIOUS
<1>15. PICK s1 \in 1..Room, s2 \in 1..Room, s3 \in 1..Room, s4 \in 1..Room, s5 \in 1..Room :
         /\ s1 = payload /\ s2 = payload + u + 1 /\ s3 = payload + u + v + 2
         /\ s4 = payload + u + v + t + 3 /\ s5 = payload + u + v + t + g + 4
  <2>1. /\ payload \in 1..Room /\ payload + u + 1 \in 1..Room /\ payload + u + v + 2 \in 1..Room
        /\ payload + u + v + t + 3 \in 1..Room /\ payload + u + v + t + g + 4 \in 1..Room
    BY <1>0, <1>1, <1>7, <1>10
  <2>. QED  BY ONLY <2>1
<1>16. s = <<s1, s2, s3, s4, s5>>
  BY <1>9, <1>13, <1>14, <1>15 DEF DecodedAs, Place
<1>17. s \in [1..5 -> 1..Room] /\ s[1] = payload /\ s[5] = s5
  BY <1>15, <1>16
<1>18. s5 \in 1..e /\ s5 \in Nat \ {0} /\ e \in s5..Room
  BY <1>0, <1>1, <1>10, <1>11, <1>15
<1>19. PICK w : w = r.mem
  OBVIOUS
<1>20. /\ DOMAIN w = 1..Room /\ w[e] = Strings!Nul
       /\ \A x \in 1..Room : x < payload => w[x] = mem[x]
  BY <1>11, <1>13, <1>19 DEF DecodedAs
<1>21. PICK end : end = Strings!End(w, s5)
  OBVIOUS
<1>22. end \in s5..e
  BY <1>18, <1>20, <1>21, EndIs
<1>23. PICK free \in 1..Room : free = end + 1 /\ free + LASTVALSIZE \in 1..Room
  <2>1. end + 1 \in 1..Room /\ end + 1 + LASTVALSIZE \in 1..Room
    BY <1>0, <1>1, <1>7, <1>10, <1>11, <1>18, <1>22
  <2>. QED  BY ONLY <2>1
<1>24. /\ mem' = w /\ strings' = Append(strings, s) /\ lastval' = Append(lastval, free)
       /\ payload' = free + LASTVALSIZE
  <2>1. Strings!Installed(r, 1)
    BY <1>12 DEF Strings!initResources, Strings!SetUp
  <2>2. Strings!Free(r, 1) = free
    BY <1>14, <1>17, <1>19, <1>21, <1>23 DEF Strings!Free
  <2>. QED  BY <1>14, <1>19, <2>1, <2>2 DEF Strings!Installed
<1>25. confs' = confs \o received /\ received' = <<>> /\ readings' = readings
  BY DEF Strings!initResources, Strings!SetUp
<1>26. /\ confs' \in Seq(Confs) /\ Len(confs') = D /\ confs'[D] = c
       /\ \A d \in 1..n : confs'[d] = confs[d]
  <2>1. Longer(confs', confs, c, Confs)
    BY <1>1, <1>3, <1>25, Joined
  <2>. QED  BY <1>1, <1>4, <1>5, <2>1 DEF Longer
<1>27. Longer(strings', strings, s, [1..5 -> 1..Room])
  BY <1>1, <1>17, <1>24, Appended
<1>28. Longer(lastval', lastval, free, 1..Room)
  BY <1>1, <1>24, Appended
<1>29. /\ strings' \in Seq([1..5 -> 1..Room]) /\ Len(strings') = D /\ strings'[D] = s
       /\ \A d \in 1..n : strings'[d] = strings[d]
  BY <1>1, <1>4, <1>5, <1>27 DEF Longer
<1>30. /\ lastval' \in Seq(1..Room) /\ Len(lastval') = D /\ lastval'[D] = free
       /\ \A d \in 1..n : lastval'[d] = lastval[d]
  BY <1>1, <1>4, <1>5, <1>28 DEF Longer
<1>31. Strings!TypeOK'
  <2>1. DOMAIN mem' = 1..Room
    BY <1>20, <1>24
  <2>2. payload' \in 1..Room
    BY <1>23, <1>24
  <2>3. received' \in Seq(Confs) /\ Len(received') <= 1
    BY <1>25
  <2>4. readings' \in 0..MaxReadings
    BY <1>25 DEF StringsKept, Strings!TypeOK
  <2>5. Len(confs') <= UartDevices
    BY <1>0, <1>5, <1>7, <1>26
  <2>6. Len(strings') = Len(confs') /\ Len(lastval') = Len(confs')
    BY <1>26, <1>29, <1>30
  <2>7. confs' \in Seq(Confs) /\ strings' \in Seq([1..5 -> 1..Room]) /\ lastval' \in Seq(1..Room)
    BY <1>26, <1>29, <1>30
  <2>. QED  BY <2>1, <2>2, <2>3, <2>4, <2>5, <2>6, <2>7 DEF Strings!TypeOK
<1>32. Waiting'
  BY <1>25 DEF Waiting
<1>33. DOMAIN confs = 1..n /\ DOMAIN confs' = 1..D
  BY <1>1, <1>4, <1>26
<1>34. ASSUME GroupsShorter' PROVE GroupsShorter /\ g < t
  <2>1. \A d \in 1..D : confs'[d]["group"] < confs'[d]["type"]
    BY <1>33, <1>34 DEF GroupsShorter
  <2>2. \A d \in 1..n : confs[d]["group"] < confs[d]["type"]
    BY <1>5, <1>26, <2>1
  <2>3. c["group"] < c["type"]
    BY <1>26, <2>1, D \in 1..D
  <2>. QED  BY <1>9, <1>33, <2>2, <2>3 DEF GroupsShorter
<1>35. ASSUME GroupsShorter'
       PROVE  Row(w, s, free, c, D)
  <2>1. c["group"] < c["type"]
    BY <1>9, <1>34, <1>35
  <2>2. PICK l : l = s[5] + c["attr"] + 1
    OBVIOUS
  <2>3. Row(w, s, l, c, D) /\ l <= e
    BY <1>13, <1>14, <1>19, <2>1, <2>2 DEF DecodedAs
  <2>4. l = s5 + a + 1 /\ l \in 1..Room
    <3>1. l = s5 + a + 1
      BY <1>9, <1>17, <2>2
    <3>2. a \in Nat /\ s5 \in Nat \ {0} /\ e \in 1..Room /\ l <= e
      BY <1>18, <2>3
    <3>. QED  BY ONLY <1>0, <3>1, <3>2
  <2>5. ReadsText(w, s[5], D, "attr", c["attr"])
    BY <1>8, <1>17, <2>3, <2>4, RowReads
  <2>6. end = s5 + a
    BY <1>9, <1>17, <1>21, <2>5 DEF ReadsText
  <2>7. free = l
    BY <1>18, <1>23, <2>4, <2>6
  <2>. QED  BY <2>3, <2>7
<1>36. ASSUME GroupsShorter', NEW d \in 1..n
       PROVE  /\ Row(w, strings[d], lastval[d], confs[d], d)
              /\ lastval[d] + LASTVALSIZE <= payload
              /\ \A o \in 1..n : d < o => lastval[d] + LASTVALSIZE <= strings[o][1]
  <2>1. GroupsShorter /\ d \in DOMAIN confs
    BY <1>33, <1>34, <1>36
  <2>2. \A x \in 1..Room :
          x < payload /\ (x < lastval[d] \/ x >= lastval[d] + LASTVALSIZE) => w[x] = mem[x]
    BY <1>20
  <2>3. Row(w, strings[d], lastval[d], confs[d], d)
    BY <2>1, <2>2, RowsStay
  <2>. QED  BY <1>33, <2>1, <2>3 DEF StringsKept, RowsKept
<1>37. ASSUME NEW d \in 1..n PROVE lastval[d] \in 1..Room
  BY <1>33, RowIn
<1>38. RowsKept'
  <2>1. SUFFICES ASSUME GroupsShorter', NEW d \in 1..D
                 PROVE  /\ Row(mem', strings'[d], lastval'[d], confs'[d], d)
                        /\ lastval'[d] + LASTVALSIZE <= payload'
                        /\ \A o \in 1..D : d < o => lastval'[d] + LASTVALSIZE <= strings'[o][1]
    BY <1>33 DEF RowsKept
  <2>2. payload <= payload'
    BY <1>0, <1>1, <1>10, <1>15, <1>18, <1>22, <1>23, <1>24
  <2>3. CASE d \in 1..n
    <3>1. /\ Row(w, strings[d], lastval[d], confs[d], d) /\ lastval[d] + LASTVALSIZE <= payload
          /\ \A o \in 1..n : d < o => lastval[d] + LASTVALSIZE <= strings[o][1]
      BY <1>36, <2>1, <2>3
    <3>2. strings'[d] = strings[d] /\ lastval'[d] = lastval[d] /\ confs'[d] = confs[d]
      BY <1>26, <1>29, <1>30, <2>3
    <3>3. lastval'[d] + LASTVALSIZE <= payload'
      <4>1. lastval[d] \in 1..Room
        BY <1>37, <2>3
      <4>2. payload' \in Nat /\ payload \in Nat
        BY <1>0, <1>1, <1>23, <1>24
      <4>. QED  BY <1>0, <2>2, <3>1, <3>2, <4>1, <4>2
    <3>4. ASSUME NEW o \in 1..D, d < o PROVE lastval'[d] + LASTVALSIZE <= strings'[o][1]
      <4>1. CASE o \in 1..n
        BY <1>29, <3>1, <3>2, <3>4, <4>1
      <4>2. CASE o \notin 1..n
        <5>1. o = D
          BY <1>5, <4>2
        <5>. QED  BY <1>17, <1>29, <3>1, <3>2, <5>1
      <4>. QED  BY <4>1, <4>2
    <3>5. Row(mem', strings'[d], lastval'[d], confs'[d], d)
      BY <1>24, <3>1, <3>2
    <3>. QED  BY <3>3, <3>4, <3>5
  <2>4. CASE d \notin 1..n
    <3>1. d = D
      BY <1>5, <2>4
    <3>2. Row(mem', strings'[d], lastval'[d], confs'[d], d)
      BY <1>24, <1>26, <1>29, <1>30, <1>35, <2>1, <3>1
    <3>3. lastval'[d] + LASTVALSIZE <= payload'
      BY <1>0, <1>23, <1>24, <1>30, <3>1
    <3>4. \A o \in 1..D : ~(d < o)
      BY <3>1
    <3>. QED  BY <3>2, <3>3, <3>4
  <2>. QED  BY <2>3, <2>4
<1>. QED  BY <1>31, <1>32, <1>38 DEF StringsKept

LEMMA StepStrings ==
    ASSUME Buffer PROVE StringsKept /\ [Strings!Next]_Strings!stringVars => StringsKept'
<1>1. SUFFICES ASSUME StringsKept, [Strings!Next]_Strings!stringVars PROVE StringsKept'
  OBVIOUS
<1>2. ASSUME NEW c \in Confs, Strings!ConfReceived(c) PROVE StringsKept'
  BY <1>1, <1>2, ConfKept
<1>3. CASE Strings!initResources
  BY <1>1, <1>3, SetUpKept
<1>4. ASSUME NEW o \in 1..Len(confs), Strings!handleSensorMessages(o) PROVE StringsKept'
  BY <1>1, <1>4, ReadingKept
<1>5. CASE UNCHANGED Strings!stringVars
  BY <1>1, <1>5 DEF Strings!stringVars, StringsKept, Strings!TypeOK, Waiting, RowsKept,
                    GroupsShorter
<1>. QED  BY <1>1, <1>2, <1>3, <1>4, <1>5 DEF Strings!Next

(* The strings of the uart sensors read as they were sent, and the URL of  *)
(* a sensor is its type and its group, however long they are, however many *)
(* the sensors and the readings received since, as long as the groups are  *)
(* shorter than their types (uart_protocolhandler.c, uartsensors.c).       *)
THEOREM StringsAreKept == ASSUME Buffer PROVE Strings!Spec => []Strings!StringsIntact
<1>1. Strings!Init => StringsKept
  BY InitStrings
<1>2. StringsKept /\ [Strings!Next]_Strings!stringVars => StringsKept'
  BY StepStrings
<1>3. StringsKept => Strings!StringsIntact
  BY KeptMeans
<1>. QED  BY <1>1, <1>2, <1>3, PTL DEF Strings!Spec

(* The same buffer: where the strings and the readings of a sensor are     *)
(* kept, and where the next message goes, is always inside it.             *)
THEOREM StringsTypes == ASSUME Buffer PROVE Strings!Spec => []Strings!TypeOK
<1>1. Strings!Init => StringsKept
  BY InitStrings
<1>2. StringsKept /\ [Strings!Next]_Strings!stringVars => StringsKept'
  BY StepStrings
<1>3. StringsKept => Strings!TypeOK
  BY DEF StringsKept
<1>. QED  BY <1>1, <1>2, <1>3, PTL DEF Strings!Spec

-----------------------------------------------------------------------------
(*                          The mains detector                             *)
-----------------------------------------------------------------------------

Flags ==
    /\ mains \in BOOLEAN /\ TAEN \in BOOLEAN /\ TBEN \in BOOLEAN
    /\ pulseIrq \in BOOLEAN /\ goneIrq \in BOOLEAN /\ prompt \in BOOLEAN
Counts ==
    /\ TAV \in 0..PulsesPerIrq - 1 /\ TBV \in 0..TICKTIMEOUT /\ (TBEN => TBV > 0)
    /\ detected \in {0, 1} /\ reports \in {-1, 1}

(* The counts and flags of the detector (dev/mainsdetect.c).               *)
THEOREM MainsTypes == ASSUME Detection PROVE Mains!Spec => []Mains!TypeOK
<1>1. Mains!Init => Flags /\ Counts
  <2>1. Mains!Init => Flags
    BY DEF Mains!Init, Flags
  <2>2. Mains!Init => Counts
    BY DEF Mains!Init, Counts, Detection
  <2> QED
    BY <2>1, <2>2
<1>2. Flags /\ [Mains!Next]_Mains!mainsVars => Flags'
  BY DEF Mains!Next, Mains!Switch, Mains!MainsPeriod, Mains!mainsdetect_pulsecnt_isr,
         Mains!mainsdetect_mainsgone_isr, Mains!Pause, Mains!mainsVars, Flags
<1>3. Flags /\ Counts /\ [Mains!Next]_Mains!mainsVars => Counts'
  <2> SUFFICES ASSUME Flags, Counts, [Mains!Next]_Mains!mainsVars PROVE Counts'
    OBVIOUS
  <2> USE DEF Detection, Counts
  <2>1. CASE Mains!Switch
    BY <2>1 DEF Mains!Switch
  <2>2. CASE Mains!MainsPeriod
    <3>1. TAV' \in 0..PulsesPerIrq - 1
      BY <2>2 DEF Mains!MainsPeriod
    <3>2. CASE TBEN
      <4>1. TBV' = TBV - 1 /\ (TBEN' => TBV # 1)
        BY <2>2, <3>2 DEF Mains!MainsPeriod
      <4> QED
        BY <2>2, <3>1, <3>2, <4>1 DEF Mains!MainsPeriod
    <3>3. CASE ~TBEN
      <4>1. TBV' = TBV /\ ~TBEN'
        BY <2>2, <3>3 DEF Mains!MainsPeriod
      <4> QED
        BY <2>2, <3>1, <3>3, <4>1 DEF Mains!MainsPeriod
    <3> QED
      BY <3>2, <3>3
  <2>3. CASE Mains!mainsdetect_pulsecnt_isr
    BY <2>3 DEF Mains!mainsdetect_pulsecnt_isr
  <2>4. CASE Mains!mainsdetect_mainsgone_isr
    <3>1. TAV' = 0 /\ detected' = 0 /\ reports' \in {-1, 1}
      BY <2>4 DEF Mains!mainsdetect_mainsgone_isr
    <3>2. TBV' = IF TAEN /\ ~TBEN THEN TICKTIMEOUT ELSE TBV
      BY <2>4 DEF Mains!mainsdetect_mainsgone_isr, Mains!Pause
    <3>3. TBEN' => TAEN \/ TBEN
      BY <2>4 DEF Mains!mainsdetect_mainsgone_isr, Mains!Pause
    <3> QED
      BY <3>1, <3>2, <3>3
  <2>5. CASE UNCHANGED Mains!mainsVars
    BY <2>5 DEF Mains!mainsVars
  <2> QED
    BY <2>1, <2>2, <2>3, <2>4, <2>5 DEF Mains!Next
<1>4. Flags /\ Counts => Mains!TypeOK
  BY DEF Flags, Counts, Mains!TypeOK
<1> QED
  BY <1>1, <1>2, <1>3, <1>4, PTL DEF Mains!Spec

(* The detector never falls asleep, in whatever order its two interrupts   *)
(* are handled and however late: one of its timers runs or has             *)
(* interrupted, and while it says that the mains is there, the one that    *)
(* can take it back does (dev/mainsdetect.c).                              *)
THEOREM DetectorStaysAwake == ASSUME Detection PROVE Mains!Spec => []Mains!NeverAsleep
<1> USE DEF Detection, Mains!NeverAsleep
<1>1. Mains!Init => Mains!NeverAsleep
  BY DEF Mains!Init
<1>2. Mains!TypeOK /\ Mains!NeverAsleep /\ [Mains!Next]_Mains!mainsVars => Mains!NeverAsleep'
  <2> SUFFICES ASSUME Mains!TypeOK, Mains!NeverAsleep, [Mains!Next]_Mains!mainsVars
               PROVE  Mains!NeverAsleep'
    OBVIOUS
  <2>1. CASE Mains!Switch
    BY <2>1 DEF Mains!Switch
  <2>2. CASE Mains!MainsPeriod
    BY <2>2 DEF Mains!MainsPeriod, Mains!TypeOK
  <2>3. CASE Mains!mainsdetect_pulsecnt_isr
    BY <2>3 DEF Mains!mainsdetect_pulsecnt_isr
  <2>4. CASE Mains!mainsdetect_mainsgone_isr
    <3>1. detected' = 0 /\ (TAEN' <=> ~TAEN)
      BY <2>4 DEF Mains!mainsdetect_mainsgone_isr, Mains!Pause
    <3>2. TBV' = IF TAEN /\ ~TBEN THEN TICKTIMEOUT ELSE TBV
      BY <2>4 DEF Mains!mainsdetect_mainsgone_isr, Mains!Pause
    <3>3. TBEN' <=> TAEN \/ TBEN
      BY <2>4 DEF Mains!mainsdetect_mainsgone_isr, Mains!Pause
    <3> QED
      BY <3>1, <3>2, <3>3
  <2>5. CASE UNCHANGED Mains!mainsVars
    BY <2>5 DEF Mains!mainsVars
  <2> QED
    BY <2>1, <2>2, <2>3, <2>4, <2>5 DEF Mains!Next
<1> QED
  BY <1>1, <1>2, MainsTypes, PTL DEF Mains!Spec

-----------------------------------------------------------------------------
(*                              The frames                                 *)
-----------------------------------------------------------------------------
(* Induction over numbers, and functions that go on step by step.          *)

LEMMA NumbersInduction ==
    ASSUME NEW T, 0 \in T, \A n \in T \cap Nat : n + 1 \in T
    PROVE  Nat \subseteq T
<1>. SUFFICES ASSUME NEW m \in Nat, m \notin T
              PROVE  FALSE
  OBVIOUS
<1>1. PICK x \in Nat \ T : \A y \in Nat \ T : x <= y
  BY LeastNumber, Nat \ T \in SUBSET Nat, m \in Nat \ T
<1>2. x - 1 \in Nat /\ ~(x <= x - 1) /\ (x - 1) + 1 = x
  BY <1>1
<1>. QED BY <1>1, <1>2

(* The function on 0..k that starts at b and goes on by step. *)
IsChain(f, S, b, k, step) ==
    f \in [0..k -> S] /\ f[0] = b /\ \A n \in 1..k : f[n] = step[<<f[n - 1], n>>]

LEMMA RecursionExists ==
    ASSUME NEW S, NEW b \in S, NEW k \in Nat, NEW step \in [S \X (1..k) -> S]
    PROVE  \E f : IsChain(f, S, b, k, step)
<1> DEFINE Starts(f, m) ==
        f \in [0..m -> S] /\ f[0] = b /\ \A n \in 1..m : f[n] = step[<<f[n - 1], n>>]
           Ok == {m \in Nat : m <= k => \E f : Starts(f, m)}
<1>1. 0 \in Ok
  <2>1. Starts([n \in 0..0 |-> b], 0)
    OBVIOUS
  <2>. QED BY <2>1
<1>2. ASSUME NEW m \in Ok \cap Nat
      PROVE  m + 1 \in Ok
  <2>. SUFFICES ASSUME m + 1 <= k
                PROVE  \E f : Starts(f, m + 1)
    OBVIOUS
  <2>1. PICK f : Starts(f, m)
    OBVIOUS
  <2> DEFINE g == [n \in 0..m + 1 |-> IF n = m + 1 THEN step[<<f[m], m + 1>>] ELSE f[n]]
  <2>2. f[m] \in S /\ m + 1 \in 1..k
    BY <2>1
  <2>3. g \in [0..m + 1 -> S] /\ g[0] = b
    BY <2>1, <2>2
  <2>4. ASSUME NEW n \in 1..m + 1
        PROVE  g[n] = step[<<g[n - 1], n>>]
    <3>1. g[n - 1] = f[n - 1]
      OBVIOUS
    <3>2. CASE n = m + 1
      <4>1. g[n] = step[<<f[m], m + 1>>] /\ n - 1 = m
        BY <3>2
      <4>. HIDE DEF g
      <4>. QED BY <3>1, <3>2, <4>1
    <3>3. CASE n # m + 1
      <4>1. n \in 1..m /\ g[n] = f[n]
        BY <3>3
      <4>. HIDE DEF g
      <4>. QED BY <2>1, <3>1, <4>1
    <3>. QED BY <3>2, <3>3
  <2>. HIDE DEF g
  <2>5. Starts(g, m + 1)
    BY <2>3, <2>4
  <2>. QED BY <2>5
<1>3. k \in Ok
  <2>. HIDE DEF Ok
  <2>. QED BY <1>1, <1>2, NumbersInduction
<1>4. PICK f : Starts(f, k)
  BY <1>3
<1>. QED BY <1>4 DEF IsChain

(* A function that goes on by step as long as it stays in S is that chain. *)
LEMMA ChainFollows ==
    ASSUME NEW S, NEW b \in S, NEW k \in Nat, NEW step \in [S \X (1..k) -> S],
           NEW f, f = [n \in 0..k |-> f[n]], f[0] = b,
           \A n \in 1..k : f[n - 1] \in S => f[n] = step[<<f[n - 1], n>>]
    PROVE  IsChain(f, S, b, k, step)
<1> DEFINE Ok == {m \in Nat : m <= k => f[m] \in S}
<1>1. 0 \in Ok
  OBVIOUS
<1>2. ASSUME NEW m \in Ok \cap Nat
      PROVE  m + 1 \in Ok
  <2>. SUFFICES ASSUME m + 1 <= k
                PROVE  f[m + 1] \in S
    OBVIOUS
  <2>1. m + 1 \in 1..k /\ (m + 1) - 1 = m /\ f[m] \in S
    OBVIOUS
  <2>2. f[m + 1] = step[<<f[m], m + 1>>]
    BY <2>1
  <2>. QED BY <2>1, <2>2
<1>3. \A m \in 0..k : f[m] \in S
  <2>1. Nat \subseteq Ok
    <3>. HIDE DEF Ok
    <3>. QED BY <1>1, <1>2, NumbersInduction
  <2>2. \A m \in 0..k : m \in Nat /\ m <= k
    OBVIOUS
  <2>. QED BY <2>1, <2>2
<1>4. \A n \in 1..k : n - 1 \in 0..k
  OBVIOUS
<1>. QED BY <1>3, <1>4 DEF IsChain

-----------------------------------------------------------------------------
(* The checksum has 16 bits.                                               *)

Word == {x \in Nat : x < 65536}

LEMMA XorBits ==
    ASSUME NEW a \in Nat, NEW b \in Nat
    PROVE  /\ Frames!Xor1(a, b) \in 0..1 /\ Frames!Xor2(a, b) \in 0..3
           /\ Frames!Xor4(a, b) \in 0..15 /\ Frames!Xor8(a, b) \in 0..255
           /\ Frames!Xor16(a, b) \in Word
<1>1. \A x, y \in Nat : Frames!Xor1(x, y) \in 0..1
  BY DEF Frames!Xor1
<1>2. \A x \in Nat : x % 2 \in Nat /\ x \div 2 \in Nat
  OBVIOUS
<1>3. \A x \in Nat : x % 4 \in Nat /\ x \div 4 \in Nat
  OBVIOUS
<1>4. \A x \in Nat : x % 16 \in Nat /\ x \div 16 \in Nat
  OBVIOUS
<1>5. \A x \in Nat : x % 256 \in Nat /\ x \div 256 \in Nat
  OBVIOUS
<1>6. ASSUME NEW x \in Nat, NEW y \in Nat PROVE Frames!Xor2(x, y) \in 0..3
  <2>1. /\ Frames!Xor1(x % 2, y % 2) \in 0..1
        /\ Frames!Xor1(x \div 2, y \div 2) \in 0..1
    BY <1>1, <1>2
  <2> QED
    BY <2>1 DEF Frames!Xor2, Frames!Halves
<1>7. ASSUME NEW x \in Nat, NEW y \in Nat PROVE Frames!Xor4(x, y) \in 0..15
  <2>1. /\ Frames!Xor2(x % 4, y % 4) \in 0..3
        /\ Frames!Xor2(x \div 4, y \div 4) \in 0..3
    BY <1>3, <1>6
  <2> QED
    BY <2>1 DEF Frames!Xor4, Frames!Halves
<1>8. ASSUME NEW x \in Nat, NEW y \in Nat PROVE Frames!Xor8(x, y) \in 0..255
  <2>1. /\ Frames!Xor4(x % 16, y % 16) \in 0..15
        /\ Frames!Xor4(x \div 16, y \div 16) \in 0..15
    <3>1. /\ x % 16 \in Nat /\ y % 16 \in Nat
          /\ x \div 16 \in Nat /\ y \div 16 \in Nat
      BY <1>4
    <3>. QED BY Zenon, <1>7, <3>1
  <2> QED
    BY <2>1 DEF Frames!Xor8, Frames!Halves
<1>9. ASSUME NEW x \in Nat, NEW y \in Nat PROVE Frames!Xor16(x, y) \in Word
  <2>1. /\ Frames!Xor8(x % 256, y % 256) \in 0..255
        /\ Frames!Xor8(x \div 256, y \div 256) \in 0..255
    <3>1. /\ x % 256 \in Nat /\ y % 256 \in Nat
          /\ x \div 256 \in Nat /\ y \div 256 \in Nat
      BY <1>5
    <3>2. ASSUME NEW x1 \in Nat, NEW y1 \in Nat PROVE Frames!Xor8(x1, y1) \in 0..255
      BY Zenon, <1>8
    <3>3. Frames!Xor8(x % 256, y % 256) \in 0..255
      BY Zenon, <3>1, <3>2
    <3>4. Frames!Xor8(x \div 256, y \div 256) \in 0..255
      BY Zenon, <3>1, <3>2
    <3>. QED BY Zenon, <3>3, <3>4
  <2>2. PICK l, h : l = Frames!Xor8(x % 256, y % 256) /\ h = Frames!Xor8(x \div 256, y \div 256)
    OBVIOUS
  <2>3. Frames!Xor16(x, y) = l + 256 * h
    BY <2>2 DEF Frames!Xor16, Frames!Halves
  <2>4. l \in 0..255 /\ h \in 0..255
    BY <2>1, <2>2
  <2>5. l + 256 * h \in Word
    BY <2>4 DEF Word
  <2> QED
    BY <2>3, <2>5
<1> QED
  BY <1>1, <1>6, <1>7, <1>8, <1>9

LEMMA AddIsWord ==
    ASSUME NEW acc \in Nat, NEW b \in Nat
    PROVE  Frames!crc16_add(acc, b) \in Word
<1>1. PICK x : x = Frames!Xor16(acc, b)
  OBVIOUS
<1>2. x \in Nat
  BY <1>1, XorBits DEF Word
<1>3. PICK s : s = Frames!Swapped(x)
  OBVIOUS
<1>4. s \in Nat
  BY <1>2, <1>3 DEF Frames!Swapped
<1>5. PICK u : u = Frames!Up(s)
  OBVIOUS
<1>6. u \in Nat
  <2>1. PICK y \in Nat : y = ((s \div 256) * 4096) % 65536
    BY <1>4
  <2>2. u = Frames!Xor16(s, y)
    BY <1>5, <2>1 DEF Frames!Up
  <2> QED
    BY <1>4, <2>2, XorBits DEF Word
<1>7. PICK d : d = Frames!Down(u)
  OBVIOUS
<1>8. d \in Nat
  <2>1. PICK y \in Nat : y = u \div 4096
    BY <1>6
  <2>2. d = Frames!Xor16(u, y)
    BY <1>7, <2>1 DEF Frames!Down
  <2> QED
    BY <1>6, <2>2, XorBits DEF Word
<1>9. Frames!Low(d) \in Word
  <2>1. PICK y \in Nat : y = (d \div 256) * 8
    BY <1>8
  <2>2. Frames!Low(d) = Frames!Xor16(d, y)
    BY <2>1 DEF Frames!Low
  <2> QED
    BY <1>8, <2>2, XorBits
<1> QED
  BY <1>1, <1>3, <1>5, <1>7, <1>9 DEF Frames!crc16_add

LEMMA ChecksumIsWord ==
    ASSUME NEW data \in Seq(Frames!Byte)
    PROVE  Frames!crc16_data(data) \in Word
<1> DEFINE GoOn(f, n) == Frames!crc16_add(f[n - 1], data[n])
           Body(f) == [n \in 0..Len(data) |-> IF n = 0 THEN 0 ELSE GoOn(f, n)]
           step == [x \in Word \X (1..Len(data)) |-> Frames!crc16_add(x[1], data[x[2]])]
           crc == CHOOSE f : f = Body(f)
<1>1. Len(data) \in Nat /\ 0 \in Word /\ \A n \in 1..Len(data) : data[n] \in Nat
  <2>1. \A n \in 1..Len(data) : data[n] \in Frames!Byte
    BY ElementOfSeq
  <2>2. Len(data) \in Nat
    BY LenProperties
  <2>3. 0 \in Word
    BY DEF Word
  <2>4. \A b \in Frames!Byte : b \in Nat
    BY DEF Frames!Byte
  <2> QED
    BY <2>1, <2>2, <2>3, <2>4
<1>2. step \in [Word \X (1..Len(data)) -> Word]
  <2>1. ASSUME NEW x \in Word \X (1..Len(data))
        PROVE  Frames!crc16_add(x[1], data[x[2]]) \in Word
    <3>1. x[1] \in Nat /\ data[x[2]] \in Nat
      BY <1>1 DEF Word
    <3> QED
      BY <3>1, AddIsWord
  <2> QED
    BY <2>1
<1>3. ASSUME NEW f, NEW n \in 1..Len(data), f[n - 1] \in Word
      PROVE  step[<<f[n - 1], n>>] = GoOn(f, n)
  BY <1>3
<1>4. Frames!crcUpTo(data) = crc
  BY DEF Frames!crcUpTo
<1>. HIDE DEF step
<1>5. PICK f : IsChain(f, Word, 0, Len(data), step)
  BY <1>1, <1>2, RecursionExists, Zenon
<1>6. f = Body(f)
  <2>1. f = [n \in 0..Len(data) |-> f[n]] /\ f[0] = 0
    BY <1>5 DEF IsChain
  <2>2. ASSUME NEW n \in 1..Len(data)
        PROVE  f[n] = GoOn(f, n)
    <3>1. f[n - 1] \in Word
      BY <1>1, <1>5 DEF IsChain
    <3>2. f[n] = step[<<f[n - 1], n>>]
      BY <1>5 DEF IsChain
    <3>. HIDE DEF GoOn
    <3> QED
      BY <1>3, <3>1, <3>2
  <2>3. \A n \in 0..Len(data) : n # 0 => n \in 1..Len(data)
    BY <1>1
  <2>. HIDE DEF GoOn
  <2>4. \A n \in 0..Len(data) : f[n] = IF n = 0 THEN 0 ELSE GoOn(f, n)
    BY <2>1, <2>2, <2>3
  <2> QED
    BY <2>1, <2>4
<1>7. crc = Body(crc)
  <2>. HIDE DEF Body
  <2> QED
    BY <1>6
<1>. HIDE DEF crc
<1>8. crc[0] = 0 /\ \A n \in 1..Len(data) : crc[n] = GoOn(crc, n)
  <2>. HIDE DEF GoOn
  <2> QED
    BY <1>1, <1>7
<1>9. IsChain(crc, Word, 0, Len(data), step)
  <2>1. crc = [n \in 0..Len(data) |-> crc[n]]
    BY <1>7
  <2>2. \A n \in 1..Len(data) : crc[n - 1] \in Word => crc[n] = step[<<crc[n - 1], n>>]
    <3>. HIDE DEF GoOn
    <3> QED
      BY <1>3, <1>8
  <2> QED
    BY <1>1, <1>2, <1>8, <2>1, <2>2, ChainFollows, Zenon
<1>10. crc[Len(data)] \in Word
  BY <1>1, <1>9 DEF IsChain
<1> QED
  BY <1>4, <1>10 DEF Frames!crc16_data

-----------------------------------------------------------------------------
(* The escapes.                                                            *)

LEMMA StuffedIs ==
    ASSUME NEW bytes \in Seq(Frames!Byte)
    PROVE  /\ Frames!stuffedUpTo(bytes) \in [0..Len(bytes) -> Seq(Frames!Byte)]
           /\ Frames!stuffedUpTo(bytes)[0] = <<>>
           /\ \A n \in 1..Len(bytes) :
                 Frames!stuffedUpTo(bytes)[n]
                     = Frames!stuffedUpTo(bytes)[n - 1] \o Frames!Escape(bytes[n])
<1> DEFINE S == Seq(Frames!Byte)
           GoOn(f, n) == f[n - 1] \o Frames!Escape(bytes[n])
           OneUp(f) == [n \in 0..Len(bytes) |-> IF n = 0 THEN <<>> ELSE GoOn(f, n)]
           step == [x \in S \X (1..Len(bytes)) |-> x[1] \o Frames!Escape(bytes[x[2]])]
           stuffed == CHOOSE f : f = OneUp(f)
<1>0. Len(bytes) \in Nat /\ <<>> \in S
  OBVIOUS
<1>1. ASSUME NEW c \in Frames!Byte PROVE Frames!Escape(c) \in S
  <2>1. {Frames!ESC, Frames!ESC_END, Frames!ESC_ESC} \subseteq Frames!Byte
    BY DEF Frames!ESC, Frames!ESC_END, Frames!ESC_ESC, Frames!Byte
  <2>2. /\ <<c>> \in S /\ <<Frames!ESC, Frames!ESC_END>> \in S
        /\ <<Frames!ESC, Frames!ESC_ESC>> \in S
    BY <2>1
  <2> QED
    BY <2>2 DEF Frames!Escape
<1>2. step \in [S \X (1..Len(bytes)) -> S]
  <2>1. ASSUME NEW x \in S \X (1..Len(bytes)) PROVE x[1] \o Frames!Escape(bytes[x[2]]) \in S
    <3>1. x[1] \in S /\ bytes[x[2]] \in Frames!Byte
      BY ElementOfSeq
    <3>2. Frames!Escape(bytes[x[2]]) \in S
      BY <1>1, <3>1
    <3> QED
      BY <3>1, <3>2, ConcatProperties
  <2> QED
    BY <2>1
<1>3. ASSUME NEW f, NEW n \in 1..Len(bytes), f[n - 1] \in S
      PROVE  step[<<f[n - 1], n>>] = GoOn(f, n)
  BY <1>3
<1>4. Frames!stuffedUpTo(bytes) = stuffed
  BY DEF Frames!stuffedUpTo
<1>. HIDE DEF step, S
<1>5. PICK f : IsChain(f, S, <<>>, Len(bytes), step)
  BY <1>0, <1>2, RecursionExists, Zenon
<1>6. f = OneUp(f)
  <2>1. f = [n \in 0..Len(bytes) |-> f[n]] /\ f[0] = <<>>
    BY <1>5 DEF IsChain
  <2>2. ASSUME NEW n \in 1..Len(bytes)
        PROVE  f[n] = GoOn(f, n)
    <3>1. f[n - 1] \in S
      BY <1>0, <1>5 DEF IsChain
    <3>2. f[n] = step[<<f[n - 1], n>>]
      BY <1>5 DEF IsChain
    <3>. HIDE DEF GoOn
    <3> QED
      BY <1>3, <3>1, <3>2
  <2>3. \A n \in 0..Len(bytes) : n # 0 => n \in 1..Len(bytes)
    BY <1>0
  <2>. HIDE DEF GoOn
  <2>4. \A n \in 0..Len(bytes) : f[n] = IF n = 0 THEN <<>> ELSE GoOn(f, n)
    BY <2>1, <2>2, <2>3
  <2> QED
    BY <2>1, <2>4
<1>7. stuffed = OneUp(stuffed)
  <2>. HIDE DEF OneUp
  <2> QED
    BY <1>6
<1>. HIDE DEF stuffed
<1>8. stuffed[0] = <<>> /\ \A n \in 1..Len(bytes) : stuffed[n] = GoOn(stuffed, n)
  <2>. HIDE DEF GoOn
  <2> QED
    BY <1>0, <1>7
<1>9. IsChain(stuffed, S, <<>>, Len(bytes), step)
  <2>1. stuffed = [n \in 0..Len(bytes) |-> stuffed[n]]
    BY <1>7
  <2>2. \A n \in 1..Len(bytes) :
            stuffed[n - 1] \in S => stuffed[n] = step[<<stuffed[n - 1], n>>]
    <3>. HIDE DEF GoOn
    <3> QED
      BY <1>3, <1>8
  <2> QED
    BY <1>0, <1>2, <1>8, <2>1, <2>2, ChainFollows, Zenon
<1>10. stuffed \in [0..Len(bytes) -> S]
  BY <1>9 DEF IsChain
<1> QED
  BY <1>4, <1>8, <1>10 DEF S

IsPlain(bytes) == \A i \in 1..Len(bytes) : bytes[i] \notin {Frames!END, Frames!ESC}

LEMMA StuffedType ==
    ASSUME NEW bytes \in Seq(Frames!Byte)
    PROVE  Frames!byteStuff(bytes) \in Seq(Frames!Byte)
<1>1. Len(bytes) \in 0..Len(bytes)
  BY LenProperties
<1> QED
  BY <1>1, StuffedIs DEF Frames!byteStuff

(* Bytes without END and ESC are sent as they are.                         *)
LEMMA PlainIsNotStuffed ==
    ASSUME NEW bytes \in Seq(Frames!Byte), IsPlain(bytes)
    PROVE  Frames!byteStuff(bytes) = bytes
<1> DEFINE n == Len(bytes)
           st == Frames!stuffedUpTo(bytes)
           Ok == {m \in Nat : m <= n => st[m] = SubSeq(bytes, 1, m)}
<1>1. n \in Nat
  BY LenProperties
<1>2. /\ st[0] = <<>>
      /\ \A m \in 1..n : st[m] = st[m - 1] \o Frames!Escape(bytes[m])
  BY StuffedIs
<1>. HIDE DEF st
<1>3. 0 \in Ok
  <2>1. SubSeq(bytes, 1, 0) = <<>>
    BY SubSeqEmpty
  <2> QED
    BY <1>2, <2>1
<1>4. ASSUME NEW m \in Ok \cap Nat PROVE m + 1 \in Ok
  <2>. SUFFICES ASSUME m + 1 <= n PROVE st[m + 1] = SubSeq(bytes, 1, m + 1)
    OBVIOUS
  <2>1. PICK c : c = bytes[m + 1]
    OBVIOUS
  <2>2. c \in Frames!Byte /\ c \notin {Frames!END, Frames!ESC}
    <3>1. m + 1 \in 1..Len(bytes)
      BY <1>1
    <3> QED
      BY <2>1, <3>1, ElementOfSeq DEF IsPlain
  <2>3. Frames!Escape(c) = <<c>>
    BY <2>2 DEF Frames!Escape
  <2>4. st[m + 1] = SubSeq(bytes, 1, m) \o <<c>>
    <3>1. m + 1 \in 1..n /\ (m + 1) - 1 = m /\ st[m] = SubSeq(bytes, 1, m)
      BY <1>1
    <3> QED
      BY <1>2, <2>1, <2>3, <3>1
  <2>5. SubSeq(bytes, 1, m + 1) = SubSeq(bytes, 1, m) \o <<c>>
    <3>1. SubSeq(bytes, 1, m) \in Seq(Frames!Byte)
      BY <1>1
    <3>2. SubSeq(bytes, 1, m) \o <<c>> = Append(SubSeq(bytes, 1, m), c)
      BY <2>2, <3>1, AppendIsConcat
    <3>3. SubSeq(bytes, 1, m + 1) = Append(SubSeq(bytes, 1, m), c)
      BY <1>1, <2>1
    <3> QED
      BY <3>2, <3>3
  <2> QED
    BY <2>4, <2>5
<1>5. n \in Ok
  <2>. HIDE DEF Ok, n
  <2> QED
    BY <1>1, <1>3, <1>4, NumbersInduction
<1>6. st[n] = SubSeq(bytes, 1, n)
  BY <1>1, <1>5
<1>7. SubSeq(bytes, 1, n) = bytes
  BY <1>1
<1> QED
  BY <1>6, <1>7 DEF st, Frames!byteStuff

-----------------------------------------------------------------------------
(* A message is decoded from what it is encoded in.                        *)

Decodable == [seqno : Frames!Byte, cmd : Frames!Byte, payload : Seq(Frames!Byte)]

LEMMA WordIsTwoBytes ==
    ASSUME NEW w \in Word
    PROVE  /\ w % 256 \in Frames!Byte /\ w \div 256 \in Frames!Byte
           /\ w = (w % 256) + 256 * (w \div 256)
BY DEF Word, Frames!Byte

LEMMA BodyIs ==
    ASSUME Traffic, NEW m \in Messages
    PROVE  /\ Frames!Body(m) \in Seq(Frames!Byte)
           /\ Len(m.payload) \in Nat
           /\ Len(Frames!Body(m)) = Len(m.payload) + 2
           /\ Len(Frames!Body(m)) \in Frames!Byte
           /\ Frames!Body(m)[1] = m.seqno /\ Frames!Body(m)[2] = m.cmd
           /\ \A i \in 1..Len(m.payload) : Frames!Body(m)[i + 2] = m.payload[i]
<1>1. /\ m.seqno \in Frames!Byte /\ m.cmd \in Frames!Byte /\ m.payload \in Seq(Frames!Byte)
      /\ Len(m.payload) + 2 \in Frames!Byte
  BY DEF Traffic
<1>2. PICK h : h = <<m.seqno, m.cmd>>
  OBVIOUS
<1>3. h \in Seq(Frames!Byte) /\ Len(h) = 2 /\ h[1] = m.seqno /\ h[2] = m.cmd
  BY <1>1, <1>2
<1>4. Frames!Body(m) = h \o m.payload
  BY <1>2 DEF Frames!Body
<1>5. Len(m.payload) \in Nat
  BY <1>1, LenProperties
<1>6. /\ h \o m.payload \in Seq(Frames!Byte)
      /\ Len(h \o m.payload) = Len(h) + Len(m.payload)
      /\ \A i \in 1..Len(h) + Len(m.payload) :
            (h \o m.payload)[i] = IF i <= Len(h) THEN h[i] ELSE m.payload[i - Len(h)]
  BY <1>1, <1>3, ConcatProperties
<1>7. \A i \in 1..Len(m.payload) : (h \o m.payload)[i + 2] = m.payload[i]
  <2>1. ASSUME NEW i \in 1..Len(m.payload)
        PROVE  i + 2 \in 1..Len(h) + Len(m.payload) /\ ~(i + 2 <= Len(h)) /\ (i + 2) - Len(h) = i
    BY <1>3, <1>5
  <2> QED
    BY <1>6, <2>1
<1>8. (h \o m.payload)[1] = m.seqno /\ (h \o m.payload)[2] = m.cmd
  BY <1>3, <1>5, <1>6
<1> QED
  BY <1>1, <1>3, <1>4, <1>5, <1>6, <1>7, <1>8

LEMMA CountedIs ==
    ASSUME Traffic, NEW m \in Messages
    PROVE  /\ Frames!Counted(m) \in Seq(Frames!Byte)
           /\ Len(Frames!Counted(m)) = Len(m.payload) + 3
           /\ Frames!Counted(m)[Len(m.payload) + 3] = Len(m.payload) + 2
           /\ Frames!Counted(m)[1] = m.seqno /\ Frames!Counted(m)[2] = m.cmd
           /\ \A i \in 1..Len(m.payload) : Frames!Counted(m)[i + 2] = m.payload[i]
<1>1. PICK b : b = Frames!Body(m)
  OBVIOUS
<1>2. /\ b \in Seq(Frames!Byte) /\ Len(m.payload) \in Nat /\ Len(b) = Len(m.payload) + 2
      /\ Len(b) \in Frames!Byte /\ b[1] = m.seqno /\ b[2] = m.cmd
      /\ \A i \in 1..Len(m.payload) : b[i + 2] = m.payload[i]
  BY <1>1, BodyIs
<1>3. Frames!Counted(m) = Append(b, Len(b))
  BY <1>1 DEF Frames!Counted
<1>4. /\ Append(b, Len(b)) \in Seq(Frames!Byte) /\ Len(Append(b, Len(b))) = Len(b) + 1
      /\ \A i \in 1..Len(b) : Append(b, Len(b))[i] = b[i]
      /\ Append(b, Len(b))[Len(b) + 1] = Len(b)
  BY <1>2, AppendProperties
<1>5. \A i \in 1..Len(m.payload) : i + 2 \in 1..Len(b)
  BY <1>2
<1>6. 1 \in 1..Len(b) /\ 2 \in 1..Len(b) /\ Len(b) + 1 = Len(m.payload) + 3
  BY <1>2
<1> QED
  BY <1>2, <1>3, <1>4, <1>5, <1>6

LEMMA FrameIs ==
    ASSUME Traffic, NEW m \in Messages, NEW e, e = Frames!cp_encodemessage(m)
    PROVE  /\ e \in Seq(Frames!Byte) /\ Len(e) > 1
           /\ Frames!Intact(e) /\ Frames!cp_decodemessage(e) = m
<1>1. PICK c : c = Frames!Counted(m)
  OBVIOUS
<1>2. PICK k \in Nat : k = Len(m.payload)
  BY BodyIs
<1>3. /\ c \in Seq(Frames!Byte) /\ Len(c) = k + 3 /\ c[k + 3] = k + 2
      /\ c[1] = m.seqno /\ c[2] = m.cmd /\ \A i \in 1..k : c[i + 2] = m.payload[i]
  BY <1>1, <1>2, CountedIs
<1>4. PICK w \in Word : w = Frames!crc16_data(c)
  BY <1>3, ChecksumIsWord
<1>5. PICK x \in Frames!Byte, y \in Frames!Byte :
          x = w % 256 /\ y = w \div 256 /\ w = x + 256 * y
  BY WordIsTwoBytes
<1>6. PICK t : t = <<x, y>>
  OBVIOUS
<1>7. t \in Seq(Frames!Byte) /\ Len(t) = 2 /\ t[1] = x /\ t[2] = y
  BY <1>6
<1>8. e = c \o t
  BY <1>1, <1>4, <1>5, <1>6 DEF Frames!cp_encodemessage, Frames!Checksum
<1>9. /\ e \in Seq(Frames!Byte) /\ Len(e) = k + 5
      /\ \A i \in 1..k + 5 : e[i] = IF i <= k + 3 THEN c[i] ELSE t[i - (k + 3)]
  <2>1. /\ c \o t \in Seq(Frames!Byte) /\ Len(c \o t) = Len(c) + Len(t)
        /\ \A i \in 1..Len(c) + Len(t) :
              (c \o t)[i] = IF i <= Len(c) THEN c[i] ELSE t[i - Len(c)]
    BY <1>3, <1>7, ConcatProperties
  <2> QED
    BY <1>3, <1>7, <1>8, <2>1
<1>10. \A i \in 1..k + 3 : e[i] = c[i]
  BY <1>9
<1>11. e[k + 4] = x /\ e[k + 5] = y
  <2>1. k + 4 \in 1..k + 5 /\ k + 5 \in 1..k + 5 /\ ~(k + 4 <= k + 3) /\ ~(k + 5 <= k + 3)
    OBVIOUS
  <2>2. e[k + 4] = t[(k + 4) - (k + 3)] /\ e[k + 5] = t[(k + 5) - (k + 3)]
    BY <1>9, <2>1
  <2>3. (k + 4) - (k + 3) = 1 /\ (k + 5) - (k + 3) = 2
    OBVIOUS
  <2> QED
    BY <1>7, <2>2, <2>3
<1>12. SubSeq(e, 1, k + 3) = c
  <2>1. PICK s : s = SubSeq(e, 1, k + 3)
    OBVIOUS
  <2>2. /\ s \in Seq(Frames!Byte) /\ Len(s) = k + 3
        /\ \A i \in 1..k + 3 : s[i] = e[i]
    BY <1>9, <2>1
  <2> QED
    BY <1>3, <1>10, <2>1, <2>2
<1>13. Frames!Intact(e)
  <2>1. Len(e) - 2 = k + 3 /\ Len(e) - 1 = k + 4 /\ Len(e) > 1
    BY <1>9
  <2>2. Frames!crc16_data(c) = e[k + 4] + 256 * e[k + 5]
    BY <1>4, <1>5, <1>11
  <2> QED
    BY <1>9, <1>12, <2>1, <2>2 DEF Frames!Intact
<1>14. Frames!cp_decodemessage(e) = m
  <2>1. Frames!msglen(e) = k + 2
    <3>1. Len(e) - 2 = k + 3 /\ Len(e) > 2 /\ k + 3 \in 1..k + 3
      BY <1>9
    <3>2. e[k + 3] = k + 2
      BY <1>3, <1>10, <3>1
    <3> QED
      BY <3>1, <3>2 DEF Frames!msglen
  <2>2. e[1] = m.seqno /\ e[2] = m.cmd
    BY <1>3, <1>10
  <2>3. PICK p : p = [i \in 1..Frames!msglen(e) - 2 |-> IF i + 2 > Len(e) THEN 0 ELSE e[i + 2]]
    OBVIOUS
  <2>4. p = [i \in 1..k |-> m.payload[i]]
    <3>1. (k + 2) - 2 = k
      OBVIOUS
    <3>2. ASSUME NEW i \in 1..k PROVE ~(i + 2 > Len(e)) /\ e[i + 2] = m.payload[i]
      <4>1. i + 2 \in 1..k + 3 /\ ~(i + 2 > k + 5)
        OBVIOUS
      <4> QED
        BY <1>3, <1>9, <1>10, <4>1
    <3> QED
      BY <2>1, <2>3, <3>1, <3>2
  <2>5. m.payload = [i \in 1..k |-> m.payload[i]]
    BY <1>2 DEF Traffic
  <2>6. m = [seqno |-> m.seqno, cmd |-> m.cmd, payload |-> m.payload]
    BY DEF Traffic
  <2> QED
    BY <2>2, <2>3, <2>4, <2>5, <2>6 DEF Frames!cp_decodemessage
<1> QED
  BY <1>9, <1>13, <1>14

LEMMA DecodedType ==
    ASSUME NEW bytes \in Seq(Frames!Byte), Len(bytes) > 1
    PROVE  Frames!cp_decodemessage(bytes) \in Decodable
<1>1. Len(bytes) \in Nat /\ \A i \in 1..Len(bytes) : bytes[i] \in Frames!Byte
  BY LenProperties, ElementOfSeq
<1>2. PICK n \in Int : n = Frames!msglen(bytes) - 2
  <2>1. CASE Len(bytes) > 2
    <3>1. bytes[Len(bytes) - 2] \in Frames!Byte
      BY <1>1, <2>1
    <3>2. Frames!msglen(bytes) = bytes[Len(bytes) - 2]
      BY <2>1 DEF Frames!msglen
    <3>3. \A b \in Frames!Byte : b - 2 \in Int
      BY DEF Frames!Byte
    <3> QED
      BY <3>1, <3>2, <3>3
  <2>2. CASE ~(Len(bytes) > 2)
    <3>1. Frames!msglen(bytes) = 2
      BY <2>2 DEF Frames!msglen
    <3> QED
      BY <3>1
  <2> QED
    BY <2>1, <2>2
<1>3. PICK p : p = [i \in 1..n |-> IF i + 2 > Len(bytes) THEN 0 ELSE bytes[i + 2]]
  OBVIOUS
<1>4. p \in [1..n -> Frames!Byte]
  <2>1. 0 \in Frames!Byte
    BY DEF Frames!Byte
  <2>2. ASSUME NEW i \in 1..n, ~(i + 2 > Len(bytes)) PROVE bytes[i + 2] \in Frames!Byte
    BY <1>1, <2>2
  <2> QED
    BY <1>3, <2>1, <2>2
<1>5. p \in Seq(Frames!Byte)
  <2>1. CASE n \in Nat
    BY <1>4, <2>1
  <2>2. CASE n \notin Nat
    <3>1. 1..n = 1..0
      BY <2>2
    <3> QED
      BY <1>4, <3>1
  <2> QED
    BY <2>1, <2>2
<1>6. bytes[1] \in Frames!Byte /\ bytes[2] \in Frames!Byte
  BY <1>1
<1>7. Frames!cp_decodemessage(bytes) = [seqno |-> bytes[1], cmd |-> bytes[2], payload |-> p]
  BY <1>2, <1>3 DEF Frames!cp_decodemessage
<1> QED
  BY <1>5, <1>6, <1>7 DEF Decodable

-----------------------------------------------------------------------------
(* The values of the line and of both ends.                                *)

LEMMA CallbackTypes ==
    ASSUME NEW c \in Frames!Byte, Frames!proxy_rx_callback(c), Frames!TypeOK
    PROVE  /\ last_c' \in Frames!Byte /\ rxbuf' \in Seq(Frames!Byte)
           /\ got' \in Seq(Decodable)
<1>1. rxbuf \in Seq(Frames!Byte) /\ got \in Seq(Decodable)
  BY DEF Frames!TypeOK, Decodable
<1>2. last_c' = c
  BY DEF Frames!proxy_rx_callback
<1>3. CASE c = Frames!END
  <2>1. /\ rxbuf' = <<>>
        /\ got' = IF Frames!Intact(rxbuf) THEN Append(got, Frames!cp_decodemessage(rxbuf)) ELSE got
    BY <1>3 DEF Frames!proxy_rx_callback
  <2>2. Frames!Intact(rxbuf) => Len(rxbuf) > 1
    BY DEF Frames!Intact
  <2>3. Frames!Intact(rxbuf) => Frames!cp_decodemessage(rxbuf) \in Decodable
    BY <1>1, <2>2, DecodedType
  <2>4. got' \in Seq(Decodable)
    BY <1>1, <2>1, <2>3
  <2> QED
    BY <1>2, <2>1, <2>4
<1>4. CASE c # Frames!END
  <2>1. PICK b : /\ rxbuf' = Append(rxbuf, b) /\ got' = got
                 /\ b \in {Frames!ESC, Frames!END, c}
    BY <1>4 DEF Frames!proxy_rx_callback
  <2>2. b \in Frames!Byte
    BY <2>1 DEF Frames!ESC, Frames!END, Frames!Byte
  <2> QED
    BY <1>1, <1>2, <2>1, <2>2
<1> QED
  BY <1>3, <1>4

LEMMA FrameType ==
    ASSUME Traffic, NEW m \in Messages
    PROVE  Append(Frames!byteStuff(Frames!cp_encodemessage(m)), Frames!END) \in Seq(Frames!Byte)
<1>1. PICK e : e = Frames!cp_encodemessage(m)
  OBVIOUS
<1>2. e \in Seq(Frames!Byte)
  BY <1>1, FrameIs
<1>3. Frames!byteStuff(e) \in Seq(Frames!Byte) /\ Frames!END \in Frames!Byte
  BY <1>2, StuffedType DEF Frames!END, Frames!Byte
<1> QED
  BY <1>1, <1>3

LEMMA LineTypes ==
    ASSUME line \in Seq(Frames!Byte), line # <<>>
    PROVE  Head(line) \in Frames!Byte /\ Tail(line) \in Seq(Frames!Byte)
BY HeadTailProperties

(* What is sent, received and decoded is made of bytes, with a flipped bit *)
(* and lost bytes too (cp_encodemessage, byteStuff, cp_decodemessage).     *)
THEOREM FrameTypes == ASSUME Traffic PROVE Frames!Spec => []Frames!TypeOK
<1>1. Frames!Init => Frames!TypeOK
  BY DEF Frames!Init, Frames!TypeOK, Frames!Byte, Traffic
<1>2. Frames!TypeOK /\ [Frames!Next]_Frames!frameVars => Frames!TypeOK'
  <2> SUFFICES ASSUME Frames!TypeOK, [Frames!Next]_Frames!frameVars PROVE Frames!TypeOK'
    OBVIOUS
  <2>1. ASSUME NEW m \in Messages, Frames!transmit(m) PROVE Frames!TypeOK'
    <3>1. line' \in Seq(Frames!Byte)
      BY <2>1, FrameType DEF Frames!transmit
    <3>2. sent' \in Seq(Messages)
      BY <2>1 DEF Frames!transmit, Frames!TypeOK
    <3> QED
      BY <2>1, <3>1, <3>2 DEF Frames!transmit, Frames!TypeOK
  <2>2. CASE Frames!Receive
    <3>1. Head(line) \in Frames!Byte /\ Tail(line) \in Seq(Frames!Byte)
      BY <2>2, LineTypes DEF Frames!Receive, Frames!TypeOK
    <3>2. /\ last_c' \in Frames!Byte /\ rxbuf' \in Seq(Frames!Byte)
          /\ got' \in Seq(Decodable)
      BY <2>2, <3>1, CallbackTypes DEF Frames!Receive
    <3> QED
      BY <2>2, <3>1, <3>2 DEF Frames!Receive, Frames!TypeOK, Decodable
  <2>3. ASSUME Frames!Disturbed
        PROVE  /\ Head(line) \in Frames!Byte /\ line' \in Seq(Frames!Byte)
               /\ noise' \in 0..MaxNoise
    <3>1. Head(line) \in Frames!Byte /\ Tail(line) \in Seq(Frames!Byte)
      BY <2>3, LineTypes DEF Frames!Disturbed, Frames!TypeOK
    <3>2. noise' \in 0..MaxNoise
      BY <2>3 DEF Frames!Disturbed, Frames!TypeOK, Traffic
    <3> QED
      BY <2>3, <3>1, <3>2 DEF Frames!Disturbed
  <2>4. CASE Frames!FlipBit
    <3>1. /\ Head(line) \in Frames!Byte /\ line' \in Seq(Frames!Byte)
          /\ noise' \in 0..MaxNoise
      BY <2>3, <2>4 DEF Frames!FlipBit
    <3>2. PICK bit \in {1, 2, 4, 8, 16, 32, 64, 128} :
              Frames!proxy_rx_callback(Frames!Xor8(Head(line), bit))
      BY <2>4 DEF Frames!FlipBit
    <3>3. Frames!Xor8(Head(line), bit) \in Frames!Byte
      <4>1. \A b \in Frames!Byte : b \in Nat
        BY DEF Frames!Byte
      <4>2. Head(line) \in Nat
        BY <3>1, <4>1
      <4>3. bit \in Nat
        OBVIOUS
      <4>4. Frames!Xor8(Head(line), bit) \in 0..255
        BY <4>2, <4>3, XorBits
      <4> QED
        BY <4>4 DEF Frames!Byte
    <3>4. /\ last_c' \in Frames!Byte /\ rxbuf' \in Seq(Frames!Byte)
          /\ got' \in Seq(Decodable)
      BY <3>2, <3>3, CallbackTypes
    <3> QED
      BY <2>4, <3>1, <3>4 DEF Frames!FlipBit, Frames!TypeOK, Decodable
  <2>5. CASE Frames!LoseByte
    BY <2>3, <2>5 DEF Frames!LoseByte, Frames!TypeOK
  <2>6. CASE UNCHANGED Frames!frameVars
    BY <2>6 DEF Frames!frameVars, Frames!TypeOK
  <2> QED
    BY <2>1, <2>2, <2>4, <2>5, <2>6 DEF Frames!Next
<1> QED
  BY <1>1, <1>2, PTL DEF Frames!Spec

-----------------------------------------------------------------------------
(* On a quiet line.  Some of the elements of one sequence come in order in *)
(* another.                                                                *)

LEMMA WithinGrows ==
    ASSUME NEW P, NEW s, NEW S, NEW t \in Seq(S), NEW x \in S, Frames!Within(P, s, t)
    PROVE  Frames!Within(P, s, Append(t, x))
<1>1. PICK at \in [P -> DOMAIN t] :
          \A i \in P : s[i] = t[at[i]] /\ \A j_1 \in P : j_1 < i => at[j_1] < at[i]
  BY DEF Frames!Within
<1>2. PICK u : u = Append(t, x)
  OBVIOUS
<1>3. DOMAIN t \subseteq DOMAIN u /\ \A i \in DOMAIN t : u[i] = t[i]
  BY <1>2, AppendProperties
<1>4. at \in [P -> DOMAIN u] /\ \A i \in P : s[i] = u[at[i]]
  BY <1>1, <1>3
<1> QED
  BY <1>1, <1>2, <1>4 DEF Frames!Within

LEMMA WithinNext ==
    ASSUME NEW P \in SUBSET Nat, NEW s, NEW S, NEW t \in Seq(S), NEW n \in Nat,
           s[n] \in S, \A i \in P : i < n, Frames!Within(P, s, t)
    PROVE  Frames!Within(P \cup {n}, s, Append(t, s[n]))
<1>1. PICK at \in [P -> DOMAIN t] :
          \A i \in P : s[i] = t[at[i]] /\ \A j_1 \in P : j_1 < i => at[j_1] < at[i]
  BY DEF Frames!Within
<1>2. PICK u : u = Append(t, s[n])
  OBVIOUS
<1>3. PICK l \in Nat : l = Len(t) + 1
  BY LenProperties
<1>4. /\ DOMAIN t = 1..l - 1 /\ DOMAIN u = 1..l /\ u[l] = s[n]
      /\ \A i \in 1..l - 1 : u[i] = t[i]
  BY <1>2, <1>3, AppendProperties, LenProperties
<1>5. PICK to : to = [i \in P \cup {n} |-> IF i = n THEN l ELSE at[i]]
  OBVIOUS
<1>6. n \notin P /\ l \in 1..l
  BY <1>3, LenProperties
<1>7. /\ to[n] = l
      /\ \A i \in P : to[i] = at[i] /\ at[i] \in 1..l - 1
  BY <1>1, <1>4, <1>5, <1>6
<1>8. to \in [P \cup {n} -> DOMAIN u]
  <2>1. \A i \in 1..l - 1 : i \in 1..l
    OBVIOUS
  <2> QED
    BY <1>4, <1>5, <1>6, <1>7, <2>1
<1>9. \A i \in P \cup {n} : s[i] = u[to[i]]
  BY <1>1, <1>4, <1>7
<1>10. ASSUME NEW i \in P \cup {n}, NEW h \in P \cup {n}, h < i PROVE to[h] < to[i]
  <2>1. h \in P
    <3>1. ASSUME h = n PROVE FALSE
      BY <1>10, <3>1
    <3> QED
      BY <3>1
  <2>2. CASE i = n
    BY <1>7, <2>1, <2>2
  <2>3. CASE i # n
    BY <1>1, <1>7, <1>10, <2>1, <2>3
  <2> QED
    BY <2>2, <2>3
<1> QED
  BY <1>2, <1>8, <1>9, <1>10 DEF Frames!Within

LEMMA WithinSame ==
    ASSUME NEW P, NEW s, NEW r, NEW t, \A i \in P : r[i] = s[i], Frames!Within(P, s, t)
    PROVE  Frames!Within(P, r, t)
BY DEF Frames!Within

(* The first byte of the line goes to the end of the buffer.               *)
LEMMA HeadMoves ==
    ASSUME NEW S, NEW r \in Seq(S), NEW l \in Seq(S), l # <<>>
    PROVE  Append(r, Head(l)) \o Tail(l) = r \o l
<1>1. PICK h \in S, t \in Seq(S) : h = Head(l) /\ t = Tail(l)
  BY HeadTailProperties
<1>2. l = <<h>> \o t
  BY <1>1
<1>3. Append(r, h) = r \o <<h>>
  BY AppendIsConcat
<1>4. (r \o <<h>>) \o t = r \o (<<h>> \o t)
  BY <1>1, ConcatAssociative
<1> QED
  BY <1>1, <1>2, <1>3, <1>4

-----------------------------------------------------------------------------
(* The inductive invariant: the line is at rest and what needs no escape   *)
(* has arrived, or a frame is under way, of which, if it needs none, the   *)
(* buffer has the first part as it was sent.                               *)

PlainIn(s, n) == {i \in 1..n : ~Frames!Escaped(s[i])}
FrameOf(m) == Append(Frames!byteStuff(Frames!cp_encodemessage(m)), Frames!END)

AtRest ==
    /\ Len(line) = 0 /\ Len(rxbuf) = 0 /\ last_c # Frames!ESC
    /\ Frames!Within(PlainIn(sent, Len(sent)), sent, got)
UnderWay ==
    /\ Len(line) > 0 /\ line[Len(line)] = Frames!END
    /\ Len(sent) > 0 /\ Frames!Within(PlainIn(sent, Len(sent) - 1), sent, got)
    /\ ~Frames!Escaped(sent[Len(sent)]) =>
          last_c # Frames!ESC /\ rxbuf \o line = FrameOf(sent[Len(sent)])
QuietLine == noise = 0 => AtRest \/ UnderWay

LEMMA PlainFrame ==
    ASSUME Traffic, NEW m \in Messages, ~Frames!Escaped(m),
           NEW e, e = Frames!cp_encodemessage(m)
    PROVE  /\ FrameOf(m) = Append(e, Frames!END) /\ e \in Seq(Frames!Byte)
           /\ \A i \in 1..Len(e) : e[i] # Frames!END /\ e[i] # Frames!ESC
<1>1. e \in Seq(Frames!Byte)
  BY FrameIs
<1>2. IsPlain(e)
  BY <1>1 DEF Frames!Escaped, IsPlain
<1> QED
  BY <1>1, <1>2, PlainIsNotStuffed DEF FrameOf, IsPlain

LEMMA TransmitQuiet ==
    ASSUME Traffic, Frames!TypeOK, QuietLine, NEW m \in Messages, Frames!transmit(m)
    PROVE  QuietLine'
<1>1. SUFFICES ASSUME noise = 0 PROVE UnderWay'
  BY DEF QuietLine, Frames!transmit
<1>2. AtRest
  BY <1>1 DEF QuietLine, UnderWay, Frames!transmit
<1>3. PICK n \in Nat : n = Len(sent)
  BY LenProperties DEF Frames!TypeOK
<1>4. /\ Len(sent') = n + 1 /\ sent'[n + 1] = m
      /\ \A i \in 1..n : sent'[i] = sent[i]
  BY <1>3 DEF Frames!transmit, Frames!TypeOK
<1>5. line' = FrameOf(m) /\ UNCHANGED <<rxbuf, last_c, got>>
  BY DEF Frames!transmit, FrameOf
<1>6. Len(line') > 0 /\ line'[Len(line')] = Frames!END
  <2>1. PICK b \in Seq(Frames!Byte) : b = Frames!byteStuff(Frames!cp_encodemessage(m))
    <3>1. PICK e : e = Frames!cp_encodemessage(m)
      OBVIOUS
    <3>2. e \in Seq(Frames!Byte)
      BY <3>1, FrameIs
    <3> QED
      BY <3>1, <3>2, StuffedType
  <2>2. line' = Append(b, Frames!END)
    BY <1>5, <2>1 DEF FrameOf
  <2>3. Len(Append(b, Frames!END)) = Len(b) + 1 /\ Append(b, Frames!END)[Len(b) + 1] = Frames!END
    OBVIOUS
  <2>4. Len(b) + 1 > 0
    BY LenProperties
  <2> QED
    BY <2>2, <2>3, <2>4
<1>7. Frames!Within(PlainIn(sent', n), sent', got')
  <2>1. PlainIn(sent', n) = PlainIn(sent, n)
    BY <1>4 DEF PlainIn
  <2>2. \A i \in PlainIn(sent, n) : sent'[i] = sent[i]
    BY <1>4 DEF PlainIn
  <2>3. Frames!Within(PlainIn(sent, n), sent, got)
    BY <1>2, <1>3 DEF AtRest
  <2> QED
    BY <1>5, <2>1, <2>2, <2>3, WithinSame
<1>8. last_c' # Frames!ESC /\ rxbuf' \o line' = FrameOf(m)
  <2>1. rxbuf = <<>> /\ last_c # Frames!ESC
    BY <1>2, EmptySeq DEF AtRest, Frames!TypeOK
  <2>2. line' \in Seq(Frames!Byte)
    BY <1>5, FrameType DEF FrameOf
  <2> QED
    BY <1>5, <2>1, <2>2, ConcatEmptySeq
<1>9. (n + 1) - 1 = n /\ n + 1 > 0
  OBVIOUS
<1> QED
  BY <1>4, <1>6, <1>7, <1>8, <1>9 DEF UnderWay

(* The END of a frame that needed no escape finds all of it in the buffer. *)
LEMMA PlainFrameEnds ==
    ASSUME Traffic, NEW m \in Messages, ~Frames!Escaped(m),
           NEW r \in Seq(Frames!Byte), NEW l \in Seq(Frames!Byte), Len(l) > 0,
           Head(l) = Frames!END, r \o l = FrameOf(m)
    PROVE  Len(l) = 1 /\ r = Frames!cp_encodemessage(m)
<1>1. PICK e : e = Frames!cp_encodemessage(m)
  OBVIOUS
<1>2. /\ FrameOf(m) = Append(e, Frames!END) /\ e \in Seq(Frames!Byte)
      /\ \A i \in 1..Len(e) : e[i] # Frames!END
  BY <1>1, PlainFrame
<1>3. PICK x \in Nat, y \in Nat, z \in Nat : x = Len(r) /\ y = Len(l) /\ z = Len(e)
  BY <1>2, LenProperties
<1>4. PICK f : f = r \o l
  OBVIOUS
<1>5. Len(f) = x + y /\ \A i \in 1..x + y : f[i] = IF i <= x THEN r[i] ELSE l[i - x]
  BY <1>3, <1>4, ConcatProperties
<1>6. f = Append(e, Frames!END)
  BY <1>2, <1>4
<1>7. Len(f) = z + 1 /\ \A i \in 1..z : f[i] = e[i]
  BY <1>2, <1>3, <1>6, AppendProperties
<1>8. f[x + 1] = Frames!END
  <2>1. x + 1 \in 1..x + y /\ ~(x + 1 <= x) /\ (x + 1) - x = 1
    BY <1>3
  <2>2. Head(l) = l[1]
    OBVIOUS
  <2> QED
    BY <1>5, <2>1, <2>2
<1>9. x + 1 \notin 1..z
  <2>1. ASSUME NEW i \in 1..z PROVE f[i] # Frames!END
    BY <1>2, <1>3, <1>7
  <2> QED
    BY <1>8, <2>1
<1>10. x = z /\ y = 1
  <2>1. x + y = z + 1
    BY <1>5, <1>7
  <2>2. y > 0
    BY <1>3
  <2>3. x + 1 > z
    BY <1>9
  <2> QED
    BY <2>1, <2>2, <2>3
<1>11. ASSUME NEW i \in 1..z PROVE r[i] = e[i]
  <2>1. i \in 1..x + y /\ i <= x
    BY <1>3, <1>10
  <2>2. f[i] = r[i]
    BY <1>5, <2>1
  <2> QED
    BY <1>7, <2>2
<1>12. r = e
  <2>1. Len(r) = Len(e) /\ \A i \in 1..Len(r) : r[i] = e[i]
    BY <1>3, <1>10, <1>11
  <2> QED
    BY <1>2, <2>1, SeqEqual
<1> QED
  BY <1>1, <1>3, <1>10, <1>12

LEMMA PlainFrameGoesOn ==
    ASSUME Traffic, NEW m \in Messages, ~Frames!Escaped(m),
           NEW r \in Seq(Frames!Byte), NEW l \in Seq(Frames!Byte), Len(l) > 0,
           Head(l) # Frames!END, r \o l = FrameOf(m)
    PROVE  Head(l) # Frames!ESC
<1>1. PICK e : e = Frames!cp_encodemessage(m)
  OBVIOUS
<1>2. /\ FrameOf(m) = Append(e, Frames!END) /\ e \in Seq(Frames!Byte)
      /\ \A i \in 1..Len(e) : e[i] # Frames!ESC
  BY <1>1, PlainFrame
<1>3. PICK x \in Nat, y \in Nat, z \in Nat : x = Len(r) /\ y = Len(l) /\ z = Len(e)
  BY <1>2, LenProperties
<1>4. PICK f : f = r \o l
  OBVIOUS
<1>5. Len(f) = x + y /\ \A i \in 1..x + y : f[i] = IF i <= x THEN r[i] ELSE l[i - x]
  BY <1>3, <1>4, ConcatProperties
<1>6. f = Append(e, Frames!END)
  BY <1>2, <1>4
<1>7. Len(f) = z + 1 /\ f[z + 1] = Frames!END /\ \A i \in 1..z : f[i] = e[i]
  BY <1>2, <1>3, <1>6, AppendProperties
<1>8. x + 1 \in 1..x + y /\ f[x + 1] = Head(l)
  <2>1. x + 1 \in 1..x + y /\ ~(x + 1 <= x) /\ (x + 1) - x = 1
    BY <1>3
  <2>2. Head(l) = l[1]
    OBVIOUS
  <2> QED
    BY <1>5, <2>1, <2>2
<1>9. x + 1 \in 1..z
  <2>1. x + 1 # z + 1
    BY <1>7, <1>8
  <2> QED
    BY <1>5, <1>7, <1>8, <2>1
<1> QED
  BY <1>2, <1>3, <1>7, <1>8, <1>9

LEMMA EndQuiet ==
    ASSUME Traffic, Frames!TypeOK, UnderWay, Frames!Receive, Head(line) = Frames!END
    PROVE  AtRest' \/ UnderWay'
<1>1. PICK n \in Nat : n = Len(sent) /\ n > 0
  BY LenProperties DEF Frames!TypeOK, UnderWay
<1>2. PICK m \in Messages : m = sent[n]
  BY <1>1 DEF Frames!TypeOK
<1>3. /\ line' = Tail(line) /\ sent' = sent /\ last_c' = Frames!END /\ rxbuf' = <<>>
      /\ got' = IF Frames!Intact(rxbuf) THEN Append(got, Frames!cp_decodemessage(rxbuf)) ELSE got
  BY DEF Frames!Receive, Frames!proxy_rx_callback
<1>4. /\ line \in Seq(Frames!Byte) /\ rxbuf \in Seq(Frames!Byte) /\ got \in Seq(Decodable)
      /\ Len(line) > 0 /\ line # <<>>
  BY DEF Frames!TypeOK, Decodable, UnderWay, Frames!Receive
<1>5. Len(line') = Len(line) - 1 /\ \A i \in 1..Len(line') : line'[i] = line[i + 1]
  BY <1>3, <1>4, HeadTailProperties
<1>6. last_c' # Frames!ESC /\ Len(rxbuf') = 0
  BY <1>3 DEF Frames!ESC, Frames!END
<1>7. CASE ~Frames!Escaped(m)
  <2>1. rxbuf \o line = FrameOf(m)
    BY <1>1, <1>2, <1>7 DEF UnderWay
  <2>2. Len(line) = 1 /\ rxbuf = Frames!cp_encodemessage(m)
    BY <1>4, <1>7, <2>1, PlainFrameEnds
  <2>3. Frames!Intact(rxbuf) /\ Frames!cp_decodemessage(rxbuf) = m
    BY <2>2, FrameIs
  <2>4. got' = Append(got, sent[n])
    BY <1>2, <1>3, <2>3
  <2>5. PICK P : P = PlainIn(sent, n - 1)
    OBVIOUS
  <2>6. P \in SUBSET Nat /\ (\A i \in P : i < n) /\ Frames!Within(P, sent, got)
    BY <1>1, <2>5 DEF PlainIn, UnderWay
  <2>7. PlainIn(sent, n) = P \cup {n}
    BY <1>1, <1>2, <1>7, <2>5 DEF PlainIn
  <2>8. sent[n] \in Decodable
    BY <1>2 DEF Traffic, Decodable
  <2>9. Frames!Within(P \cup {n}, sent, Append(got, sent[n]))
    BY <1>4, <2>6, <2>8, WithinNext
  <2>10. Len(line') = 0
    BY <1>4, <1>5, <2>2
  <2> QED
    BY <1>1, <1>3, <1>6, <2>4, <2>7, <2>9, <2>10 DEF AtRest
<1>8. CASE Frames!Escaped(m)
  <2>1. Frames!Within(PlainIn(sent, n - 1), sent, got')
    <3>1. Frames!Within(PlainIn(sent, n - 1), sent, got)
      BY <1>1 DEF UnderWay
    <3>2. CASE Frames!Intact(rxbuf)
      <4>1. Len(rxbuf) > 1
        BY <3>2 DEF Frames!Intact
      <4>2. Frames!cp_decodemessage(rxbuf) \in Decodable
        BY <1>4, <4>1, DecodedType
      <4> QED
        BY <1>3, <1>4, <3>1, <3>2, <4>2, WithinGrows
    <3>3. CASE ~Frames!Intact(rxbuf)
      BY <1>3, <3>1, <3>3
    <3> QED
      BY <3>2, <3>3
  <2>2. PlainIn(sent, n) = PlainIn(sent, n - 1)
    BY <1>1, <1>2, <1>8 DEF PlainIn
  <2>3. CASE Len(line) = 1
    <3>1. Len(line') = 0
      BY <1>5, <2>3
    <3> QED
      BY <1>1, <1>3, <1>6, <2>1, <2>2, <3>1 DEF AtRest
  <2>4. CASE Len(line) # 1
    <3>1. PICK k \in Nat : k = Len(line') /\ k > 0 /\ Len(line) = k + 1
      BY <1>4, <1>5, <2>4, LenProperties
    <3>2. line'[k] = Frames!END
      BY <1>5, <3>1 DEF UnderWay
    <3> QED
      BY <1>1, <1>2, <1>3, <1>8, <2>1, <3>1, <3>2 DEF UnderWay
  <2> QED
    BY <2>3, <2>4
<1> QED
  BY <1>7, <1>8

LEMMA ByteQuiet ==
    ASSUME Traffic, Frames!TypeOK, UnderWay, Frames!Receive, Head(line) # Frames!END
    PROVE  UnderWay'
<1>1. PICK n \in Nat : n = Len(sent) /\ n > 0
  BY LenProperties DEF Frames!TypeOK, UnderWay
<1>2. PICK m \in Messages : m = sent[n]
  BY <1>1 DEF Frames!TypeOK
<1>3. PICK c : c = Head(line)
  OBVIOUS
<1>4. /\ line' = Tail(line) /\ sent' = sent /\ last_c' = c /\ got' = got
      /\ last_c # Frames!ESC => rxbuf' = Append(rxbuf, c)
  BY <1>3 DEF Frames!Receive, Frames!proxy_rx_callback
<1>5. /\ line \in Seq(Frames!Byte) /\ rxbuf \in Seq(Frames!Byte)
      /\ Len(line) > 0 /\ line # <<>>
  BY DEF Frames!TypeOK, UnderWay, Frames!Receive
<1>6. PICK k \in Nat : /\ k = Len(line') /\ Len(line) = k + 1
                       /\ \A i \in 1..k : line'[i] = line[i + 1]
  <2>1. PICK t : t = Tail(line)
    OBVIOUS
  <2>2. /\ t \in Seq(Frames!Byte) /\ Len(t) = Len(line) - 1
        /\ \A i \in 1..Len(t) : t[i] = line[i + 1]
    BY <1>5, <2>1, HeadTailProperties
  <2>3. Len(t) \in Nat /\ Len(line) \in Nat
    BY <1>5, <2>2, LenProperties
  <2>4. Len(line) = Len(t) + 1
    BY <2>2, <2>3
  <2> QED
    BY <1>4, <2>1, <2>2, <2>3, <2>4
<1>7. k > 0 /\ line'[k] = Frames!END
  <2>1. line[k + 1] = Frames!END
    BY <1>6 DEF UnderWay
  <2>2. k > 0
    <3>1. Head(line) = line[1]
      BY <1>5
    <3>2. k # 0
      BY <2>1, <3>1
    <3> QED
      BY <3>2
  <2>3. k \in 1..k
    BY <2>2
  <2> QED
    BY <1>6, <2>1, <2>2, <2>3
<1>8. ASSUME ~Frames!Escaped(m)
      PROVE  last_c' # Frames!ESC /\ rxbuf' \o line' = FrameOf(m)
  <2>1. last_c # Frames!ESC /\ rxbuf \o line = FrameOf(m)
    BY <1>1, <1>2, <1>8 DEF UnderWay
  <2>2. c # Frames!ESC
    BY <1>3, <1>5, <1>8, <2>1, PlainFrameGoesOn
  <2>3. Append(rxbuf, Head(line)) \o Tail(line) = rxbuf \o line
    BY <1>5, HeadMoves
  <2> QED
    BY <1>3, <1>4, <2>1, <2>2, <2>3
<1> QED
  BY <1>1, <1>2, <1>4, <1>6, <1>7, <1>8 DEF UnderWay

LEMMA StepQuiet ==
    ASSUME Traffic, Frames!TypeOK, QuietLine, [Frames!Next]_Frames!frameVars
    PROVE  QuietLine'
<1>1. ASSUME NEW m \in Messages, Frames!transmit(m) PROVE QuietLine'
  BY <1>1, TransmitQuiet
<1>2. CASE Frames!Receive
  <2>1. SUFFICES ASSUME noise = 0 PROVE AtRest' \/ UnderWay'
    BY <1>2 DEF QuietLine, Frames!Receive
  <2>2. UnderWay
    <3>1. Len(line) # 0
      BY <1>2, EmptySeq DEF Frames!Receive, Frames!TypeOK
    <3> QED
      BY <2>1, <3>1 DEF QuietLine, AtRest
  <2> QED
    BY <1>2, <2>2, EndQuiet, ByteQuiet
<1>3. CASE Frames!Disturbed
  <2>1. noise' # 0
    BY <1>3 DEF Frames!Disturbed, Frames!TypeOK
  <2> QED
    BY <2>1 DEF QuietLine
<1>4. CASE UNCHANGED Frames!frameVars
  BY <1>4 DEF Frames!frameVars, QuietLine, AtRest, UnderWay
<1> QED
  BY <1>1, <1>2, <1>3, <1>4 DEF Frames!Next, Frames!FlipBit, Frames!LoseByte

(* On a line that disturbs nothing every frame that needs no escape is     *)
(* decoded to the message it was made of, in the order sent, whatever      *)
(* frames with escapes are sent in between (cp_encodemessage, byteStuff,   *)
(* proxy_rx_callback, cp_decodemessage).                                   *)
THEOREM PlainFramesAreRead == ASSUME Traffic PROVE Frames!Spec => []Frames!PlainFramesArrive
<1>1. Frames!Init => QuietLine
  <2>1. SUFFICES ASSUME Frames!Init PROVE AtRest
    BY DEF QuietLine
  <2>2. Len(line) = 0 /\ Len(rxbuf) = 0 /\ last_c # Frames!ESC
    BY <2>1 DEF Frames!Init, Frames!ESC
  <2>3. PlainIn(sent, Len(sent)) = {}
    BY <2>1 DEF Frames!Init, PlainIn
  <2>4. Frames!Within({}, sent, got)
    <3>1. [i \in {} |-> 0] \in [{} -> DOMAIN got]
      OBVIOUS
    <3> QED
      BY <3>1, Zenon DEF Frames!Within
  <2> QED
    BY <2>2, <2>3, <2>4 DEF AtRest
<1>2. Frames!TypeOK /\ QuietLine /\ [Frames!Next]_Frames!frameVars => QuietLine'
  BY StepQuiet
<1>3. Frames!TypeOK /\ QuietLine => Frames!PlainFramesArrive
  <2>1. SUFFICES ASSUME Frames!TypeOK, QuietLine, line = <<>>, noise = 0
                 PROVE  Frames!Within({i \in DOMAIN sent : ~Frames!Escaped(sent[i])}, sent, got)
    BY DEF Frames!PlainFramesArrive
  <2>2. Len(line) = 0
    BY <2>1
  <2>3. AtRest
    BY <2>1, <2>2 DEF QuietLine, UnderWay
  <2>4. {i \in DOMAIN sent : ~Frames!Escaped(sent[i])} = PlainIn(sent, Len(sent))
    BY <2>1 DEF PlainIn, Frames!TypeOK
  <2> QED
    BY <2>3, <2>4 DEF AtRest
<1> QED
  BY <1>1, <1>2, <1>3, FrameTypes, PTL DEF Frames!Spec

-----------------------------------------------------------------------------
(*                            Event set-ups                                *)
-----------------------------------------------------------------------------

(* The types a payload must have, for any number of GUIs, any type of the  *)
(* levels and any values.                                                  *)
LevelSet == {Setup!Levels[i] : i \in 1..3}
RightType(f) == IF f = "eventsActive" THEN "u8" ELSE LevelType

-----------------------------------------------------------------------------
(* The inductive invariant of the set-ups.                                 *)

ConfigTyped == DOMAIN config = Setup!FieldSet /\ Setup!TypesStay

(* The requests, each with what its GUI had read: an update has the right  *)
(* type where it had.                                                      *)
Typed(objs, fields) ==
    \A i \in 1..4 : Setup!Fields[i] \in fields => objs[i].type = RightType(Setup!Fields[i])
RequestShape(r) ==
    /\ r.gui \in GUIs
    /\ \/ r.kind = "getEventSetup"
       \/ r.kind = "get" /\ r.field \in LevelSet
       \/ r.kind = "eventsetup" /\ Len(r.payload) = 4 /\ Typed(r.payload, r.seen)
AskedShape ==
    /\ Len(asked) \in Nat /\ asked = [t \in 1..Len(asked) |-> asked[t]]
    /\ \A t \in 1..Len(asked) : RequestShape(asked[t])
    /\ waiting \subseteq 1..Len(asked)

(* What may be answered.                                                   *)
AnswerShape ==
    \A x \in answers :
        /\ x.token \in waiting
        /\ \/ x.kind \in {"CHANGED", "BAD_REQUEST"}
           \/ /\ x.kind = "value" /\ asked[x.token].kind = "get"
              /\ x.obj.type = LevelType
           \/ x.kind = "setup" /\ \A f \in Setup!FieldSet : x.objs[f].type = RightType(f)

(* What the GUIs hold.                                                     *)
HeldTyped ==
    /\ DOMAIN objects = GUIs /\ seen \in [GUIs -> SUBSET Setup!FieldSet]
    /\ \A g \in GUIs :
          /\ DOMAIN objects[g] = Setup!FieldSet
          /\ \A f \in seen[g] : objects[g][f].type = RightType(f)

SetupInv == ConfigTyped /\ AskedShape /\ AnswerShape /\ HeldTyped

-----------------------------------------------------------------------------
(* The fields and their places in a payload.                               *)

LEMMA FieldsAreFields ==
    /\ \A i \in 1..4 : Setup!Fields[i] \in Setup!FieldSet
    /\ \A f \in Setup!FieldSet : \E i \in 1..4 : Setup!Fields[i] = f
    /\ Setup!Fields[4] = "eventsActive"
BY DEF Setup!FieldSet, Setup!Fields

PlaceOf(f) == CHOOSE i \in 1..4 : Setup!Fields[i] = f

LEMMA PlaceIsUnique ==
    /\ \A f \in Setup!FieldSet : PlaceOf(f) \in 1..4 /\ Setup!Fields[PlaceOf(f)] = f
    /\ \A i \in 1..4 : PlaceOf(Setup!Fields[i]) = i
<1>1. \A f \in Setup!FieldSet : PlaceOf(f) \in 1..4 /\ Setup!Fields[PlaceOf(f)] = f
  BY FieldsAreFields DEF PlaceOf
<1>2. \A i, k \in 1..4 : Setup!Fields[i] = Setup!Fields[k] => i = k
  BY DEF Setup!Fields
<1>3. \A i \in 1..4 : PlaceOf(Setup!Fields[i]) = i
  BY <1>1, <1>2, FieldsAreFields
<1> QED
  BY <1>1, <1>3

LEMMA LevelsAreFields ==
    \A f \in LevelSet : f \in Setup!FieldSet /\ RightType(f) = LevelType
BY DEF LevelSet, Setup!Levels, Setup!FieldSet, Setup!Fields, RightType

-----------------------------------------------------------------------------
(* What the parse of a payload stores: the objects before the first wrong  *)
(* one.                                                                    *)

LEMMA RetIsFirstWrong ==
    ASSUME NEW objs
    PROVE  /\ Setup!Wrong(objs) = {} => Setup!ret(objs) = 0
           /\ Setup!Wrong(objs) # {} =>
                 /\ Setup!ret(objs) \in Setup!Wrong(objs) /\ Setup!ret(objs) \in 1..4
                 /\ \A k \in Setup!Wrong(objs) : Setup!ret(objs) <= k
<1> DEFINE W == Setup!Wrong(objs)
<1>1. W \subseteq 1..4
  BY DEF Setup!Wrong
<1>2. CASE W # {}
  <2>1. 1 \in W \/ 2 \in W \/ 3 \in W \/ 4 \in W
    BY <1>1, <1>2
  <2> HIDE DEF W
  <2>2. \E i \in W : \A k \in W : i <= k
    <3>1. CASE 1 \in W
      BY <1>1, <3>1
    <3>2. CASE 1 \notin W /\ 2 \in W
      BY <1>1, <3>2
    <3>3. CASE 1 \notin W /\ 2 \notin W /\ 3 \in W
      BY <1>1, <3>3
    <3>4. CASE 1 \notin W /\ 2 \notin W /\ 3 \notin W /\ 4 \in W
      BY <1>1, <3>4
    <3> QED
      BY <2>1, <3>1, <3>2, <3>3, <3>4
  <2>3. Setup!ret(objs) = CHOOSE i \in W : \A k \in W : i <= k
    BY <1>2 DEF Setup!ret, W
  <2>4. Setup!ret(objs) \in W /\ \A k \in W : Setup!ret(objs) <= k
    BY <2>2, <2>3
  <2> QED
    BY <1>1, <1>2, <2>4 DEF W
<1>3. CASE W = {}
  BY <1>3 DEF Setup!ret
<1> QED
  BY <1>2, <1>3

LEMMA StoredFields ==
    ASSUME NEW objs
    PROVE  /\ DOMAIN Setup!Stored(objs) = Setup!FieldSet
           /\ \A f \in Setup!FieldSet :
                 Setup!Stored(objs)[f]
                   = IF Setup!ret(objs) = 0 \/ PlaceOf(f) < Setup!ret(objs)
                     THEN objs[PlaceOf(f)] ELSE config[f]
<1>1. ASSUME NEW f \in Setup!FieldSet
      PROVE  (\E i \in 1..4 : Setup!Fields[i] = f /\ (Setup!ret(objs) = 0 \/ i < Setup!ret(objs)))
                <=> (Setup!ret(objs) = 0 \/ PlaceOf(f) < Setup!ret(objs))
  BY PlaceIsUnique
<1> QED
  BY <1>1 DEF Setup!Stored, PlaceOf

(* A stored object has the type of the one it replaces.                    *)
LEMMA StoredKeepsTypes ==
    ASSUME ConfigTyped, NEW objs
    PROVE  \A f \in Setup!FieldSet : Setup!Stored(objs)[f].type = RightType(f)
<1> SUFFICES ASSUME NEW f \in Setup!FieldSet PROVE Setup!Stored(objs)[f].type = RightType(f)
  OBVIOUS
<1>1. config[f].type = RightType(f)
  BY DEF ConfigTyped, Setup!TypesStay, RightType
<1>2. CASE Setup!ret(objs) = 0 \/ PlaceOf(f) < Setup!ret(objs)
  <2>1. PlaceOf(f) \in 1..4 /\ Setup!Fields[PlaceOf(f)] = f
    BY PlaceIsUnique
  <2>2. PlaceOf(f) \notin Setup!Wrong(objs)
    BY <1>2, <2>1, RetIsFirstWrong
  <2>3. objs[PlaceOf(f)].type = Setup!TypeOf(f)
    BY <2>1, <2>2 DEF Setup!Wrong
  <2>4. Setup!TypeOf(f) = RightType(f)
    BY <1>1 DEF Setup!TypeOf, RightType
  <2> QED
    BY <1>2, <2>3, <2>4, StoredFields
<1>3. CASE ~(Setup!ret(objs) = 0 \/ PlaceOf(f) < Setup!ret(objs))
  BY <1>1, <1>3, StoredFields
<1> QED
  BY <1>2, <1>3

(* A payload is not refused at an object of the right type.                *)
LEMMA TypedIsNotWrong ==
    ASSUME ConfigTyped, NEW fields, NEW objs, Len(objs) = 4, Typed(objs, fields),
           Setup!ret(objs) # 0
    PROVE  Setup!Fields[Setup!ret(objs)] \notin fields
<1>1. \A i \in 1..4 : Setup!TypeOf(Setup!Fields[i]) = RightType(Setup!Fields[i])
  BY FieldsAreFields DEF Setup!TypeOf, ConfigTyped, Setup!TypesStay, RightType
<1>2. Setup!ret(objs) \in 1..4 /\ Setup!ret(objs) \in Setup!Wrong(objs)
  BY RetIsFirstWrong
<1>3. objs[Setup!ret(objs)].type # RightType(Setup!Fields[Setup!ret(objs)])
  BY <1>1, <1>2 DEF Setup!Wrong
<1> QED
  BY <1>2, <1>3 DEF Typed

(* What is stored of one that is accepted, and of one that is not.         *)
LEMMA AcceptedAndRefused ==
    ASSUME NEW objs
    PROVE  /\ Setup!ret(objs) = 0 => \A i \in 1..4 : Setup!Stored(objs)[Setup!Fields[i]] = objs[i]
           /\ Setup!ret(objs) # 0 => Setup!Stored(objs)["eventsActive"] = config["eventsActive"]
<1>1. CASE Setup!ret(objs) = 0
  BY <1>1, StoredFields, FieldsAreFields, PlaceIsUnique
<1>2. CASE Setup!ret(objs) # 0
  <2>1. Setup!ret(objs) \in 1..4 /\ PlaceOf("eventsActive") = 4 /\ "eventsActive" \in Setup!FieldSet
    BY <1>2, RetIsFirstWrong, FieldsAreFields, PlaceIsUnique
  <2>2. ~(PlaceOf("eventsActive") < Setup!ret(objs))
    BY <2>1
  <2> QED
    BY <1>2, <2>1, <2>2, StoredFields
<1> QED
  BY <1>1, <1>2

-----------------------------------------------------------------------------
(* The steps.                                                              *)

LEMMA InitSetupInv == Setup!Init => SetupInv
<1> SUFFICES ASSUME Setup!Init PROVE SetupInv
  OBVIOUS
<1>1. ConfigTyped
  BY DEF Setup!Init, ConfigTyped, Setup!TypesStay, Setup!Object
<1>2. AskedShape /\ AnswerShape
  <2>1. asked = <<>> /\ waiting = {} /\ answers = {}
    BY DEF Setup!Init
  <2>2. Len(<<>>) = 0 /\ <<>> = [t \in 1..0 |-> <<>>[t]] /\ 1..0 = {}
    OBVIOUS
  <2> QED
    BY <2>1, <2>2 DEF AskedShape, AnswerShape
<1>3. HeldTyped
  BY DEF Setup!Init, HeldTyped, Setup!Default
<1> QED
  BY <1>1, <1>2, <1>3 DEF SetupInv

(* A request is added behind the others.                                   *)
LEMMA AskedGrows ==
    ASSUME AskedShape, NEW request, asked' = Append(asked, request)
    PROVE  /\ Len(asked') = Len(asked) + 1 /\ Len(asked) \in Nat
           /\ asked' = [t \in 1..Len(asked') |-> asked'[t]]
           /\ asked'[Len(asked) + 1] = request
           /\ \A t \in 1..Len(asked) : asked'[t] = asked[t]
<1> DEFINE n == Len(asked)
           S == {asked[t] : t \in 1..n} \cup {request}
<1>1. n \in Nat /\ asked = [t \in 1..n |-> asked[t]]
  BY DEF AskedShape
<1>2. asked \in Seq(S)
  <2>1. [t \in 1..n |-> asked[t]] \in [1..n -> S]
    OBVIOUS
  <2> HIDE DEF S, n
  <2>2. asked \in [1..n -> S]
    BY <1>1, <2>1
  <2> QED
    BY <1>1, <2>2
<1>3. request \in S
  OBVIOUS
<1> HIDE DEF S
<1>4. /\ asked' \in Seq(S) /\ Len(asked') = n + 1 /\ asked'[n + 1] = request
      /\ \A t \in 1..n : asked'[t] = asked[t]
  BY <1>2, <1>3, AppendProperties
<1>5. asked' = [t \in 1..Len(asked') |-> asked'[t]]
  <2> DEFINE next == asked'
  <2>1. next \in Seq(S)
    BY <1>4
  <2> HIDE DEF next
  <2>2. next \in [1..Len(next) -> S]
    BY <2>1, LenProperties
  <2>3. next = [t \in 1..Len(next) |-> next[t]]
    BY <2>2
  <2> QED
    BY <2>3 DEF next
<1> QED
  BY <1>1, <1>4, <1>5

LEMMA AskKeepsInv ==
    ASSUME SetupInv, NEW g \in GUIs, NEW request, Setup!Ask(g, request), RequestShape(request)
    PROVE  SetupInv'
<1>1. /\ asked' = Append(asked, request) /\ waiting' = waiting \cup {Len(asked) + 1}
      /\ UNCHANGED <<config, objects, seen, answers>>
  BY DEF Setup!Ask
<1>2. ConfigTyped' /\ HeldTyped'
  BY <1>1 DEF SetupInv, ConfigTyped, Setup!TypesStay, HeldTyped
<1>3. /\ Len(asked') = Len(asked) + 1 /\ Len(asked) \in Nat
      /\ asked' = [t \in 1..Len(asked') |-> asked'[t]]
      /\ asked'[Len(asked) + 1] = request
      /\ \A t \in 1..Len(asked) : asked'[t] = asked[t]
  BY <1>1, AskedGrows DEF SetupInv
<1>4. AskedShape'
  <2>1. \A t \in 1..Len(asked') : RequestShape(asked'[t])
    <3> SUFFICES ASSUME NEW t \in 1..Len(asked') PROVE RequestShape(asked'[t])
      OBVIOUS
    <3>1. CASE t = Len(asked) + 1
      BY <1>3, <3>1
    <3>2. CASE t # Len(asked) + 1
      <4>1. t \in 1..Len(asked)
        BY <1>3, <3>2
      <4> QED
        BY <1>3, <4>1 DEF SetupInv, AskedShape
    <3> QED
      BY <3>1, <3>2
  <2>2. waiting' \subseteq 1..Len(asked')
    BY <1>1, <1>3 DEF SetupInv, AskedShape
  <2>3. RequestShape(request)' <=> RequestShape(request)'
    OBVIOUS
  <2> QED
    BY <1>3, <2>1, <2>2 DEF AskedShape, RequestShape, Typed
<1>5. AnswerShape'
  <2> SUFFICES ASSUME NEW x \in answers
               PROVE  /\ x.token \in waiting'
                      /\ \/ x.kind \in {"CHANGED", "BAD_REQUEST"}
                         \/ /\ x.kind = "value" /\ asked'[x.token].kind = "get"
                            /\ x.obj.type = LevelType
                         \/ /\ x.kind = "setup"
                            /\ \A f \in Setup!FieldSet : x.objs[f].type = RightType(f)
    BY <1>1 DEF AnswerShape
  <2>1. x.token \in waiting /\ x.token \in 1..Len(asked)
    BY DEF SetupInv, AnswerShape, AskedShape
  <2>2. asked'[x.token] = asked[x.token] /\ x.token \in waiting'
    BY <1>1, <1>3, <2>1
  <2> QED
    BY <2>2 DEF SetupInv, AnswerShape
<1> QED
  BY <1>2, <1>4, <1>5 DEF SetupInv

LEMMA UpdateKeepsInv ==
    ASSUME SetupInv, NEW g \in GUIs, NEW v, NEW mask, Setup!updateConfig(g, v, mask)
    PROVE  SetupInv'
<1> DEFINE objs == [i \in 1..4 |-> Setup!encode(g, Setup!Fields[i], IF i = 4 THEN mask ELSE v)]
           request == [kind |-> "eventsetup", gui |-> g, seen |-> seen[g], payload |-> objs]
<1>1. Setup!Ask(g, request)
  BY DEF Setup!updateConfig
<1>2. Len(objs) = 4
  OBVIOUS
<1>3. Typed(objs, seen[g])
  <2>1. \A i \in 1..4 : objs[i].type = objects[g][Setup!Fields[i]].type
    BY DEF Setup!encode, Setup!Object
  <2>2. \A f \in seen[g] : objects[g][f].type = RightType(f)
    BY DEF SetupInv, HeldTyped
  <2> HIDE DEF objs
  <2> QED
    BY <2>1, <2>2 DEF Typed
<1>4. /\ request.kind = "eventsetup" /\ request.gui = g /\ request.seen = seen[g]
      /\ request.payload = objs
  OBVIOUS
<1> HIDE DEF objs, request
<1>5. RequestShape(request)
  BY <1>2, <1>3, <1>4 DEF RequestShape
<1> QED
  BY <1>1, <1>5, AskKeepsInv

LEMMA ServeKeepsInv ==
    ASSUME SetupInv, NEW t \in DOMAIN asked, Setup!Serve(t)
    PROVE  SetupInv'
<1> DEFINE r == asked[t]
           x == Setup!Answer(t)
<1>1. /\ config' = IF r.kind = "eventsetup" THEN Setup!Stored(r.payload) ELSE config
      /\ answers' = IF t \in waiting THEN answers \cup {x} ELSE answers
      /\ UNCHANGED <<objects, seen, asked, waiting>>
  BY DEF Setup!Serve
<1>2. t \in 1..Len(asked) /\ RequestShape(r)
  BY DEF SetupInv, AskedShape
<1>3. ConfigTyped'
  <2>1. CASE r.kind = "eventsetup"
    BY <1>1, <2>1, StoredFields, StoredKeepsTypes
       DEF SetupInv, ConfigTyped, Setup!TypesStay, RightType
  <2>2. CASE r.kind # "eventsetup"
    BY <1>1, <2>2 DEF SetupInv, ConfigTyped, Setup!TypesStay
  <2> QED
    BY <2>1, <2>2
<1>4. AskedShape' /\ HeldTyped'
  BY <1>1 DEF SetupInv, AskedShape, RequestShape, Typed, HeldTyped
<1>5. \A f \in Setup!FieldSet : config[f].type = RightType(f)
  BY DEF SetupInv, ConfigTyped, Setup!TypesStay, RightType
<1>6. /\ x.token = t
      /\ \/ x.kind \in {"CHANGED", "BAD_REQUEST"}
         \/ x.kind = "value" /\ r.kind = "get" /\ x.obj.type = LevelType
         \/ x.kind = "setup" /\ \A f \in Setup!FieldSet : x.objs[f].type = RightType(f)
  <2>1. CASE r.kind = "eventsetup"
    <3>1. x = [token |-> t, kind |-> Setup!Code(r.payload)]
      BY <2>1 DEF Setup!Answer
    <3>2. Setup!Code(r.payload) \in {"CHANGED", "BAD_REQUEST"}
      BY DEF Setup!Code
    <3> HIDE DEF x
    <3> QED
      BY <3>1, <3>2
  <2>2. CASE r.kind = "get"
    <3>1. x = [token |-> t, kind |-> "value", obj |-> config[r.field]]
      BY <2>2 DEF Setup!Answer
    <3>2. config[r.field].type = LevelType
      BY <1>2, <1>5, <2>2, LevelsAreFields DEF RequestShape
    <3> HIDE DEF x
    <3> QED
      BY <2>2, <3>1, <3>2
  <2>3. CASE r.kind = "getEventSetup"
    <3>1. x = [token |-> t, kind |-> "setup", objs |-> config]
      BY <2>3 DEF Setup!Answer
    <3> HIDE DEF x
    <3> QED
      BY <1>5, <3>1
  <2> QED
    BY <1>2, <2>1, <2>2, <2>3 DEF RequestShape
<1> HIDE DEF x
<1>7. AnswerShape'
  BY <1>1, <1>6 DEF SetupInv, AnswerShape
<1> QED
  BY <1>3, <1>4, <1>7 DEF SetupInv

(* A request that is over is neither waited for nor answered.              *)
LEMMA RemoveKeepsShapes ==
    ASSUME SetupInv, NEW t, Setup!removePDU(t), asked' = asked
    PROVE  AskedShape' /\ AnswerShape'
<1>1. waiting' = waiting \ {t} /\ answers' = {x \in answers : x.token # t}
  BY DEF Setup!removePDU
<1>2. AskedShape'
  BY <1>1 DEF SetupInv, AskedShape, RequestShape, Typed
<1>3. AnswerShape'
  BY <1>1 DEF SetupInv, AnswerShape
<1> QED
  BY <1>2, <1>3

LEMMA ParseKeepsInv ==
    ASSUME SetupInv, NEW x \in answers, Setup!Parse(x)
    PROVE  SetupInv'
<1> DEFINE r == asked[x.token]
           g == r.gui
           fields == CASE x.kind = "setup" -> Setup!FieldSet
                       [] x.kind = "value" -> {r.field}
                       [] OTHER -> {}
           object(f) == IF x.kind = "setup" THEN x.objs[f] ELSE x.obj
           new == [f \in Setup!FieldSet |-> IF f \in fields THEN object(f) ELSE objects[g][f]]
<1>1. RequestShape(r) /\ g \in GUIs
  BY DEF SetupInv, AskedShape, AnswerShape, RequestShape
<1>2. /\ Setup!removePDU(x.token) /\ UNCHANGED <<config, asked>>
      /\ objects' = [objects EXCEPT ![g] = new]
      /\ seen' = [seen EXCEPT ![g] = @ \cup fields]
  BY <1>1 DEF Setup!Parse, SetupInv, HeldTyped
<1>3. /\ fields \subseteq Setup!FieldSet
      /\ \A f \in fields : object(f).type = RightType(f)
  <2>1. CASE x.kind = "setup"
    BY <2>1 DEF SetupInv, AnswerShape
  <2>2. CASE x.kind = "value"
    <3>1. r.kind = "get" /\ x.obj.type = LevelType
      BY <2>2 DEF SetupInv, AnswerShape
    <3>2. r.field \in LevelSet
      BY <1>1, <3>1 DEF RequestShape
    <3> QED
      BY <2>2, <3>1, <3>2, LevelsAreFields
  <2>3. CASE x.kind \notin {"setup", "value"}
    BY <2>3
  <2> QED
    BY <2>1, <2>2, <2>3
<1> HIDE DEF fields, object
<1>4. ConfigTyped' /\ AskedShape' /\ AnswerShape'
  BY <1>2, RemoveKeepsShapes DEF SetupInv, ConfigTyped, Setup!TypesStay
<1>5. \A f \in fields \cup seen[g] : new[f].type = RightType(f)
  BY <1>1, <1>3 DEF SetupInv, HeldTyped
<1>6. DOMAIN new = Setup!FieldSet
  OBVIOUS
<1> HIDE DEF new, g
<1>7. HeldTyped'
  <2>1. /\ DOMAIN objects' = GUIs /\ objects'[g] = new
        /\ \A h \in GUIs : h # g => objects'[h] = objects[h] /\ seen'[h] = seen[h]
        /\ seen' \in [GUIs -> SUBSET Setup!FieldSet] /\ seen'[g] = seen[g] \cup fields
    BY <1>1, <1>2, <1>3 DEF SetupInv, HeldTyped
  <2> SUFFICES ASSUME NEW h \in GUIs
               PROVE  /\ DOMAIN objects'[h] = Setup!FieldSet
                      /\ \A f \in seen'[h] : objects'[h][f].type = RightType(f)
    BY <2>1 DEF HeldTyped
  <2>2. CASE h = g
    BY <1>5, <1>6, <2>1, <2>2
  <2>3. CASE h # g
    BY <2>1, <2>3 DEF SetupInv, HeldTyped
  <2> QED
    BY <2>2, <2>3
<1> QED
  BY <1>4, <1>7 DEF SetupInv

LEMMA GiveUpKeepsInv ==
    ASSUME SetupInv, NEW t, Setup!GiveUp(t)
    PROVE  SetupInv'
<1>1. Setup!removePDU(t) /\ UNCHANGED <<config, objects, seen, asked>>
  BY DEF Setup!GiveUp
<1>2. ConfigTyped' /\ HeldTyped'
  BY <1>1 DEF SetupInv, ConfigTyped, Setup!TypesStay, HeldTyped
<1> QED
  BY <1>1, <1>2, RemoveKeepsShapes DEF SetupInv

LEMMA StepSetupInv == SetupInv /\ [Setup!Next]_Setup!setupVars => SetupInv'
<1> SUFFICES ASSUME SetupInv, [Setup!Next]_Setup!setupVars PROVE SetupInv'
  OBVIOUS
<1>1. ASSUME NEW g \in GUIs, Setup!req_eventSetup(g) PROVE SetupInv'
  BY <1>1, AskKeepsInv DEF Setup!req_eventSetup, RequestShape
<1>2. ASSUME NEW g \in GUIs, NEW i \in 1..3, Setup!requestLevel(g, Setup!Levels[i]) PROVE SetupInv'
  <2>1. Setup!Levels[i] \in LevelSet
    BY DEF LevelSet
  <2> QED
    BY <1>2, <2>1, AskKeepsInv DEF Setup!requestLevel, RequestShape
<1>3. ASSUME NEW g \in GUIs, NEW v \in Values, NEW mask \in Masks, Setup!updateConfig(g, v, mask)
      PROVE  SetupInv'
  BY <1>3, UpdateKeepsInv
<1>4. ASSUME NEW t \in DOMAIN asked, Setup!Serve(t) PROVE SetupInv'
  BY <1>4, ServeKeepsInv
<1>5. ASSUME NEW x \in answers, Setup!Parse(x) PROVE SetupInv'
  BY <1>5, ParseKeepsInv
<1>6. ASSUME NEW t \in waiting, Setup!GiveUp(t) PROVE SetupInv'
  BY <1>6, GiveUpKeepsInv
<1>7. CASE UNCHANGED Setup!setupVars
  BY <1>7 DEF Setup!setupVars, SetupInv, ConfigTyped, Setup!TypesStay, AskedShape, AnswerShape,
              HeldTyped, RequestShape, Typed
<1> QED
  BY <1>1, <1>2, <1>3, <1>4, <1>5, <1>6, <1>7 DEF Setup!Next

-----------------------------------------------------------------------------

(* No request changes the type of a level, whole, short or refused half    *)
(* way (suconfig of dev/susensorcommon.c).                                 *)
THEOREM TypesNeverChange == Setup!Spec => []Setup!TypesStay
<1>1. Setup!Init => SetupInv
  BY InitSetupInv
<1>2. SetupInv /\ [Setup!Next]_Setup!setupVars => SetupInv'
  BY StepSetupInv
<1>3. SetupInv => Setup!TypesStay
  BY DEF SetupInv, ConfigTyped
<1> QED
  BY <1>1, <1>2, <1>3, PTL DEF Setup!Spec

(* An update is accepted whole and stored as sent, or it leaves the active *)
(* events as they were and is refused at an object its GUI had not read    *)
(* when it coded it, however many requests of the GUIs are under way,      *)
(* served late, out of order, again or not at all (suconfig against        *)
(* updateConfig and parseAppOctetFormat of sensor.cpp).                    *)
THEOREM AcceptedUpdatesAreStored == Setup!Spec => Setup!AcceptedIsStored
<1> DEFINE Right ==
        \A t \in DOMAIN asked :
          asked[t].kind = "eventsetup" /\ Setup!Serve(t) =>
              /\ Setup!Code(asked[t].payload) = "CHANGED"
                     => \A i \in 1..4 : config'[Setup!Fields[i]] = asked[t].payload[i]
              /\ Setup!Code(asked[t].payload) = "BAD_REQUEST"
                     => /\ config'["eventsActive"] = config["eventsActive"]
                        /\ Setup!Fields[Setup!ret(asked[t].payload)] \notin asked[t].seen
<1>1. Setup!Init => SetupInv
  BY InitSetupInv
<1>2. SetupInv /\ [Setup!Next]_Setup!setupVars => SetupInv'
  BY StepSetupInv
<1>3. SetupInv => Right
  <2> SUFFICES ASSUME SetupInv, NEW t \in DOMAIN asked, asked[t].kind = "eventsetup", Setup!Serve(t)
               PROVE  /\ Setup!Code(asked[t].payload) = "CHANGED"
                            => \A i \in 1..4 : config'[Setup!Fields[i]] = asked[t].payload[i]
                      /\ Setup!Code(asked[t].payload) = "BAD_REQUEST"
                            => /\ config'["eventsActive"] = config["eventsActive"]
                               /\ Setup!Fields[Setup!ret(asked[t].payload)] \notin asked[t].seen
    OBVIOUS
  <2> DEFINE objs == asked[t].payload
  <2>1. config' = Setup!Stored(objs)
    BY DEF Setup!Serve
  <2>2. Len(objs) = 4 /\ Typed(objs, asked[t].seen)
    <3>1. RequestShape(asked[t])
      BY DEF SetupInv, AskedShape
    <3> QED
      BY <3>1 DEF RequestShape
  <2> HIDE DEF objs
  <2>3. Setup!ret(objs) # 0 => Setup!Fields[Setup!ret(objs)] \notin asked[t].seen
    BY <2>2, TypedIsNotWrong DEF SetupInv
  <2>4. Setup!Code(objs) = IF Setup!ret(objs) = 0 THEN "CHANGED" ELSE "BAD_REQUEST"
    BY DEF Setup!Code
  <2> QED
    BY <2>1, <2>3, <2>4, AcceptedAndRefused DEF objs
<1> HIDE DEF Right
<1>4. Setup!Init /\ [][Setup!Next]_Setup!setupVars => [][Right]_Setup!setupVars
  BY <1>1, <1>2, <1>3, PTL
<1> QED
  BY <1>4 DEF Setup!Spec, Setup!AcceptedIsStored, Right

(* An answer that may still come is one to a request that its GUI waits    *)
(* for: one that is over or was given up is not answered any more          *)
(* (wsn::removePDU against the handlers of res-susensors.c).               *)
THEOREM SetupTypes == ASSUME MaxSetups \in Nat PROVE Setup!Spec => []Setup!TypeOK
<1> DEFINE Bounded == Len(asked) <= MaxSetups
<1>1. Setup!Init => SetupInv /\ Bounded
  BY InitSetupInv DEF Setup!Init
<1>2. SetupInv /\ [Setup!Next]_Setup!setupVars => SetupInv'
  BY StepSetupInv
<1>3. SetupInv /\ Bounded /\ [Setup!Next]_Setup!setupVars => Bounded'
  <2> SUFFICES ASSUME SetupInv, Bounded, [Setup!Next]_Setup!setupVars PROVE Bounded'
    OBVIOUS
  <2>1. ASSUME NEW g \in GUIs, NEW request, Setup!Ask(g, request) PROVE Bounded'
    <3>1. Len(asked) < MaxSetups /\ asked' = Append(asked, request)
      BY <2>1 DEF Setup!Ask
    <3>2. Len(asked') = Len(asked) + 1 /\ Len(asked) \in Nat
      BY <3>1, AskedGrows DEF SetupInv
    <3> QED
      BY <3>1, <3>2
  <2>2. CASE asked' = asked
    BY <2>2
  <2> QED
    BY <2>1, <2>2 DEF Setup!Next, Setup!req_eventSetup, Setup!requestLevel, Setup!updateConfig,
                      Setup!Serve, Setup!Parse, Setup!GiveUp, Setup!setupVars
<1>4. SetupInv /\ Bounded => Setup!TypeOK
  <2> SUFFICES ASSUME SetupInv, Bounded PROVE Setup!TypeOK
    OBVIOUS
  <2>1. DOMAIN asked = 1..Len(asked) /\ \A t \in DOMAIN asked : asked[t].gui \in GUIs
    BY DEF SetupInv, AskedShape, RequestShape
  <2> QED
    BY <2>1 DEF SetupInv, ConfigTyped, AskedShape, AnswerShape, HeldTyped, Setup!TypeOK
<1> HIDE DEF Bounded
<1> QED
  BY <1>1, <1>2, <1>3, <1>4, PTL DEF Setup!Spec

-----------------------------------------------------------------------------
(*                        The relays and LEDs                              *)
-----------------------------------------------------------------------------
(* The events a pair is notified of.                                       *)
Triggers(p) == {e \in Act!Events : p.trig[e] # "none"}
LevelName(v) == IF v = 1 THEN "above" ELSE "below"

-----------------------------------------------------------------------------
(* The inductive invariant.                                                *)

QueuesTyped ==
    /\ enabled \subseteq Relays
    /\ value \in [Act!Devices -> {0, 1}]
    /\ DOMAIN net = Pairs /\ \A p \in Pairs : net[p] \in Seq(Triggers(p))
    /\ stale \subseteq Pairs

(* The last notification on its way to a device that copies names the      *)
(* level of the source, even if others were lost.                          *)
LastIsLevel ==
    \A p \in Pairs :
        Act!Copies(p) /\ net[p] # <<>> => net[p][Len(net[p])] = LevelName(value[p.src])

CopiesAgree ==
    \A p \in Pairs \ stale : Act!Copies(p) /\ net[p] = <<>> => value[p.dst] = value[p.src]

(* A device that toggles is behind by the toggles on their way.            *)
TogglesCount ==
    \A p \in Pairs \ stale :
        Act!Toggles(p) => (value[p.dst] = value[p.src] <=> Len(net[p]) % 2 = 0)

ActInv == QueuesTyped /\ LastIsLevel /\ CopiesAgree /\ TogglesCount

LEMMA ActInvAgrees == ActInv => Act!FollowersAgree
<1> SUFFICES ASSUME ActInv, NEW p \in Pairs \ stale, net[p] = <<>>, Act!Copies(p) \/ Act!Toggles(p)
             PROVE  value[p.dst] = value[p.src]
  BY DEF Act!FollowersAgree
<1>1. CASE Act!Copies(p)
  BY <1>1 DEF ActInv, CopiesAgree
<1>2. CASE Act!Toggles(p)
  <2>1. Len(net[p]) % 2 = 0
    OBVIOUS
  <2> QED
    BY <1>2, <2>1 DEF ActInv, TogglesCount
<1> QED
  BY <1>1, <1>2

-----------------------------------------------------------------------------
(* What a change of a source's level sends.                                *)

LEMMA SentIsShort ==
    ASSUME NEW p, NEW e \in Act!Events, NEW raisedNow
    PROVE  /\ Act!Sent(p, e, raisedNow) \in Seq(Triggers(p))
           /\ Act!Sent(p, e, raisedNow) \in {<<>>, <<e>>}
           /\ e \in raisedNow /\ p.trig[e] # "none" => Act!Sent(p, e, raisedNow) = <<e>>
           /\ ~(e \in raisedNow) \/ p.trig[e] = "none" => Act!Sent(p, e, raisedNow) = <<>>
<1>1. CASE e \in raisedNow /\ p.trig[e] # "none"
  <2>1. Act!Sent(p, e, raisedNow) = <<e>> /\ e \in Triggers(p)
    BY <1>1 DEF Act!Sent, Triggers
  <2> QED
    BY <1>1, <2>1
<1>2. CASE ~(e \in raisedNow /\ p.trig[e] # "none")
  <2>1. Act!Sent(p, e, raisedNow) = <<>>
    BY <1>2 DEF Act!Sent
  <2> QED
    BY <1>2, <2>1
<1> QED
  BY <1>1, <1>2

LEMMA AppendedIsLast ==
    ASSUME NEW S, NEW r \in Seq(S), NEW x \in S
    PROVE  r \o <<x>> # <<>> /\ (r \o <<x>>)[Len(r \o <<x>>)] = x
<1>1. r \o <<x>> = Append(r, x)
  BY AppendIsConcat
<1> QED
  BY <1>1, AppendProperties

LEMMA SentOfIsSent ==
    ASSUME NEW p, NEW raisedNow
    PROVE  Act!SentOf(p, raisedNow) = (Act!Sent(p, "change", raisedNow) \o Act!Sent(p, "below", raisedNow))
                            \o Act!Sent(p, "above", raisedNow)
BY DEF Act!SentOf, Act!WalkOrder

LEMMA SentOfTypes ==
    ASSUME NEW p, NEW raisedNow
    PROVE  Act!SentOf(p, raisedNow) \in Seq(Triggers(p))
<1>1. \A e \in Act!Events : Act!Sent(p, e, raisedNow) \in Seq(Triggers(p))
  BY SentIsShort
<1>2. {"change", "below", "above"} \subseteq Act!Events
  BY DEF Act!Events
<1>3. Act!Sent(p, "change", raisedNow) \o Act!Sent(p, "below", raisedNow) \in Seq(Triggers(p))
  BY <1>1, <1>2, ConcatProperties
<1> QED
  BY <1>1, <1>2, <1>3, SentOfIsSent, ConcatProperties

(* A copier is told the level last.                                        *)
LEMMA SentToCopier ==
    ASSUME NEW p \in Pairs, Act!Copies(p), NEW v \in {0, 1}
    PROVE  LET s == Act!SentOf(p, Act!EventsOf(p.src, v)) IN
           s # <<>> /\ s[Len(s)] = LevelName(v)
<1> DEFINE raisedNow == Act!EventsOf(p.src, v)
           c == Act!Sent(p, "change", raisedNow)
           b == Act!Sent(p, "below", raisedNow)
           a == Act!Sent(p, "above", raisedNow)
<1>1. p.trig["above"] # "none" /\ p.trig["below"] # "none"
  BY DEF Act!Copies
<1>2. LevelName(v) \in raisedNow
  BY DEF Act!Copies, Act!EventsOf, LevelName
<1>3. c \in Seq(Triggers(p)) /\ {"above", "below"} \subseteq Triggers(p)
  BY <1>1, SentIsShort DEF Act!Events, Triggers
<1>4. CASE v = 1
  <2>1. "below" \notin raisedNow /\ "above" \in raisedNow
    BY <1>2, <1>4 DEF Act!EventsOf, LevelName
  <2>2. b = <<>> /\ a = <<"above">>
    BY <1>1, <2>1, SentIsShort DEF Act!Events
  <2>3. Act!SentOf(p, raisedNow) = (c \o b) \o a
    BY SentOfIsSent
  <2> HIDE DEF a, b, c
  <2>4. Act!SentOf(p, raisedNow) = c \o <<"above">>
    BY <1>3, <2>2, <2>3, ConcatEmptySeq
  <2>5. LevelName(v) = "above"
    BY <1>4 DEF LevelName
  <2> QED
    BY <1>3, <2>4, <2>5, AppendedIsLast
<1>5. CASE v = 0
  <2>1. "above" \notin raisedNow /\ "below" \in raisedNow
    BY <1>2, <1>5 DEF Act!EventsOf, LevelName
  <2>2. a = <<>> /\ b = <<"below">>
    BY <1>1, <2>1, SentIsShort DEF Act!Events
  <2>3. Act!SentOf(p, raisedNow) = (c \o b) \o a
    BY SentOfIsSent
  <2> HIDE DEF a, b, c
  <2>4. c \o <<"below">> \in Seq(Triggers(p))
    BY <1>3, ConcatProperties
  <2>5. Act!SentOf(p, raisedNow) = c \o <<"below">>
    BY <2>2, <2>3, <2>4, ConcatEmptySeq
  <2>6. LevelName(v) = "below"
    BY <1>5 DEF LevelName
  <2> QED
    BY <1>3, <2>5, <2>6, AppendedIsLast
<1> QED
  BY <1>4, <1>5

(* A toggler is told once.                                                 *)
LEMMA SentToToggler ==
    ASSUME NEW p \in Pairs, Act!Toggles(p), NEW v \in {0, 1}
    PROVE  Act!SentOf(p, Act!EventsOf(p.src, v)) = <<"change">>
<1> DEFINE raisedNow == Act!EventsOf(p.src, v)
<1>1. /\ p.trig["above"] = "none" /\ p.trig["below"] = "none"
      /\ p.trig["change"] # "none" /\ "change" \in raisedNow
  BY DEF Act!Toggles, Act!Events, Act!EventsOf
<1>2. /\ Act!Sent(p, "above", raisedNow) = <<>> /\ Act!Sent(p, "below", raisedNow) = <<>>
      /\ Act!Sent(p, "change", raisedNow) = <<"change">>
  BY <1>1, SentIsShort DEF Act!Events
<1>3. Act!SentOf(p, raisedNow) = (<<"change">> \o <<>>) \o <<>>
  BY <1>2, SentOfIsSent
<1> QED
  BY <1>3

-----------------------------------------------------------------------------
(* What setting a device does.                                             *)

QueuesOfPairs(queues) == DOMAIN queues = Pairs /\ \A p \in Pairs : queues[p] \in Seq(Triggers(p))

LEMMA ActLevelIsLevel ==
    ASSUME QueuesTyped, NEW d \in Act!Devices, NEW a \in Act!Actions
    PROVE  /\ Act!Level(d, a) \in {0, 1}
           /\ Act!Takes(d) /\ a = "setOn" => Act!Level(d, a) = 1
           /\ Act!Takes(d) /\ a = "setOff" => Act!Level(d, a) = 0
           /\ Act!Takes(d) /\ a = "setToggle" => Act!Level(d, a) = 1 - value[d]
<1>1. value[d] \in {0, 1}
  BY DEF QueuesTyped
<1>2. a \in {"setOn", "setOff", "setToggle"}
  BY DEF Act!Actions
<1> QED
  BY <1>1, <1>2 DEF Act!Level

LEMMA SetValue ==
    ASSUME QueuesTyped, NEW d \in Act!Devices, NEW a \in Act!Actions, NEW queues, Act!set(d, a, queues)
    PROVE  /\ value' \in [Act!Devices -> {0, 1}]
           /\ value'[d] = Act!Level(d, a)
           /\ \A e \in Act!Devices \ {d} : value'[e] = value[e]
<1>1. value' = [value EXCEPT ![d] = Act!Level(d, a)]
  BY DEF Act!set
<1> QED
  BY <1>1, ActLevelIsLevel DEF QueuesTyped

(* The queues of the pairs the device is the source of grow when its level *)
(* changes, the others stay.                                               *)
LEMMA SetQueues ==
    ASSUME Topology, QueuesTyped, NEW d \in Act!Devices, NEW a \in Act!Actions,
           NEW queues, QueuesOfPairs(queues), Act!set(d, a, queues)
    PROVE  /\ DOMAIN net' = Pairs
           /\ \A q \in Pairs :
                 net'[q] = IF q.src = d /\ value'[d] # value[d]
                           THEN queues[q] \o Act!SentOf(q, Act!EventsOf(d, value'[d]))
                           ELSE queues[q]
<1>1. value'[d] = Act!Level(d, a)
  BY SetValue
<1>2. net' = IF d \in Relays /\ Act!Level(d, a) # value[d]
             THEN [p \in Pairs |-> queues[p] \o Act!Notifications(d, Act!Level(d, a))[p]]
             ELSE queues
  BY DEF Act!set
<1>3. \A q \in Pairs : queues[q] \in Seq(Triggers(q))
  BY DEF QueuesOfPairs
<1>4. CASE d \in Relays /\ Act!Level(d, a) # value[d]
  <2>1. \A q \in Pairs : net'[q] = queues[q] \o Act!Notifications(d, Act!Level(d, a))[q]
    BY <1>2, <1>4
  <2>2. \A q \in Pairs :
           Act!Notifications(d, Act!Level(d, a))[q]
             = IF q.src = d THEN Act!SentOf(q, Act!EventsOf(d, Act!Level(d, a))) ELSE <<>>
    BY DEF Act!Notifications
  <2>3. \A q \in Pairs : queues[q] \o <<>> = queues[q]
    BY <1>3, ConcatEmptySeq
  <2>4. DOMAIN net' = Pairs
    BY <1>2, <1>4
  <2> QED
    BY <1>1, <1>4, <2>1, <2>2, <2>3, <2>4
<1>5. CASE ~(d \in Relays /\ Act!Level(d, a) # value[d])
  <2>1. net' = queues
    BY <1>2, <1>5
  <2>2. \A q \in Pairs : ~(q.src = d /\ value'[d] # value[d])
    BY <1>1, <1>5 DEF Topology
  <2> QED
    BY <2>1, <2>2 DEF QueuesOfPairs
<1> QED
  BY <1>4, <1>5

(* The facts the invariant needs of it.                                    *)
LEMMA SetFacts ==
    ASSUME Topology, QueuesTyped, NEW d \in Act!Devices, NEW a \in Act!Actions,
           NEW queues, QueuesOfPairs(queues), Act!set(d, a, queues)
    PROVE  /\ DOMAIN net' = Pairs
           /\ \A q \in Pairs :
                 /\ net'[q] \in Seq(Triggers(q))
                 /\ q.src # d \/ value'[d] = value[d] => net'[q] = queues[q]
                 /\ q.src = d /\ value'[d] # value[d] =>
                       /\ Act!Copies(q) => /\ net'[q] # <<>>
                                       /\ net'[q][Len(net'[q])] = LevelName(value'[d])
                       /\ Act!Toggles(q) => Len(net'[q]) = Len(queues[q]) + 1
<1>1. /\ DOMAIN net' = Pairs
      /\ \A q \in Pairs :
            net'[q] = IF q.src = d /\ value'[d] # value[d]
                      THEN queues[q] \o Act!SentOf(q, Act!EventsOf(d, value'[d]))
                      ELSE queues[q]
  BY SetQueues
<1>2. value'[d] \in {0, 1}
  BY SetValue
<1>3. ASSUME NEW q \in Pairs
      PROVE  /\ net'[q] \in Seq(Triggers(q))
             /\ q.src # d \/ value'[d] = value[d] => net'[q] = queues[q]
             /\ q.src = d /\ value'[d] # value[d] =>
                   /\ Act!Copies(q) => /\ net'[q] # <<>>
                                   /\ net'[q][Len(net'[q])] = LevelName(value'[d])
                   /\ Act!Toggles(q) => Len(net'[q]) = Len(queues[q]) + 1
  <2>1. queues[q] \in Seq(Triggers(q))
    BY DEF QueuesOfPairs
  <2>2. CASE q.src # d \/ value'[d] = value[d]
    BY <1>1, <2>1, <2>2
  <2>3. CASE q.src = d /\ value'[d] # value[d]
    <3> DEFINE s == Act!SentOf(q, Act!EventsOf(d, value'[d]))
    <3>1. s \in Seq(Triggers(q))
      BY SentOfTypes
    <3>2. net'[q] = queues[q] \o s
      BY <1>1, <2>3
    <3>3. Act!Copies(q) => s # <<>> /\ s[Len(s)] = LevelName(value'[d])
      BY <1>2, <2>3, SentToCopier
    <3>4. Act!Toggles(q) => s = <<"change">>
      BY <1>2, <2>3, SentToToggler
    <3> HIDE DEF s
    <3>5. /\ net'[q] \in Seq(Triggers(q)) /\ Len(net'[q]) = Len(queues[q]) + Len(s)
          /\ Len(queues[q]) \in Nat /\ Len(s) \in Nat
          /\ \A i \in 1..Len(net'[q]) :
                net'[q][i] = IF i <= Len(queues[q]) THEN queues[q][i]
                             ELSE s[i - Len(queues[q])]
      BY <2>1, <3>1, <3>2, ConcatProperties
    <3>6. s # <<>> => Len(s) >= 1
      BY <3>1
    <3>7. CASE Act!Copies(q)
      <4>1. Len(s) >= 1 /\ s[Len(s)] = LevelName(value'[d])
        BY <3>3, <3>6, <3>7
      <4>2. /\ Len(net'[q]) \in 1..Len(net'[q]) /\ ~(Len(net'[q]) <= Len(queues[q]))
            /\ Len(net'[q]) - Len(queues[q]) = Len(s)
        BY <3>5, <4>1
      <4>3. net'[q][Len(net'[q])] = s[Len(net'[q]) - Len(queues[q])]
        BY <3>5, <4>2, Zenon
      <4>4. net'[q] # <<>> /\ Len(net'[q]) - Len(queues[q]) = Len(s)
        BY <3>5, <4>2
      <4>5. ~Act!Toggles(q)
        BY <3>7 DEF Act!Copies, Act!Toggles, Act!Events
      <4> QED
        BY <2>3, <3>5, <4>1, <4>3, <4>4, <4>5
    <3>8. CASE ~Act!Copies(q)
      BY <2>3, <3>4, <3>5, <3>8
    <3> QED
      BY <3>7, <3>8
  <2> QED
    BY <2>2, <2>3
<1> QED
  BY <1>1, <1>3

-----------------------------------------------------------------------------
(* The steps.                                                              *)

LEMMA Parity == \A n \in Nat : (n + 1) % 2 = 0 <=> n % 2 # 0
OBVIOUS

LEMMA ActInitInv == ASSUME Topology PROVE Act!Init => ActInv
<1> SUFFICES ASSUME Act!Init PROVE ActInv
  OBVIOUS
<1>1. /\ \A d \in Act!Devices : value[d] = 0
      /\ value \in [Act!Devices -> {0, 1}]
      /\ \A p \in Pairs : net[p] = <<>> /\ net[p] \in Seq(Triggers(p))
      /\ DOMAIN net = Pairs /\ enabled = {} /\ stale = {}
  BY DEF Act!Init
<1>2. \A p \in Pairs : p.src \in Act!Devices /\ p.dst \in Act!Devices /\ Len(net[p]) % 2 = 0
  BY <1>1 DEF Topology, Act!Devices
<1>3. QueuesTyped
  BY <1>1 DEF QueuesTyped
<1> QED
  BY <1>1, <1>2, <1>3 DEF ActInv, LastIsLevel, CopiesAgree, TogglesCount

(* A user sets a device: what follows it goes on as before, and the pair   *)
(* to it is stale.                                                         *)
LEMMA UserSetsKeepsInv ==
    ASSUME Topology, ActInv, NEW d \in Act!Devices, NEW a \in Act!Actions,
           Act!set(d, a, net), stale' = stale \cup Act!InTo(d), UNCHANGED enabled
    PROVE  ActInv'
<1>0. /\ QueuesTyped /\ LastIsLevel /\ CopiesAgree /\ TogglesCount /\ QueuesOfPairs(net)
      /\ \A p \in Pairs : p.src \in Act!Devices /\ p.dst \in Act!Devices
  BY DEF ActInv, QueuesTyped, QueuesOfPairs, Topology, Act!Devices
<1>1. /\ value' \in [Act!Devices -> {0, 1}]
      /\ \A e \in Act!Devices \ {d} : value'[e] = value[e]
  BY <1>0, SetValue
<1>2. /\ DOMAIN net' = Pairs
      /\ \A q \in Pairs :
            /\ net'[q] \in Seq(Triggers(q))
            /\ q.src # d \/ value'[d] = value[d] => net'[q] = net[q]
            /\ q.src = d /\ value'[d] # value[d] =>
                  /\ Act!Copies(q) => /\ net'[q] # <<>>
                                  /\ net'[q][Len(net'[q])] = LevelName(value'[d])
                  /\ Act!Toggles(q) => Len(net'[q]) = Len(net[q]) + 1
  BY <1>0, SetFacts
<1>3. \A q \in Pairs \ stale' : q \in Pairs \ stale /\ q.dst # d
  BY DEF Act!InTo
<1>4. QueuesTyped'
  BY <1>0, <1>1, <1>2 DEF QueuesTyped, Act!InTo
<1>5. LastIsLevel'
  BY <1>0, <1>1, <1>2 DEF LastIsLevel, Act!Copies
<1>6. CopiesAgree'
  BY <1>0, <1>1, <1>2, <1>3 DEF CopiesAgree, Act!Copies
<1>7. TogglesCount'
  <2> SUFFICES ASSUME NEW q \in Pairs \ stale', Act!Toggles(q)
               PROVE  value'[q.dst] = value'[q.src] <=> Len(net'[q]) % 2 = 0
    BY DEF TogglesCount, Act!Toggles
  <2>1. /\ value[q.dst] = value[q.src] <=> Len(net[q]) % 2 = 0
        /\ value'[q.dst] = value[q.dst]
    BY <1>0, <1>1, <1>3 DEF TogglesCount
  <2>2. /\ value[q.dst] \in {0, 1} /\ value[q.src] \in {0, 1} /\ value'[q.src] \in {0, 1}
        /\ Len(net[q]) \in Nat
    BY <1>0, <1>1 DEF QueuesTyped
  <2>3. CASE q.src = d /\ value'[d] # value[d]
    <3>1. Len(net'[q]) = Len(net[q]) + 1
      BY <1>2, <2>3
    <3>2. Len(net'[q]) % 2 = 0 <=> Len(net[q]) % 2 # 0
      BY ONLY <2>2, <3>1, Parity
    <3>3. value'[q.src] = value[q.src] <=> FALSE
      BY <2>3
    <3>4. value'[q.dst] = value'[q.src] <=> value[q.dst] # value[q.src]
      BY <2>1, <2>2, <3>3
    <3> QED
      BY <2>1, <3>2, <3>4
  <2>4. CASE ~(q.src = d /\ value'[d] # value[d])
    <3>1. net'[q] = net[q] /\ value'[q.src] = value[q.src]
      BY <1>0, <1>1, <1>2, <2>4
    <3> QED
      BY <2>1, <3>1
  <2> QED
    BY <2>3, <2>4
<1> QED
  BY <1>4, <1>5, <1>6, <1>7 DEF ActInv

(* What is left of a queue.                                                *)
LEMMA RestFacts ==
    ASSUME QueuesTyped, NEW p \in Pairs, net[p] # <<>>
    PROVE  /\ QueuesOfPairs(Act!Rest(p))
           /\ Act!Rest(p)[p] = Tail(net[p])
           /\ \A q \in Pairs \ {p} : Act!Rest(p)[q] = net[q]
           /\ Len(net[p]) \in Nat \ {0} /\ Len(Act!Rest(p)[p]) = Len(net[p]) - 1
           /\ Act!Rest(p)[p] # <<>> => Act!Rest(p)[p][Len(Act!Rest(p)[p])] = net[p][Len(net[p])]
           /\ Act!Rest(p)[p] = <<>> => Len(net[p]) = 1
           /\ Head(net[p]) = net[p][1] /\ Head(net[p]) \in Triggers(p)
<1>1. net[p] \in Seq(Triggers(p)) /\ DOMAIN net = Pairs
  BY DEF QueuesTyped
<1>2. Act!Rest(p)[p] = Tail(net[p]) /\ DOMAIN Act!Rest(p) = Pairs
  BY <1>1 DEF Act!Rest
<1>3. \A q \in Pairs \ {p} : Act!Rest(p)[q] = net[q]
  BY <1>1 DEF Act!Rest
<1>4. /\ Tail(net[p]) \in Seq(Triggers(p)) /\ Len(Tail(net[p])) = Len(net[p]) - 1
      /\ \A i \in 1..Len(Tail(net[p])) : Tail(net[p])[i] = net[p][i + 1]
      /\ Head(net[p]) = net[p][1] /\ Head(net[p]) \in Triggers(p)
      /\ Len(net[p]) \in Nat \ {0}
  BY <1>1, HeadTailProperties
<1>5. Tail(net[p]) # <<>> => Len(Tail(net[p])) \in 1..Len(Tail(net[p]))
  BY <1>4
<1>6. QueuesOfPairs(Act!Rest(p))
  BY <1>2, <1>3, <1>4 DEF QueuesOfPairs, QueuesTyped
<1>7. ASSUME Act!Rest(p)[p] # <<>>
      PROVE  Act!Rest(p)[p][Len(Act!Rest(p)[p])] = net[p][Len(net[p])]
  <2> DEFINE n == Len(Tail(net[p]))
  <2>1. n \in 1..n /\ n + 1 = Len(net[p])
    BY <1>2, <1>4, <1>5, <1>7
  <2>2. Tail(net[p])[n] = net[p][n + 1]
    BY <1>4, <2>1
  <2> QED
    BY <1>2, <2>1, <2>2
<1>8. ASSUME Act!Rest(p)[p] = <<>> PROVE Len(net[p]) = 1
  <2> DEFINE m == Len(Tail(net[p]))
             n == Len(net[p])
  <2>1. m = n - 1 /\ n \in Nat
    BY <1>4
  <2>2. Tail(net[p]) = <<>>
    BY <1>2, <1>8
  <2>3. \A t : t = <<>> => Len(t) = 0
    OBVIOUS
  <2>4. m = 0
    BY ONLY <2>2, <2>3, Zenon
  <2> HIDE DEF m, n
  <2>5. n = 1
    BY <2>1, <2>4
  <2> QED
    BY <2>5 DEF n
<1> QED
  BY <1>2, <1>3, <1>4, <1>6, <1>7, <1>8

LEMMA LostKeepsInv ==
    ASSUME Topology, ActInv, NEW p \in Pairs, Act!Lost(p)
    PROVE  ActInv'
<1>0. /\ QueuesTyped /\ LastIsLevel /\ CopiesAgree /\ TogglesCount
  BY DEF ActInv
<1>1. net[p] # <<>> /\ net' = Act!Rest(p) /\ stale' = stale \cup {p} /\ UNCHANGED <<enabled, value>>
  BY DEF Act!Lost
<1>2. /\ QueuesOfPairs(net') /\ \A q \in Pairs \ {p} : net'[q] = net[q]
      /\ net'[p] # <<>> => net'[p][Len(net'[p])] = net[p][Len(net[p])]
  BY <1>0, <1>1, RestFacts
<1>3. QueuesTyped'
  BY <1>0, <1>1, <1>2 DEF QueuesTyped, QueuesOfPairs
<1>4. LastIsLevel'
  BY <1>0, <1>1, <1>2 DEF LastIsLevel, Act!Copies
<1>5. CopiesAgree' /\ TogglesCount'
  <2>1. ASSUME NEW q \in Pairs \ stale'
        PROVE  q \in Pairs \ stale /\ net'[q] = net[q]
    BY <1>1, <1>2
  <2>2. CopiesAgree'
    BY <1>0, <1>1, <2>1 DEF CopiesAgree, Act!Copies
  <2>3. TogglesCount'
    BY <1>0, <1>1, <2>1 DEF TogglesCount, Act!Toggles
  <2> QED
    BY <2>2, <2>3
<1> QED
  BY <1>3, <1>4, <1>5 DEF ActInv

(* A notification arrives.  The pair itself is in step with its source     *)
(* again when a level was set; the pairs its destination is the source of  *)
(* go on as before.                                                        *)
LEMMA NotifiedKeepsInv ==
    ASSUME Topology, ActInv, NEW p \in Pairs, Act!Notified(p)
    PROVE  ActInv'
<1> DEFINE d == p.dst
           a == p.trig[Head(net[p])]
           rest == Act!Rest(p)
<1>0. /\ QueuesTyped /\ LastIsLevel /\ CopiesAgree /\ TogglesCount
      /\ \A q \in Pairs : q.src \in Act!Devices /\ q.dst \in Act!Devices
      /\ net[p] # <<>>
  BY DEF ActInv, Topology, Act!Devices, Act!Notified
<1>1. /\ QueuesOfPairs(rest) /\ \A q \in Pairs \ {p} : rest[q] = net[q]
      /\ Len(net[p]) \in Nat \ {0} /\ Len(rest[p]) = Len(net[p]) - 1
      /\ rest[p] # <<>> => rest[p][Len(rest[p])] = net[p][Len(net[p])]
      /\ rest[p] = <<>> => Len(net[p]) = 1
      /\ Head(net[p]) = net[p][1] /\ Head(net[p]) \in Triggers(p)
  BY <1>0, RestFacts
<1>2. d \in Act!Devices /\ a \in Act!Actions
  BY <1>0, <1>1 DEF Topology, Triggers
<1>3. /\ Act!set(d, a, rest)
      /\ stale' = IF ~Act!Takes(d) THEN stale \cup {p}
                  ELSE IF a \in {"setOn", "setOff"} THEN stale \ {p} ELSE stale
      /\ UNCHANGED <<enabled, requests>>
  BY DEF Act!Notified
<1> HIDE DEF d, a, rest
<1>4. /\ value' \in [Act!Devices -> {0, 1}]
      /\ value'[d] = Act!Level(d, a)
      /\ \A e \in Act!Devices \ {d} : value'[e] = value[e]
  BY <1>0, <1>2, <1>3, SetValue
<1>5. /\ DOMAIN net' = Pairs
      /\ \A q \in Pairs :
            /\ net'[q] \in Seq(Triggers(q))
            /\ q.src # d \/ value'[d] = value[d] => net'[q] = rest[q]
            /\ q.src = d /\ value'[d] # value[d] =>
                  /\ Act!Copies(q) => /\ net'[q] # <<>>
                                  /\ net'[q][Len(net'[q])] = LevelName(value'[d])
                  /\ Act!Toggles(q) => Len(net'[q]) = Len(rest[q]) + 1
  BY <1>0, <1>1, <1>2, <1>3, SetFacts
<1>6. \A q \in Pairs \ {p} : q.dst # d
  BY DEF Topology, d
<1>7. \A q \in Pairs \ {p} : q \notin stale' => q \notin stale
  BY <1>3
<1>8. QueuesTyped'
  BY <1>0, <1>3, <1>4, <1>5 DEF QueuesTyped
<1>9. LastIsLevel'
  <2> SUFFICES ASSUME NEW q \in Pairs, Act!Copies(q), net'[q] # <<>>
               PROVE  net'[q][Len(net'[q])] = LevelName(value'[q.src])
    BY DEF LastIsLevel, Act!Copies
  <2>1. CASE q.src = d /\ value'[d] # value[d]
    BY <1>5, <2>1
  <2>2. CASE ~(q.src = d /\ value'[d] # value[d])
    <3>1. net'[q] = rest[q] /\ value'[q.src] = value[q.src]
      BY <1>0, <1>4, <1>5, <2>2
    <3>2. net[q] # <<>> /\ rest[q][Len(rest[q])] = net[q][Len(net[q])]
      BY <1>0, <1>1, <3>1
    <3> QED
      BY <1>0, <3>1, <3>2 DEF LastIsLevel
  <2> QED
    BY <2>1, <2>2
(* The last of a copier's notifications is done: it was taken, and it set  *)
(* the level it names.                                                     *)
<1>10. CopiesAgree'
  <2> SUFFICES ASSUME NEW q \in Pairs \ stale', Act!Copies(q), net'[q] = <<>>
               PROVE  value'[q.dst] = value'[q.src]
    BY DEF CopiesAgree, Act!Copies
  <2>1. ~(q.src = d /\ value'[d] # value[d])
    BY <1>5
  <2>2. rest[q] = <<>> /\ value'[q.src] = value[q.src]
    BY <1>0, <1>4, <1>5, <2>1
  <2>3. CASE q # p
    <3>1. net[q] = <<>> /\ q \notin stale /\ value'[q.dst] = value[q.dst]
      BY <1>0, <1>1, <1>4, <1>6, <1>7, <2>2, <2>3
    <3> QED
      BY <1>0, <2>2, <3>1 DEF CopiesAgree
  <2>4. CASE q = p
    <3>1. Head(net[p]) = LevelName(value[p.src])
      BY <1>0, <1>1, <2>2, <2>4 DEF LastIsLevel
    <3>2. value[p.src] \in {0, 1}
      BY <1>0 DEF QueuesTyped
    <3>3. a = IF value[p.src] = 1 THEN "setOn" ELSE "setOff"
      BY <2>4, <3>1, <3>2 DEF a, LevelName, Act!Copies
    <3>4. Act!Takes(d)
      BY <1>3, <2>4
    <3>5. Act!Level(d, a) = value[p.src]
      BY <1>0, <1>2, <3>2, <3>3, <3>4, ActLevelIsLevel
    <3> QED
      BY <1>4, <2>2, <2>4, <3>5 DEF d
  <2> QED
    BY <2>3, <2>4
<1>11. TogglesCount'
  <2> SUFFICES ASSUME NEW q \in Pairs \ stale', Act!Toggles(q)
               PROVE  value'[q.dst] = value'[q.src] <=> Len(net'[q]) % 2 = 0
    BY DEF TogglesCount, Act!Toggles
  <2>1. /\ value[q.dst] \in {0, 1} /\ value[q.src] \in {0, 1}
        /\ value'[q.dst] \in {0, 1} /\ value'[q.src] \in {0, 1}
        /\ Len(net[q]) \in Nat /\ Len(net'[q]) \in Nat
    BY <1>0, <1>4, <1>5 DEF QueuesTyped
  <2>2. CASE q # p
    <3>1. /\ value'[q.dst] = value[q.dst] /\ rest[q] = net[q]
          /\ value[q.dst] = value[q.src] <=> Len(net[q]) % 2 = 0
      BY <1>0, <1>1, <1>4, <1>6, <1>7, <2>2 DEF TogglesCount
    <3>2. CASE q.src = d /\ value'[d] # value[d]
      <4>1. Len(net'[q]) = Len(net[q]) + 1
        BY <1>5, <3>1, <3>2
      <4>2. Len(net'[q]) % 2 = 0 <=> Len(net[q]) % 2 # 0
        BY ONLY <2>1, <4>1, Parity
      <4>3. value'[q.dst] = value'[q.src] <=> value[q.dst] # value[q.src]
        BY <2>1, <3>1, <3>2
      <4> QED
        BY <3>1, <4>2, <4>3
    <3>3. CASE ~(q.src = d /\ value'[d] # value[d])
      <4>1. net'[q] = net[q] /\ value'[q.src] = value[q.src]
        BY <1>0, <1>4, <1>5, <3>1, <3>3
      <4> QED
        BY <3>1, <4>1
    <3> QED
      BY <3>2, <3>3
  <2>3. CASE q = p
    <3>1. a = "setToggle"
      <4>1. Head(net[p]) \in Act!Events /\ p.trig[Head(net[p])] # "none"
        BY <1>1 DEF Triggers
      <4> QED
        BY <2>3, <4>1 DEF a, Act!Toggles
    <3>2. Act!Takes(d) /\ p \notin stale
      BY <1>3, <2>3, <3>1
    <3>3. value'[d] = 1 - value[d] /\ value'[d] # value[d]
      BY <1>0, <1>2, <1>4, <2>1, <2>3, <3>1, <3>2, ActLevelIsLevel DEF d
    <3>4. value[p.dst] = value[p.src] <=> Len(net[p]) % 2 = 0
      BY <1>0, <2>3, <3>2 DEF TogglesCount
    <3>5. CASE p.src = d
      <4>1. Len(net'[p]) = Len(net[p])
        BY <1>1, <1>5, <2>3, <3>3, <3>5
      <4> QED
        BY <2>3, <3>4, <3>5, <4>1 DEF d
    <3>6. CASE p.src # d
      <4>1. Len(net'[p]) = Len(net[p]) - 1 /\ value'[p.src] = value[p.src]
        BY <1>0, <1>1, <1>4, <1>5, <3>6
      <4>2. Len(net[p]) = Len(net'[p]) + 1
        BY <1>1, <4>1
      <4>3. Len(net[p]) % 2 = 0 <=> Len(net'[p]) % 2 # 0
        BY ONLY <2>1, <2>3, <4>2, Parity
      <4>4. value'[p.dst] = value'[p.src] <=> value[p.dst] # value[p.src]
        BY <2>1, <2>3, <3>3, <4>1 DEF d
      <4> QED
        BY <2>3, <3>4, <4>3, <4>4
    <3> QED
      BY <3>5, <3>6
  <2> QED
    BY <2>2, <2>3
<1> QED
  BY <1>8, <1>9, <1>10, <1>11 DEF ActInv

LEMMA ActStepInv == ASSUME Topology PROVE ActInv /\ [Act!Next]_Act!actVars => ActInv'
<1> SUFFICES ASSUME ActInv, [Act!Next]_Act!actVars PROVE ActInv'
  OBVIOUS
<1> USE DEF ActInv, QueuesTyped, LastIsLevel, CopiesAgree, TogglesCount, Act!Copies, Act!Toggles
<1>1. ASSUME NEW d \in Act!Devices, Act!Activate(d) PROVE ActInv'
  BY <1>1 DEF Act!Activate
<1>2. ASSUME NEW d \in Act!Devices, NEW a \in Act!Actions, Act!SetCommand(d, a) PROVE ActInv'
  BY ONLY Topology, ActInv, <1>2, UserSetsKeepsInv DEF Act!SetCommand
<1>3. ASSUME NEW d \in Act!Devices, NEW E \in SUBSET Act!Events, Act!PostEvent(d, E) PROVE ActInv'
  <2>1. Act!EventAction(d, E) \in Act!Actions
    BY DEF Act!EventAction, Act!RelayAction, Act!LedAction, Act!Actions
  <2> QED
    BY ONLY Topology, ActInv, <1>3, <2>1, UserSetsKeepsInv DEF Act!PostEvent
<1>4. ASSUME NEW p \in Pairs, Act!Notified(p) PROVE ActInv'
  BY ONLY Topology, ActInv, <1>4, NotifiedKeepsInv
<1>5. ASSUME NEW p \in Pairs, Act!Lost(p) PROVE ActInv'
  BY ONLY Topology, ActInv, <1>5, LostKeepsInv
<1>6. CASE UNCHANGED Act!actVars
  BY <1>6 DEF Act!actVars
<1> QED
  BY <1>1, <1>2, <1>3, <1>4, <1>5, <1>6 DEF Act!Next

(* Whatever chains and rings the pairs form, a device whose notifications  *)
(* have all been taken has the level of its source (setEventU8, the walk   *)
(* of susensors_process, set of relay.c and ledindicator.c).               *)
THEOREM FollowersFollow == ASSUME Topology PROVE Act!Spec => []Act!FollowersAgree
<1>1. Act!Init => ActInv
  BY ActInitInv
<1>2. ActInv /\ [Act!Next]_Act!actVars => ActInv'
  BY ActStepInv
<1>3. ActInv => Act!FollowersAgree
  BY ActInvAgrees
<1> QED
  BY <1>1, <1>2, <1>3, PTL DEF Act!Spec

(* A request is served only below the bound of the checks.                 *)
LEMMA RequestsAreFew ==
    ASSUME MaxRequests \in Nat, requests \in 0..MaxRequests, [Act!Next]_Act!actVars
    PROVE  requests' \in 0..MaxRequests
BY DEF Act!Next, Act!Activate, Act!SetCommand, Act!PostEvent, Act!Notified, Act!Lost, Act!actVars

(* A relay is configured, a level is one of the two, and an observer is    *)
(* sent the three events only, whatever the pairs are (lib/susensors.c).   *)
THEOREM ActuationTypes ==
    ASSUME Topology, MaxRequests \in Nat PROVE Act!Spec => []Act!TypeOK
<1> DEFINE Few == requests \in 0..MaxRequests
<1>1. Act!Init => ActInv /\ Few
  BY ActInitInv DEF Act!Init
<1>2. ActInv /\ [Act!Next]_Act!actVars => ActInv'
  BY ActStepInv
<1>3. Few /\ [Act!Next]_Act!actVars => Few'
  BY RequestsAreFew
<1>4. ActInv /\ Few => Act!TypeOK
  <2> SUFFICES ASSUME QueuesTyped, Few PROVE Act!TypeOK
    BY DEF ActInv
  <2>1. ASSUME NEW p \in Pairs PROVE \A i \in DOMAIN net[p] : net[p][i] \in Act!Events
    <3>1. net[p] \in Seq(Triggers(p)) /\ Triggers(p) \subseteq Act!Events
      BY DEF QueuesTyped, Triggers
    <3> QED
      BY <3>1, ElementOfSeq
  <2> QED
    BY <2>1 DEF QueuesTyped, Act!TypeOK
<1> HIDE DEF Few
<1> QED
  BY <1>1, <1>2, <1>3, <1>4, PTL DEF Act!Spec

-----------------------------------------------------------------------------
(*                        The node as a whole                              *)
-----------------------------------------------------------------------------

(* The node starts and moves as each of its components does.               *)
LEMMA InitOfParts ==
    Init => Pulse!Init /\ Button!Init /\ Mains!Init /\ Act!Init /\ Setup!Init
            /\ Frames!Init /\ Proxy!uartsensors_init /\ Strings!Init
BY DEF Init

LEMMA StepOfParts ==
    [Next]_nodeVars =>
        /\ [Pulse!Next]_Pulse!pulseVars /\ [Button!Next]_Button!buttonVars
        /\ [Act!Next]_Act!actVars /\ [Setup!Next]_Setup!setupVars
        /\ [Proxy!Next]_Proxy!uartVars /\ [Strings!Next]_Strings!stringVars
        /\ [Mains!Next]_Mains!mainsVars /\ [Frames!Next]_Frames!frameVars
<1> SUFFICES ASSUME [Next]_nodeVars
             PROVE  /\ [Pulse!Next]_Pulse!pulseVars /\ [Button!Next]_Button!buttonVars
                    /\ [Act!Next]_Act!actVars /\ [Setup!Next]_Setup!setupVars
                    /\ [Proxy!Next]_Proxy!uartVars /\ [Strings!Next]_Strings!stringVars
                    /\ [Mains!Next]_Mains!mainsVars /\ [Frames!Next]_Frames!frameVars
  OBVIOUS
<1>1. /\ pulseVars = Pulse!pulseVars /\ buttonVars = Button!buttonVars
      /\ actVars = Act!actVars /\ setupVars = Setup!setupVars /\ uartVars = Proxy!uartVars
      /\ stringVars = Strings!stringVars /\ mainsVars = Mains!mainsVars
      /\ frameVars = Frames!frameVars
  BY DEF pulseVars, buttonVars, actVars, setupVars, uartVars, Pulse!pulseVars,
         Button!buttonVars, Act!actVars, Setup!setupVars, Proxy!uartVars, stringVars,
         Strings!stringVars, mainsVars, Mains!mainsVars, frameVars, Frames!frameVars
<1>2. Pulse!Next \/ UNCHANGED pulseVars
  BY DEF Next, nodeVars, PulseOnly, ButtonOnly, MainsOnly, ActOnly, SetupOnly, FramesOnly,
         ProxyOnly, StringsOnly
<1>3. Button!Next \/ UNCHANGED buttonVars
  BY DEF Next, nodeVars, PulseOnly, ButtonOnly, MainsOnly, ActOnly, SetupOnly, FramesOnly,
         ProxyOnly, StringsOnly
<1>4. Act!Next \/ UNCHANGED actVars
  BY DEF Next, nodeVars, PulseOnly, ButtonOnly, MainsOnly, ActOnly, SetupOnly, FramesOnly,
         ProxyOnly, StringsOnly
<1>5. Setup!Next \/ UNCHANGED setupVars
  BY DEF Next, nodeVars, PulseOnly, ButtonOnly, MainsOnly, ActOnly, SetupOnly, FramesOnly,
         ProxyOnly, StringsOnly
<1>6. Proxy!Next \/ UNCHANGED uartVars
  BY DEF Next, nodeVars, PulseOnly, ButtonOnly, MainsOnly, ActOnly, SetupOnly, FramesOnly,
         ProxyOnly, StringsOnly
<1>7. Strings!Next \/ UNCHANGED stringVars
  BY DEF Next, nodeVars, PulseOnly, ButtonOnly, MainsOnly, ActOnly, SetupOnly, FramesOnly,
         ProxyOnly, StringsOnly
<1>8. Mains!Next \/ UNCHANGED mainsVars
  BY DEF Next, nodeVars, PulseOnly, ButtonOnly, MainsOnly, ActOnly, SetupOnly, FramesOnly,
         ProxyOnly, StringsOnly
<1>9. Frames!Next \/ UNCHANGED frameVars
  BY DEF Next, nodeVars, PulseOnly, ButtonOnly, MainsOnly, ActOnly, SetupOnly, FramesOnly,
         ProxyOnly, StringsOnly
<1> QED
  BY <1>1, <1>2, <1>3, <1>4, <1>5, <1>6, <1>7, <1>8, <1>9
     DEF stringVars, Strings!stringVars, pulseVars, buttonVars, actVars, setupVars, uartVars,
         Pulse!pulseVars, Button!buttonVars, Act!actVars, Setup!setupVars, Proxy!uartVars,
         mainsVars, Mains!mainsVars, frameVars, Frames!frameVars

(* Every behaviour of the node is one of each of its components.           *)
LEMMA NodeFollowsParts ==
    Spec => Pulse!Spec /\ Button!Spec /\ Mains!Spec /\ Act!Spec /\ Setup!Spec
            /\ Frames!Spec /\ Proxy!Spec /\ Strings!Spec
BY InitOfParts, StepOfParts, PTL
   DEF Spec, Pulse!Spec, Button!Spec, Mains!Spec, Act!Spec, Setup!Spec, Frames!Spec,
       Proxy!Spec, Strings!Spec

(* The pulses of the meter that the node has counted, and those under way, *)
(* are all there have been (dev/pulsesensor.c).                            *)
THEOREM NodeCountsPulses == Spec => []PulsesAccounted
<1>1. Pulse!Spec => []Pulse!PulsesAccounted
  BY EveryPulseIsAccounted, NodeAssumption
<1> QED
  BY <1>1, NodeFollowsParts, PTL DEF PulsesAccounted

(* The node's long-press timer runs while its button is pressed; after the *)
(* release only if that edge was ignored or fell into the timer's callback *)
(* (dev/button-sensor.c).                                                  *)
THEOREM NodeTimesPresses == Spec => []TimerFollowsPin
<1>1. Button!Spec => []Button!TimerFollowsPin
  BY TimerFollows, NodeAssumption
<1> QED
  BY <1>1, NodeFollowsParts, PTL DEF TimerFollowsPin

(* The node counts no more intervals of a press than the button has been   *)
(* held for, unless an edge was ignored or met the expiry of the timer     *)
(* (dev/button-sensor.c).                                                  *)
THEOREM NodeCountsPresses == Spec => []CountedIsHeld
<1>1. Button!Spec => []Button!CountedIsHeld
  BY CountIsHeld, NodeAssumption
<1> QED
  BY <1>1, NodeFollowsParts, PTL DEF CountedIsHeld

(* A device of the node agrees with the one it follows when nothing is on  *)
(* its way and nothing was lost (dev/relay.c, dev/ledindicator.c).         *)
THEOREM NodeFollowersAgree == Spec => []FollowersAgree
<1>1. Act!Spec => []Act!FollowersAgree
  BY FollowersFollow, NodeAssumption
<1> QED
  BY <1>1, NodeFollowsParts, PTL DEF FollowersAgree

(* An event setup the node accepts is stored as it was sent; one it        *)
(* refuses leaves the active events, and is refused for what its GUI had   *)
(* not read (dev/susensorcommon.c, sensor.cpp).                            *)
THEOREM NodeStoresSetups == Spec => AcceptedIsStored
<1> QED
  BY AcceptedUpdatesAreStored, NodeFollowsParts, PTL DEF AcceptedIsStored

(* Every proxy of the node has the configuration of the sensor whose       *)
(* number it has, and while buffers are read in time none keeps a reading  *)
(* newer than one that is still to be read (uartsensors.c).                *)
THEOREM NodeProxiesAreRight == Spec => []RowIsItsSensor
<1>1. Proxy!Spec => []Proxy!RowIsItsSensor
  BY RowsAreSensors, NodeAssumption
<1> QED
  BY <1>1, NodeFollowsParts, PTL DEF RowIsItsSensor

(* The strings of the node's uart sensors read as they were sent, and the  *)
(* URL of each is its type and its group, as long as the groups are        *)
(* shorter than their types (uart_protocolhandler.c, uartsensors.c).       *)
THEOREM NodeKeepsStrings == Spec => []StringsIntact
<1>1. Strings!Spec => []Strings!StringsIntact
  BY StringsAreKept, NodeAssumption
<1> QED
  BY <1>1, NodeFollowsParts, PTL DEF StringsIntact

(* The focus stays where it was chosen.                                    *)
LEMMA FocusStays == Spec => [](focus \in Components)
<1>1. Init => focus \in Components
  BY NodeAssumption DEF Init
<1>2. focus \in Components /\ [Next]_nodeVars => (focus \in Components)'
  BY DEF Next, nodeVars, PulseOnly, ButtonOnly, MainsOnly, ActOnly, SetupOnly, FramesOnly,
         ProxyOnly, StringsOnly
<1> QED
  BY <1>1, <1>2, PTL DEF Spec

(* What every component of the node keeps and sends is of its type: the    *)
(* registers and timers of the devices (dev/), the levels and events of    *)
(* relays and LEDs, the set-ups asked and answered, the bytes of the uart  *)
(* line, the proxies and the strings of its sensors (apps/uartsensors/).   *)
THEOREM NodeTypes == Spec => []NodeTypeOK
<1>1. Pulse!Spec => []Pulse!TypeOK
  BY PulseTypes, NodeAssumption
<1>2. Button!Spec => []Button!TypeOK
  <2>1. Button!Init => Button!TypeOK
    BY ButtonInitTypeOK, NodeAssumption
  <2>2. Button!TypeOK /\ [Button!Next]_Button!buttonVars => Button!TypeOK'
    BY ButtonStepTypeOK, NodeAssumption
  <2> QED
    BY <2>1, <2>2, PTL DEF Button!Spec
<1>3. Mains!Spec => []Mains!TypeOK
  BY MainsTypes, NodeAssumption
<1>4. Act!Spec => []Act!TypeOK
  <2>1. Topology /\ MaxRequests \in Nat
    BY NodeAssumption DEF Bounds
  <2> QED
    BY <2>1, ActuationTypes
<1>5. Setup!Spec => []Setup!TypeOK
  <2>1. MaxSetups \in Nat
    BY NodeAssumption DEF Bounds
  <2> QED
    BY <2>1, SetupTypes
<1>6. Frames!Spec => []Frames!TypeOK
  BY FrameTypes, NodeAssumption
<1>7. Proxy!Spec => []Proxy!TypeOK
  BY ProxyTypes, NodeAssumption
<1>8. Strings!Spec => []Strings!TypeOK
  BY StringsTypes, NodeAssumption
<1>9. /\ focus \in Components /\ Pulse!TypeOK /\ Button!TypeOK /\ Mains!TypeOK /\ Act!TypeOK
      /\ Setup!TypeOK /\ Frames!TypeOK /\ Proxy!TypeOK /\ Strings!TypeOK
      => NodeTypeOK
  BY DEF NodeTypeOK, Components
<1> QED
  BY <1>1, <1>2, <1>3, <1>4, <1>5, <1>6, <1>7, <1>8, <1>9, FocusStays, NodeFollowsParts,
     PTL

(* The node's mains detector is never left without a timer that wakes it   *)
(* (dev/mainsdetect.c).                                                    *)
THEOREM NodeStaysAwake == Spec => []Mains!NeverAsleep
<1>1. Mains!Spec => []Mains!NeverAsleep
  BY DetectorStaysAwake, NodeAssumption
<1> QED
  BY <1>1, NodeFollowsParts, PTL

(* What a device sends the node in frames without escapes is decoded, if   *)
(* the line disturbs nothing (uart_protocolhandler.c, uarthandler.c).      *)
THEOREM NodeReadsPlainFrames == Spec => []Frames!PlainFramesArrive
<1>1. Frames!Spec => []Frames!PlainFramesArrive
  BY PlainFramesAreRead, NodeAssumption
<1> QED
  BY <1>1, NodeFollowsParts, PTL
=============================================================================
