---------------------------- MODULE PulseCounter ----------------------------
(***************************************************************************)
(* The pulse counter of an electricity meter (dev/pulsesensor.c).  Timer   *)
(* GPT1A counts the pulses in hardware up to the change level, starts over *)
(* and interrupts; the interrupt polls pulseinput_int_process, and the     *)
(* process adds the period to LastValue and calls setEventU16.  Two        *)
(* interrupts before the process runs are one poll.                        *)
(***************************************************************************)
EXTENDS Integers

CONSTANTS
    Period,         \* ChangeEvent.as.u16 at start-up, loaded into GPTIMER_TAILR
    AboveAt,        \* AboveEventAt.as.u16
    BelowAt,        \* BelowEventAt.as.u16
    eventsActive,   \* the active events
    StepSize,       \* values of a uint8_t, the type of setEventU16's step
    ValueSize,      \* values of a uint16_t
    MaxPulses       \* bound of the checks

VARIABLES
    TAR,              \* the hardware counter
    captured,         \* its interrupt is pending
    polled,           \* pulseinput_int_process has a poll pending
    LastValue,        \* runtime->LastValue
    ChangeEventAcc,   \* runtime->ChangeEventAcc
    hasEvent,         \* runtime->hasEvent
    LastEventValue,   \* runtime->LastEventValue
    total,            \* history: pulses since the start
    overrun,          \* history: periods that ended while the last was unhandled
    rounds,           \* history: wraps of LastValue
    silent            \* history: periods added since the last change event

pulseVars == <<TAR, captured, polled, LastValue, ChangeEventAcc, hasEvent,
               LastEventValue, total, overrun, rounds, silent>>

(* configure(SUSENSORS_HW_INIT), then configure(SUSENSORS_ACTIVE): TAILR   *)
(* and TAMATCHR hold the period, the counter starts at 0.                  *)
Init ==
    /\ TAR = 0 /\ captured = FALSE /\ polled = FALSE
    /\ LastValue = 0 /\ ChangeEventAcc = 0 /\ hasEvent = {} /\ LastEventValue = 0
    /\ total = 0 /\ overrun = 0 /\ rounds = 0 /\ silent = 0

(* A rising edge on the pin.  An interrupt that is pending already is not  *)
(* pending twice.                                                          *)
Pulse ==
    /\ total < MaxPulses
    /\ total' = total + 1
    /\ TAR' = (TAR + 1) % Period
    /\ captured' = (captured \/ TAR' = 0)
    /\ overrun' = IF TAR' = 0 /\ captured THEN overrun + 1 ELSE overrun
    /\ UNCHANGED <<polled, LastValue, ChangeEventAcc, hasEvent, LastEventValue, rounds, silent>>

(* pulscounter_isr.                                                        *)
IsrForgetsPoll ==    \* slip: the status flag is cleared, the process not polled
    /\ captured
    /\ captured' = FALSE
    /\ UNCHANGED <<TAR, polled, LastValue, ChangeEventAcc, hasEvent, LastEventValue,
                   total, overrun, rounds, silent>>
Isr ==
    /\ captured
    /\ captured' = FALSE
    /\ polled' = TRUE
    /\ overrun' = IF polled THEN overrun + 1 ELSE overrun
    /\ UNCHANGED <<TAR, LastValue, ChangeEventAcc, hasEvent, LastEventValue, total, rounds, silent>>

(* setEventU16(pulsesensor, 1, TAILR): the step is cut to eight bits.      *)
Step == Period % StepSize
LevelEvents(value) == IF value >= AboveAt THEN {"above"} \cap eventsActive ELSE {}
ChangeDueStrict(acc) == Period < acc     \* slip: < for <=
ChangeDue(acc) == Period <= acc

(* pulseinput_int_process.                                                 *)
Process ==
    LET value == (LastValue + Period) % ValueSize
        acc == (ChangeEventAcc + Step) % ValueSize
        due == LevelEvents(value) \cup
               IF ChangeDue(acc) THEN {"change"} \cap eventsActive ELSE {}
    IN /\ polled
       /\ polled' = FALSE
       /\ LastValue' = value
       /\ rounds' = rounds + (LastValue + Period) \div ValueSize
       /\ ChangeEventAcc' = IF ChangeDue(acc) THEN 0 ELSE acc
       /\ silent' = IF ChangeDue(acc) THEN 0 ELSE silent + 1
       /\ hasEvent' = due
       /\ LastEventValue' = IF due # {} THEN value ELSE LastEventValue
       /\ UNCHANGED <<TAR, captured, total, overrun>>

Next == Pulse \/ Isr \/ Process
Spec == Init /\ [][Next]_pulseVars

(* get(ActualValue).                                                       *)
ActualValue == (TAR + LastValue) % ValueSize

-----------------------------------------------------------------------------

(* The value of every variable.                                            *)
TypeOK ==
    /\ TAR \in 0..Period - 1 /\ captured \in BOOLEAN /\ polled \in BOOLEAN
    /\ LastValue \in 0..ValueSize - 1 /\ ChangeEventAcc \in 0..ValueSize - 1
    /\ hasEvent \in SUBSET {"above", "below", "change"}
    /\ LastEventValue \in 0..ValueSize - 1
    /\ total \in Nat /\ overrun \in Nat /\ rounds \in Nat /\ silent \in Nat

Flag(b) == IF b THEN 1 ELSE 0

(* Every pulse is in the hardware counter, in a period whose interrupt or  *)
(* poll is under way, or in LastValue, except for whole periods, one for   *)
(* each that ended before the one before it was handled (pulscounter_isr   *)
(* and pulseinput_int_process).                                            *)
PulsesAccounted ==
    total = TAR + LastValue + rounds * ValueSize
            + (Flag(captured) + Flag(polled) + overrun) * Period

(* While no period has been overrun, a reading of the counter is behind    *)
(* the pulses by no more than the periods under way.                       *)
ReadingTrails ==
    overrun = 0 =>
        \E n \in 0..Flag(captured) + Flag(polled) :
            ActualValue = (total - n * Period) % ValueSize

(* A change event is due at the latest when the cut steps add up to the    *)
(* level: with a step of 244 for 500 pulses, in every third period.  A     *)
(* level so high that the accumulator starts over first starves it.        *)
ChangeNotStarved == silent * Step < Period

(* A change event is due in every period, as its level says.  It does not  *)
(* hold: the step is cut to eight bits.                                    *)
EveryPeriodReported == silent = 0

(* A reading never falls below the one before.  It does not hold, for a    *)
(* wrap of the value, and between the wrap of the hardware counter and the *)
(* run of the process.                                                     *)
ReadingsGrow == [][ActualValue' >= ActualValue]_pulseVars
=============================================================================
