---------------------------- MODULE MainsDetector ----------------------------
(***************************************************************************)
(* The mains detector (dev/mainsdetect.c).  Timer A of GPT2 counts the     *)
(* pulses of the mains and interrupts at every fourth one; timer B, a      *)
(* one-shot of some five periods that each such interrupt loads anew,      *)
(* interrupts when they stay away.  After that interrupt the counter is    *)
(* off for one more one-shot.  Neither handler preempts the other, and a   *)
(* handler that is pending runs even if its cause has been cleared.        *)
(***************************************************************************)
EXTENDS Integers

CONSTANTS
    PulsesPerIrq,    \* GPTIMER_TAILR and GPTIMER_TAMATCHR
    TICKTIMEOUT      \* timer B's load, in periods of the mains

VARIABLES
    mains,        \* the mains is there
    TAEN, TBEN,   \* timer A is counting, timer B is running
    TAV, TBV,     \* their counts
    pulseIrq,     \* mainsdetect_pulsecnt_isr is pending
    goneIrq,      \* mainsdetect_mainsgone_isr is pending
    prompt,       \* no period passes while an interrupt is pending: chosen once
    LastValue,    \* runtime->LastValue
    reports       \* history: the last direction given to setEventU8

mainsVars == <<mains, TAEN, TBEN, TAV, TBV, pulseIrq, goneIrq, prompt, LastValue, reports>>

(* configure(SUSENSORS_HW_INIT), then configure(SUSENSORS_ACTIVE): timer B *)
(* is started first.                                                       *)
Init ==
    /\ mains \in BOOLEAN
    /\ TAEN = FALSE /\ TAV = 0
    /\ TBEN = TRUE /\ TBV = TICKTIMEOUT
    /\ pulseIrq = FALSE /\ goneIrq = FALSE
    /\ prompt \in BOOLEAN
    /\ LastValue = 0 /\ reports = -1

Switch ==
    /\ mains' = ~mains
    /\ UNCHANGED <<TAEN, TBEN, TAV, TBV, pulseIrq, goneIrq, prompt, LastValue, reports>>

(* One period of the mains, in which timer A sees a pulse and timer B runs *)
(* down; at its end the one-shot stops itself.                             *)
MainsPeriod ==
    LET pulse == mains /\ TAEN
        expired == TBEN /\ TBV = 1
    IN /\ prompt => ~pulseIrq /\ ~goneIrq
       /\ TAV' = IF pulse THEN (TAV + 1) % PulsesPerIrq ELSE TAV
       /\ pulseIrq' = (pulseIrq \/ (pulse /\ TAV' = 0))
       /\ TBV' = IF TBEN THEN TBV - 1 ELSE TBV
       /\ TBEN' = (TBEN /\ ~expired)
       /\ goneIrq' = (goneIrq \/ expired)
       /\ UNCHANGED <<mains, TAEN, prompt, LastValue, reports>>

mainsdetect_pulsecnt_isr ==
    /\ pulseIrq
    /\ pulseIrq' = FALSE
    /\ LastValue' = 1
    /\ reports' = IF LastValue = 0 THEN 1 ELSE reports
    /\ TBV' = TICKTIMEOUT
    /\ TBEN' = TRUE
    /\ UNCHANGED <<mains, TAEN, TAV, goneIrq, prompt>>

(* Slip: the timer of the pause is not started.                            *)
PauseNotTimed ==
    /\ TAEN' = ~TAEN
    /\ TBEN' = TBEN /\ TBV' = TBV
Pause ==
    /\ TAEN' = ~TAEN
    /\ TBEN' = (TAEN \/ TBEN)
    /\ TBV' = IF TAEN /\ ~TBEN THEN TICKTIMEOUT ELSE TBV
mainsdetect_mainsgone_isr ==
    /\ goneIrq
    /\ goneIrq' = FALSE
    /\ Pause
    /\ LastValue' = 0
    /\ reports' = IF LastValue = 1 THEN -1 ELSE reports
    /\ TAV' = 0
    /\ UNCHANGED <<mains, pulseIrq, prompt>>

Next == Switch \/ MainsPeriod \/ mainsdetect_pulsecnt_isr \/ mainsdetect_mainsgone_isr
Spec == Init /\ [][Next]_mainsVars

-----------------------------------------------------------------------------

(* The value of every variable.                                            *)
TypeOK ==
    /\ mains \in BOOLEAN /\ TAEN \in BOOLEAN /\ TBEN \in BOOLEAN
    /\ pulseIrq \in BOOLEAN /\ goneIrq \in BOOLEAN /\ prompt \in BOOLEAN
    /\ TAV \in 0..PulsesPerIrq - 1 /\ TBV \in 0..TICKTIMEOUT
    /\ LastValue \in {0, 1} /\ reports \in {-1, 1}

(* The detector never falls asleep: it counts pulses, or a timer is        *)
(* running that will make it, or has made it interrupt; and while it says  *)
(* that the mains is there, a timer is running that can take it back, in   *)
(* whatever order late interrupts are handled.                             *)
NeverAsleep ==
    /\ TAEN \/ TBEN \/ goneIrq
    /\ LastValue = 1 => TBEN \/ goneIrq
    /\ TBEN => TBV > 0

(* Mains that stays away is reported for good, mains that stays is         *)
(* reported for good if no interrupt is late, and again and again in any   *)
(* case.                                                                   *)
MainsIsSeen ==
    /\ <>[]~mains => <>[](LastValue = 0)
    /\ <>[]mains => []<>(LastValue = 1)
    /\ prompt /\ <>[]mains => <>[](LastValue = 1)

(* The value changes to 0 only when the mains was away.  It does not hold  *)
(* when both interrupts are pending.                                       *)
GoneIsGone == [][LastValue = 1 /\ LastValue' = 0 => ~mains]_mainsVars
=============================================================================
