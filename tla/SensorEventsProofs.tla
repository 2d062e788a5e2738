------------------------- MODULE SensorEventsProofs -------------------------
(***************************************************************************)
(* Proofs about SensorEvents for any number of devices, any set of devices *)
(* with interrupts and any event configuration.                            *)
(***************************************************************************)
EXTENDS SensorEvents, TLAPS

(* What setEventU8 computes from a value and an accumulator in range.      *)
LEMMA AccInRange ==
    ASSUME NEW acc \in 0..U8 - 1
    PROVE  AccNext(acc, 1) \in 0..U8 - 1
BY DEF AccNext, U8

LEMMA LevelEventsAreEvents ==
    ASSUME NEW c, NEW value, NEW dir
    PROVE  LevelEvents(c, value, dir) \in SUBSET Events
BY DEF LevelEvents, Events

LEMMA ChangeEventsAreEvents ==
    ASSUME NEW c, NEW acc
    PROVE  ChangeEvents(c, acc) \in SUBSET Events
BY DEF ChangeEvents, Events

LEMMA InitTypeOK == Init => TypeOK
<1> SUFFICES ASSUME Init PROVE TypeOK
  OBVIOUS
<1> USE DEF Init
<1>1. LastValue \in [Devices -> Levels]
  BY DEF Levels
<1>2. ChangeEventAcc \in [Devices -> 0..U8 - 1]
  BY DEF U8
<1>3. cur \in Devices
  BY NDevAssumption DEF Devices
<1>4. /\ ev \in Events
      /\ pc \in {"boot", "idle", "test", "clear", "notify", "reset"}
      /\ needspoll \in BOOLEAN
  BY DEF Events
<1>5. /\ reg \in SUBSET Events
      /\ owed \in [Devices -> SUBSET Events]
  OBVIOUS
<1>6. reported \in [Devices -> Levels \cup {NoReport}]
  OBVIOUS
<1> QED
  BY <1>1, <1>2, <1>3, <1>4, <1>5, <1>6 DEF TypeOK

LEMMA StepTypeOK == TypeOK /\ [Next]_vars => TypeOK'
<1> SUFFICES ASSUME TypeOK, [Next]_vars PROVE TypeOK'
  OBVIOUS
<1> USE DEF TypeOK, procVars, deviceVars
<1>1. CASE Boot
  BY <1>1, NDevAssumption DEF Boot, Devices, Events
<1>2. CASE Poll
  <2>1. needspoll' = FALSE /\ StartWalk
    BY <1>2 DEF Poll
  <2>2. needspoll' \in BOOLEAN
    BY <2>1
  <2>3. /\ cur' \in Devices
        /\ ev' \in Events
        /\ pc' = "test"
    BY <2>1, NDevAssumption DEF StartWalk, Devices, Events
  <2>4. UNCHANGED <<LastValue, ChangeEventAcc, event_flag, reg, owed, reported>>
    BY <2>1 DEF StartWalk
  <2> QED
    BY <2>2, <2>3, <2>4
<1>3. CASE OtherEvent
  BY <1>3, NDevAssumption DEF OtherEvent, StartWalk, Devices, Events
<1>4. CASE Test
  BY <1>4 DEF Test, Advance, Events
<1>5. CASE Clear
  BY <1>5 DEF Clear
<1>6. CASE Notify
  BY <1>6 DEF Notify, Advance, Events, Levels
<1>7. CASE Reset
  BY <1>7, NDevAssumption DEF Reset, Devices, Events
<1>8. ASSUME NEW d \in Devices, Edge(d) PROVE TypeOK'
  <2> DEFINE value == 1 - LastValue[d]
             acc   == AccNext(ChangeEventAcc[d], 1)
             due   == LevelEvents(Config[d], value, IF value = 1 THEN 1 ELSE -1)
                      \cup ChangeEvents(Config[d], acc)
  <2>1. value \in Levels
    BY DEF Levels
  <2>2. acc \in 0..U8 - 1
    BY AccInRange
  <2>3. due \in SUBSET Events
    BY LevelEventsAreEvents, ChangeEventsAreEvents
  <2>4. /\ LastValue' = [LastValue EXCEPT ![d] = value]
        /\ ChangeEventAcc' = [ChangeEventAcc EXCEPT ![d] =
                                 IF ChangeDue(Config[d], acc) THEN 0 ELSE acc]
        /\ event_flag' = [event_flag EXCEPT ![d] = @ \cup due]
        /\ needspoll' = (needspoll \/ due # {})
        /\ owed' = [owed EXCEPT ![d] = @ \cup due]
        /\ UNCHANGED <<procVars, reported>>
    BY <1>8 DEF Edge
  <2> HIDE DEF value, acc, due
  <2>5. /\ LastValue' \in [Devices -> Levels]
        /\ ChangeEventAcc' \in [Devices -> 0..U8 - 1]
    BY <2>1, <2>2, <2>4 DEF U8
  <2>6. /\ event_flag' \in [Devices -> SUBSET Events]
        /\ owed' \in [Devices -> SUBSET Events]
    BY <2>3, <2>4
  <2>7. needspoll' \in BOOLEAN
    BY <2>4
  <2> QED
    BY <2>4, <2>5, <2>6, <2>7
<1>9. CASE UNCHANGED vars
  BY <1>9 DEF vars
<1> QED
  BY <1>1, <1>2, <1>3, <1>4, <1>5, <1>6, <1>7, <1>8, <1>9 DEF Next, Process

(* Every variable keeps its type: Spec never leaves the values the         *)
(* structures of lib/susensors.c and dev/susensorcommon.c can hold.        *)
THEOREM TypeCorrect == Spec => []TypeOK
<1>1. Init => TypeOK
  BY InitTypeOK
<1>2. TypeOK /\ [Next]_vars => TypeOK'
  BY StepTypeOK
<1> QED
  BY <1>1, <1>2, PTL DEF Spec
-----------------------------------------------------------------------------

(* Edge(d) in terms of the events that are due, whatever they are. *)
LEMMA EdgeEffect ==
    ASSUME NEW d \in Devices, TypeOK, Edge(d)
    PROVE  \E due \in SUBSET Events :
              /\ event_flag' = [event_flag EXCEPT ![d] = @ \cup due]
              /\ owed' = [owed EXCEPT ![d] = @ \cup due]
              /\ needspoll' = (needspoll \/ due # {})
              /\ UNCHANGED <<pc, cur, ev, reg, reported>>
              /\ Enabled(d)
              /\ d \in Spaced => Settled(d)
<1> DEFINE due == LevelEvents(Config[d], 1 - LastValue[d],
                              IF 1 - LastValue[d] = 1 THEN 1 ELSE -1)
                  \cup ChangeEvents(Config[d], AccNext(ChangeEventAcc[d], 1))
<1>1. due \in SUBSET Events
  BY LevelEventsAreEvents, ChangeEventsAreEvents
<1>2. /\ event_flag' = [event_flag EXCEPT ![d] = @ \cup due]
      /\ owed' = [owed EXCEPT ![d] = @ \cup due]
      /\ needspoll' = (needspoll \/ due # {})
      /\ UNCHANGED <<pc, cur, ev, reg, reported>>
      /\ Enabled(d)
      /\ d \in Spaced => Settled(d)
  BY DEF Edge, procVars
<1> HIDE DEF due
<1> QED
  BY <1>1, <1>2

(* The scheduler forgets no flagged event: one step. *)
LEMMA StepNoLostWakeup ==
    TypeOK /\ NoLostWakeup /\ [Next]_vars => NoLostWakeup'
<1> SUFFICES ASSUME TypeOK, NoLostWakeup, [Next]_vars,
                    NEW d \in Devices, Enabled(d)', event_flag'[d] # {},
                    ~needspoll'
             PROVE  pc' \in {"test", "clear", "notify", "reset"} /\ cur' <= d
  BY DEF NoLostWakeup
<1> USE DEF TypeOK
<1>1. CASE Boot
  BY <1>1, NDevAssumption DEF Boot, NoLostWakeup, Enabled, Devices
<1>2. CASE Poll \/ OtherEvent
  BY <1>2, NDevAssumption DEF Poll, OtherEvent, StartWalk, Devices
<1>3. CASE Test
  BY <1>3 DEF Test, Advance, NoLostWakeup, Enabled
<1>4. CASE Clear
  BY <1>4 DEF Clear, NoLostWakeup, Enabled, Devices
<1>5. CASE Notify
  BY <1>5 DEF Notify, Advance, NoLostWakeup, Enabled
<1>6. CASE Reset
  BY <1>6, NDevAssumption DEF Reset, NoLostWakeup, Enabled, Devices
<1>7. ASSUME NEW b \in Devices, Edge(b)
      PROVE  pc' \in {"test", "clear", "notify", "reset"} /\ cur' <= d
  <2>1. PICK due \in SUBSET Events :
              /\ event_flag' = [event_flag EXCEPT ![b] = @ \cup due]
              /\ needspoll' = (needspoll \/ due # {})
              /\ UNCHANGED <<pc, cur>>
    BY <1>7, EdgeEffect
  <2>2. due = {} /\ ~needspoll
    BY <2>1
  <2>3. event_flag'[d] = event_flag[d] /\ Enabled(d)
    BY <2>1, <2>2 DEF Enabled
  <2> QED
    BY <2>1, <2>2, <2>3 DEF NoLostWakeup
<1>8. CASE UNCHANGED vars
  BY <1>8 DEF vars, NoLostWakeup, Enabled
<1> QED
  BY <1>1, <1>2, <1>3, <1>4, <1>5, <1>6, <1>7, <1>8 DEF Next, Process

(* No lost wakeup: an event flagged for a configured device has a poll or  *)
(* the rest of a walk ahead of it, for any number of devices and any       *)
(* interleaving of interrupts with the walk of susensors_process.          *)
THEOREM WakeupKept == Spec => []NoLostWakeup
<1>1. Init => NoLostWakeup
  BY NDevAssumption DEF Init, NoLostWakeup, Enabled, Devices
<1>2. TypeOK /\ NoLostWakeup /\ [Next]_vars => NoLostWakeup'
  BY StepNoLostWakeup
<1> QED
  BY <1>1, <1>2, TypeCorrect, PTL DEF Spec

-----------------------------------------------------------------------------

(* The events whose "if" the walk has behind it at the current device. *)
Done ==
    IF pc = "reset" THEN Events
    ELSE CASE ev = "change" -> {}
           [] ev = "below"  -> {"change"}
           [] OTHER         -> {"change", "below"}

(* A flagged event is still owed to the observers, but for one that was    *)
(* raised between the store and the notification of the same event: that   *)
(* notification covered it, and the walk will drop the flag.               *)
FlagsOwed ==
    \A d \in Devices : \A e \in event_flag[d] :
        Enabled(d) => e \in owed[d] \/ (AtDevice(d) /\ e \in Done)

(* The same of the copy of the flags between load and store. *)
CopyOwed ==
    /\ pc = "clear" => \A e \in reg : e \in owed[cur] \/ e \in Done
    /\ pc \in {"clear", "notify"} => ev \in owed[cur]

RaisedInv == FlagsOwed /\ CopyOwed

LEMMA StepRaisedInv == TypeOK /\ RaisedInv /\ [Next]_vars => RaisedInv'
<1> SUFFICES ASSUME TypeOK, RaisedInv, [Next]_vars PROVE RaisedInv'
  OBVIOUS
<1> USE DEF TypeOK, RaisedInv
<1>1. CASE Boot
  BY <1>1, NDevAssumption
     DEF Boot, FlagsOwed, CopyOwed, Enabled, AtDevice, Done, Devices
<1>2. CASE Poll \/ OtherEvent
  BY <1>2 DEF Poll, OtherEvent, StartWalk, FlagsOwed, CopyOwed, Enabled,
              AtDevice
<1>3. CASE Test
  <2>1. CASE ev \in event_flag[cur]
    BY <1>3, <2>1 DEF Test, FlagsOwed, CopyOwed, Enabled, AtDevice, Done, Events
  <2>2. CASE ev \notin event_flag[cur]
    BY <1>3, <2>2 DEF Test, Advance, FlagsOwed, CopyOwed, Enabled, AtDevice,
                      Done, Events
  <2> QED
    BY <2>1, <2>2
<1>4. CASE Clear
  <2>1. CopyOwed'
    BY <1>4 DEF Clear, CopyOwed
  <2>2. FlagsOwed'
    BY <1>4 DEF Clear, FlagsOwed, CopyOwed, Enabled, AtDevice, Done
  <2> QED
    BY <2>1, <2>2
<1>5. CASE Notify
  BY <1>5 DEF Notify, Advance, FlagsOwed, CopyOwed, Enabled, AtDevice, Done,
              Events
<1>6. CASE Reset
  BY <1>6, NDevAssumption DEF Reset, FlagsOwed, CopyOwed, Enabled, AtDevice
<1>7. ASSUME NEW b \in Devices, Edge(b) PROVE RaisedInv'
  <2>1. PICK due \in SUBSET Events :
              /\ event_flag' = [event_flag EXCEPT ![b] = @ \cup due]
              /\ owed' = [owed EXCEPT ![b] = @ \cup due]
              /\ UNCHANGED <<pc, cur, ev, reg, reported>>
    BY <1>7, EdgeEffect
  <2>2. FlagsOwed'
    BY <2>1 DEF FlagsOwed, Enabled, AtDevice, Done
  <2>3. CopyOwed'
    BY <2>1 DEF CopyOwed, Done
  <2> QED
    BY <2>2, <2>3
<1>8. CASE UNCHANGED vars
  BY <1>8 DEF vars, FlagsOwed, CopyOwed, Enabled, AtDevice, Done
<1> QED
  BY <1>1, <1>2, <1>3, <1>4, <1>5, <1>6, <1>7, <1>8 DEF Next, Process

(* The observers hear only of events a driver raised since their last      *)
(* notification, whatever event_flag held before the node booted and       *)
(* wherever interrupts fall.                                               *)
THEOREM PostsWereRaised == Spec => []OnlyRaisedEventsPosted
<1>1. Init => RaisedInv
  BY NDevAssumption
     DEF Init, RaisedInv, FlagsOwed, CopyOwed, Enabled, Devices
<1>2. TypeOK /\ RaisedInv /\ [Next]_vars => RaisedInv'
  BY StepRaisedInv
<1>3. RaisedInv => OnlyRaisedEventsPosted
  BY DEF RaisedInv, CopyOwed, OnlyRaisedEventsPosted
<1> QED
  BY <1>1, <1>2, <1>3, TypeCorrect, PTL DEF Spec

-----------------------------------------------------------------------------

(* While the walk is at a device with spaced edges, nothing else writes    *)
(* its flags, so load and store see the same flags and the reset clears    *)
(* none.                                                                   *)
UndisturbedWalk ==
    cur \in Spaced =>
        /\ pc = "clear" => reg = event_flag[cur] /\ ev \in reg
        /\ pc = "notify" => ev \notin event_flag[cur]
        /\ pc \in {"test", "clear", "notify", "reset"} =>
               event_flag[cur] \cap Done = {}

NothingOwedBeforeBoot == \A d \in Devices : ~Enabled(d) => owed[d] = {}

SpacedInv == UndisturbedWalk /\ NothingOwedBeforeBoot /\ SpacedEventsKept

LEMMA StepSpacedInv == TypeOK /\ SpacedInv /\ [Next]_vars => SpacedInv'
<1> SUFFICES ASSUME TypeOK, SpacedInv, [Next]_vars PROVE SpacedInv'
  OBVIOUS
<1> USE SpacedAssumption DEF TypeOK, SpacedInv
<1>1. CASE Boot
  BY <1>1, NDevAssumption
     DEF Boot, UndisturbedWalk, NothingOwedBeforeBoot, SpacedEventsKept, Kept, InFlight,
         Enabled, Devices
<1>2. CASE Poll \/ OtherEvent
  BY <1>2 DEF Poll, OtherEvent, StartWalk, UndisturbedWalk, Done,
              NothingOwedBeforeBoot, SpacedEventsKept, Kept, InFlight, Enabled
<1>3. CASE Test
  <2>1. UndisturbedWalk'
    BY <1>3 DEF Test, Advance, UndisturbedWalk, Done, Events
  <2>2. NothingOwedBeforeBoot' /\ SpacedEventsKept'
    BY <1>3 DEF Test, Advance, NothingOwedBeforeBoot, SpacedEventsKept, Kept, InFlight,
                Enabled
  <2> QED
    BY <2>1, <2>2
<1>4. CASE Clear
  <2>1. UndisturbedWalk'
    BY <1>4 DEF Clear, UndisturbedWalk, Done
  <2>2. NothingOwedBeforeBoot' /\ SpacedEventsKept'
    BY <1>4 DEF Clear, UndisturbedWalk, NothingOwedBeforeBoot, SpacedEventsKept, Kept,
                InFlight, Enabled
  <2> QED
    BY <2>1, <2>2
<1>5. CASE Notify
  <2>1. UndisturbedWalk'
    BY <1>5 DEF Notify, Advance, UndisturbedWalk, Done, Events
  <2>2. NothingOwedBeforeBoot' /\ SpacedEventsKept'
    BY <1>5 DEF Notify, Advance, NothingOwedBeforeBoot, SpacedEventsKept, Kept, InFlight,
                Enabled
  <2> QED
    BY <2>1, <2>2
<1>6. CASE Reset
  <2>1. cur \in Spaced => event_flag[cur] = {}
    BY <1>6 DEF Reset, UndisturbedWalk, Done
  <2>2. \A d \in Spaced : event_flag'[d] = event_flag[d]
    BY <1>6, <2>1, SpacedAssumption DEF Reset
  <2>3. UndisturbedWalk'
    BY <1>6, <2>2 DEF Reset, UndisturbedWalk, Done
  <2>4. NothingOwedBeforeBoot' /\ SpacedEventsKept'
    BY <1>6, <2>2 DEF Reset, NothingOwedBeforeBoot, SpacedEventsKept, Kept, InFlight,
                      Enabled
  <2> QED
    BY <2>3, <2>4
<1>7. ASSUME NEW b \in Devices, Edge(b) PROVE SpacedInv'
  <2>1. PICK due \in SUBSET Events :
              /\ event_flag' = [event_flag EXCEPT ![b] = @ \cup due]
              /\ owed' = [owed EXCEPT ![b] = @ \cup due]
              /\ UNCHANGED <<pc, cur, ev, reg, reported>>
              /\ Enabled(b)
              /\ b \in Spaced => Settled(b)
    BY <1>7, EdgeEffect
  <2>2. UndisturbedWalk'
    BY <2>1 DEF UndisturbedWalk, Done, Settled, AtDevice
  <2>3. NothingOwedBeforeBoot' /\ SpacedEventsKept'
    BY <2>1 DEF NothingOwedBeforeBoot, SpacedEventsKept, Kept, InFlight, Enabled
  <2> QED
    BY <2>2, <2>3
<1>8. CASE UNCHANGED vars
  BY <1>8 DEF vars, UndisturbedWalk, Done, NothingOwedBeforeBoot, SpacedEventsKept, Kept,
              InFlight, Enabled
<1> QED
  BY <1>1, <1>2, <1>3, <1>4, <1>5, <1>6, <1>7, <1>8 DEF Next, Process

LEMMA InitSpacedInv == Init => SpacedInv
BY NDevAssumption, SpacedAssumption
   DEF Init, SpacedInv, UndisturbedWalk, NothingOwedBeforeBoot, SpacedEventsKept, Kept,
       InFlight, Enabled, Devices

(* No raised event of a device whose edges are further apart than a walk   *)
(* is lost between susensors_changed and its notification, however the     *)
(* other devices interrupt the walk.                                       *)
THEOREM SpacedEdgesAreNotLost == Spec => []SpacedEventsKept
<1>1. Init => SpacedInv
  BY InitSpacedInv
<1>2. TypeOK /\ SpacedInv /\ [Next]_vars => SpacedInv'
  BY StepSpacedInv
<1>3. SpacedInv => SpacedEventsKept
  BY DEF SpacedInv
<1> QED
  BY <1>1, <1>2, <1>3, TypeCorrect, PTL DEF Spec

-----------------------------------------------------------------------------

(* The devices whose every edge raises an event: both level events are     *)
(* active and no level is out of reach.                                    *)
Told(d) ==
    /\ {"above", "below"} \subseteq Config[d].eventsActive
    /\ Config[d].AboveEventAt <= 1

LevelEvent(value) == IF value = 1 THEN "above" ELSE "below"
Pending(d) == event_flag[d] \cup InFlight(d)

(* The one level event such a device may have outstanding is that of its   *)
(* level, and without it the last report, if there was one, is the level.  *)
ReportInv ==
    \A d \in Spaced :
        /\ ~Enabled(d) => reported[d] = NoReport
        /\ Enabled(d) /\ Told(d) =>
              /\ LevelEvent(1 - LastValue[d]) \notin Pending(d)
              /\ LevelEvent(LastValue[d]) \in Pending(d)
                    \/ reported[d] \in {NoReport, LastValue[d]}

(* An edge of such a device raises the event of the new level, and not the *)
(* other one.                                                              *)
LEMMA EdgeIsTold ==
    ASSUME NEW d \in Devices, Told(d), NEW v \in Levels, NEW acc
    PROVE  LET due == LevelEvents(Config[d], v, IF v = 1 THEN 1 ELSE -1)
                      \cup ChangeEvents(Config[d], acc)
           IN LevelEvent(v) \in due /\ LevelEvent(1 - v) \notin due
<1>1. /\ Config[d].AboveEventAt \in Nat /\ Config[d].BelowEventAt \in Nat
      /\ Config[d].AboveEventAt <= 1
      /\ {"above", "below"} \subseteq Config[d].eventsActive
  BY ConfigAssumption DEF Told
<1>2. ChangeEvents(Config[d], acc) \subseteq {"change"}
  BY DEF ChangeEvents
<1>3. CASE v = 1
  <2>1. LevelEvents(Config[d], v, 1) = {"above"}
    BY <1>1, <1>3 DEF LevelEvents
  <2> QED
    BY <1>2, <1>3, <2>1 DEF LevelEvent
<1>4. CASE v = 0
  <2>1. LevelEvents(Config[d], v, -1) = {"below"}
    BY <1>1, <1>4 DEF LevelEvents
  <2> QED
    BY <1>2, <1>4, <2>1 DEF LevelEvent
<1> QED
  BY <1>3, <1>4 DEF Levels

LEMMA InitReportInv == Init => ReportInv
BY NDevAssumption, SpacedAssumption DEF Init, ReportInv, Enabled, Devices

LEMMA StepReportInv == TypeOK /\ SpacedInv /\ ReportInv /\ [Next]_vars => ReportInv'
<1> SUFFICES ASSUME TypeOK, SpacedInv, ReportInv, [Next]_vars PROVE ReportInv'
  OBVIOUS
<1> USE SpacedAssumption DEF TypeOK, SpacedInv
<1>1. CASE Boot
  <2> SUFFICES ASSUME NEW d \in Spaced
               PROVE  /\ ~Enabled(d)' => reported'[d] = NoReport
                      /\ Enabled(d)' /\ Told(d) =>
                            /\ LevelEvent(1 - LastValue'[d]) \notin Pending(d)'
                            /\ LevelEvent(LastValue'[d]) \in Pending(d)'
                                  \/ reported'[d] \in {NoReport, LastValue'[d]}
    BY DEF ReportInv, Told
  <2>1. /\ pc = "boot" /\ event_flag' = [event_flag EXCEPT ![cur] = {}]
        /\ reported' = reported /\ LastValue' = LastValue /\ pc' # "notify"
    BY <1>1 DEF Boot, deviceVars
  <2>2. InFlight(d) = {} /\ InFlight(d)' = {}
    BY <2>1 DEF InFlight
  <2>3. CASE d < cur
    <3>1. Enabled(d) /\ event_flag'[d] = event_flag[d]
      BY <2>1, <2>3 DEF Enabled, Devices
    <3>2. Pending(d)' = Pending(d) /\ Enabled(d)'
      BY <1>1, <2>2, <2>3, <3>1, NDevAssumption DEF Pending, Enabled, Boot, Devices
    <3> QED
      BY <2>1, <3>1, <3>2 DEF ReportInv
  <2>4. CASE d = cur
    <3>1. ~Enabled(d) /\ event_flag'[d] = {}
      BY <2>1, <2>4 DEF Enabled, Devices
    <3>2. Pending(d)' = {}
      BY <2>2, <3>1 DEF Pending
    <3> QED
      BY <2>1, <3>1, <3>2 DEF ReportInv
  <2>5. CASE d > cur
    <3>1. ~Enabled(d) /\ ~Enabled(d)'
      BY <1>1, <2>1, <2>5, NDevAssumption DEF Enabled, Boot, Devices
    <3> QED
      BY <2>1, <3>1 DEF ReportInv
  <2> QED
    BY <2>3, <2>4, <2>5 DEF Devices
<1>2. CASE Poll \/ OtherEvent
  <2>1. /\ pc = "idle" /\ pc' = "test"
        /\ UNCHANGED <<LastValue, ChangeEventAcc, event_flag, reported>>
    BY <1>2 DEF Poll, OtherEvent, StartWalk, deviceVars
  <2> QED
    BY <2>1 DEF ReportInv, Told, Pending, InFlight, Enabled
<1>3. CASE Test
  <2>1. /\ pc = "test" /\ pc' \in {"test", "clear", "reset"}
        /\ UNCHANGED <<LastValue, ChangeEventAcc, event_flag, reported>>
    BY <1>3 DEF Test, Advance, deviceVars
  <2> QED
    BY <2>1 DEF ReportInv, Told, Pending, InFlight, Enabled
<1>4. CASE Clear
  <2>1. /\ pc = "clear" /\ pc' = "notify" /\ cur' = cur /\ ev' = ev
        /\ event_flag' = [event_flag EXCEPT ![cur] = reg \ {ev}]
        /\ UNCHANGED <<LastValue, reported>>
    BY <1>4 DEF Clear, deviceVars
  <2>2. \A d \in Spaced : Pending(d)' = Pending(d)
    BY <2>1 DEF Pending, InFlight, UndisturbedWalk
  <2>3. \A d \in Spaced : Enabled(d)' /\ Enabled(d)
    BY <2>1 DEF Enabled
  <2> QED
    BY <2>1, <2>2, <2>3 DEF ReportInv, Told
<1>5. CASE Notify
  <2>1. /\ pc = "notify" /\ pc' \in {"test", "reset"} /\ cur' = cur
        /\ reported' = [reported EXCEPT ![cur] = CASE ev = "above" -> 1
                                                   [] ev = "below" -> 0
                                                   [] OTHER -> @]
        /\ UNCHANGED <<LastValue, event_flag>>
    BY <1>5 DEF Notify, Advance, deviceVars
  <2>2. \A d \in Spaced : Enabled(d)' /\ Enabled(d) /\ InFlight(d)' = {}
    BY <2>1 DEF Enabled, InFlight
  <2> SUFFICES ASSUME NEW d \in Spaced, Told(d)
               PROVE  /\ LevelEvent(1 - LastValue'[d]) \notin Pending(d)'
                      /\ LevelEvent(LastValue'[d]) \in Pending(d)'
                            \/ reported'[d] \in {NoReport, LastValue'[d]}
    BY <2>2 DEF ReportInv, Told
  <2>3. Pending(d)' = event_flag[d]
    BY <2>1, <2>2 DEF Pending
  <2>4. CASE d # cur
    <3>1. Pending(d) = event_flag[d] /\ reported'[d] = reported[d]
      BY <2>1, <2>4 DEF Pending, InFlight
    <3> QED
      BY <2>1, <2>2, <2>3, <3>1 DEF ReportInv
  <2>5. CASE d = cur
    <3>1. Pending(d) = event_flag[d] \cup {ev} /\ LastValue[d] \in {0, 1}
      BY <2>1, <2>5 DEF Pending, InFlight, Levels
    <3>2. LevelEvent(1 - LastValue[d]) \notin Pending(d)
      BY <2>2 DEF ReportInv
    <3>3. CASE ev = LevelEvent(LastValue[d])
      <4>1. reported'[d] = LastValue[d]
        BY <2>1, <2>5, <3>1, <3>3 DEF LevelEvent
      <4> QED
        BY <2>1, <2>3, <3>1, <3>2, <4>1
    <3>4. CASE ev # LevelEvent(LastValue[d])
      <4>1. ev = "change"
        BY <3>1, <3>2, <3>4 DEF LevelEvent, Events
      <4>2. reported'[d] = reported[d]
        BY <2>1, <2>5, <4>1
      <4>3. LevelEvent(LastValue[d]) \in event_flag[d]
               \/ reported[d] \in {NoReport, LastValue[d]}
        BY <2>2, <3>1, <3>4 DEF ReportInv
      <4> QED
        BY <2>1, <2>3, <3>1, <3>2, <4>2, <4>3
    <3> QED
      BY <3>3, <3>4
  <2> QED
    BY <2>4, <2>5
<1>6. CASE Reset
  <2>1. cur \in Spaced => event_flag[cur] = {}
    BY <1>6 DEF Reset, UndisturbedWalk, Done
  <2>2. \A d \in Spaced : event_flag'[d] = event_flag[d]
    BY <1>6, <2>1 DEF Reset
  <2>3. \A d \in Spaced : InFlight(d)' = InFlight(d) /\ Enabled(d)' = Enabled(d)
    BY <1>6 DEF Reset, InFlight, Enabled
  <2>4. UNCHANGED <<LastValue, reported>>
    BY <1>6 DEF Reset, deviceVars
  <2> QED
    BY <2>2, <2>3, <2>4 DEF ReportInv, Told, Pending
<1>7. ASSUME NEW b \in Devices, Edge(b) PROVE ReportInv'
  <2> DEFINE v   == 1 - LastValue[b]
             acc == AccNext(ChangeEventAcc[b], 1)
             due == LevelEvents(Config[b], v, IF v = 1 THEN 1 ELSE -1)
                    \cup ChangeEvents(Config[b], acc)
  <2>1. /\ LastValue' = [LastValue EXCEPT ![b] = v]
        /\ event_flag' = [event_flag EXCEPT ![b] = @ \cup due]
        /\ UNCHANGED <<pc, cur, ev, reported>>
        /\ Enabled(b) /\ (b \in Spaced => Settled(b))
    BY <1>7 DEF Edge, procVars
  <2>2. v \in Levels /\ LastValue[b] \in Levels /\ 1 - v = LastValue[b]
    BY DEF Levels
  <2>3. Told(b) => LevelEvent(v) \in due /\ LevelEvent(1 - v) \notin due
    BY <2>2, EdgeIsTold
  <2> HIDE DEF v, acc, due
  <2>4. \A d \in Spaced : Enabled(d)' = Enabled(d) /\ InFlight(d)' = InFlight(d)
    BY <2>1 DEF Enabled, InFlight
  <2> SUFFICES ASSUME NEW d \in Spaced, Enabled(d), Told(d)
               PROVE  /\ LevelEvent(1 - LastValue'[d]) \notin Pending(d)'
                      /\ LevelEvent(LastValue'[d]) \in Pending(d)'
                            \/ reported'[d] \in {NoReport, LastValue'[d]}
    BY <2>1, <2>4 DEF ReportInv, Told
  <2>5. CASE d = b
    <3>1. event_flag[d] = {} /\ InFlight(d) = {}
      BY <2>1, <2>5 DEF Settled, AtDevice, InFlight
    <3>2. Pending(d)' = due /\ LastValue'[d] = v
      BY <2>1, <2>4, <2>5, <3>1 DEF Pending
    <3> QED
      BY <2>3, <2>5, <3>2
  <2>6. CASE d # b
    <3>1. Pending(d)' = Pending(d) /\ LastValue'[d] = LastValue[d]
      BY <2>1, <2>4, <2>6 DEF Pending
    <3> QED
      BY <2>1, <3>1 DEF ReportInv
  <2> QED
    BY <2>5, <2>6
<1>8. CASE UNCHANGED vars
  BY <1>8 DEF vars, deviceVars, procVars, ReportInv, Told, Pending, InFlight, Enabled
<1> QED
  BY <1>1, <1>2, <1>3, <1>4, <1>5, <1>6, <1>7, <1>8 DEF Next, Process

(* What the observers of a device with spaced edges and both level events  *)
(* were told last is the level the device has, whenever nothing of it is   *)
(* outstanding, for any number of devices and any levels.                  *)
THEOREM ReportsAreCurrent == Spec => []LastReportIsCurrent
<1>1. Init => SpacedInv /\ ReportInv
  BY InitSpacedInv, InitReportInv
<1>2. TypeOK /\ SpacedInv /\ ReportInv /\ [Next]_vars => SpacedInv' /\ ReportInv'
  BY StepSpacedInv, StepReportInv
<1>3. TypeOK /\ ReportInv => LastReportIsCurrent
  <2> SUFFICES ASSUME TypeOK, ReportInv, NEW d \in Spaced, Settled(d), Enabled(d),
                      Told(d), reported[d] # NoReport
               PROVE  reported[d] = LastValue[d]
    BY DEF LastReportIsCurrent, Told
  <2>1. Pending(d) = {}
    BY DEF Settled, AtDevice, Pending, InFlight
  <2> QED
    BY <2>1 DEF ReportInv
<1> QED
  BY <1>1, <1>2, <1>3, TypeCorrect, PTL DEF Spec

-----------------------------------------------------------------------------

(* Every step of the node raises events, posts one, or changes nothing of  *)
(* what is outstanding.                                                    *)
LEMMA StepImplementsPosting ==
    TypeOK /\ SpacedInv /\ [Next]_vars => [Posting!Next]_<<Outstanding, Owed>>
<1> SUFFICES ASSUME TypeOK, SpacedInv, [Next]_vars
             PROVE  Posting!Next \/ UNCHANGED <<Outstanding, Owed>>
  OBVIOUS
<1> USE SpacedAssumption DEF TypeOK, SpacedInv
<1>1. CASE Boot
  <2>1. ASSUME NEW d \in Spaced
        PROVE  (IF Enabled(d) THEN event_flag[d] \cup InFlight(d) ELSE {})'
               = IF Enabled(d) THEN event_flag[d] \cup InFlight(d) ELSE {}
    <3>1. InFlight(d) = {} /\ InFlight(d)' = {}
      BY <1>1 DEF Boot, InFlight
    <3>2. CASE d = cur
      BY <1>1, <3>1, <3>2, NDevAssumption DEF Boot, Enabled, Devices
    <3>3. CASE d # cur
      BY <1>1, <3>1, <3>3, NDevAssumption DEF Boot, Enabled, Devices
    <3> QED
      BY <3>2, <3>3
  <2> QED
    BY <1>1, <2>1 DEF Boot, Outstanding, Owed
<1>2. CASE Poll \/ OtherEvent
  BY <1>2 DEF Poll, OtherEvent, StartWalk, Outstanding, Owed, Enabled, InFlight
<1>3. CASE Test
  BY <1>3 DEF Test, Advance, Outstanding, Owed, Enabled, InFlight
<1>4. CASE Clear
  <2>1. \A d \in Spaced :
           (event_flag[d] \cup InFlight(d))' = event_flag[d] \cup InFlight(d)
    BY <1>4 DEF Clear, UndisturbedWalk, InFlight
  <2>2. \A d \in Spaced : Enabled(d)' /\ Enabled(d)
    BY <1>4 DEF Clear, Enabled
  <2> QED
    BY <1>4, <2>1, <2>2 DEF Clear, Outstanding, Owed
<1>5. CASE Notify
  <2>1. /\ event_flag' = event_flag
        /\ owed' = [owed EXCEPT ![cur] = @ \ {ev}]
        /\ pc = "notify" /\ pc' \in {"test", "reset"}
        /\ cur' = cur
    BY <1>5 DEF Notify, Advance
  <2>2. CASE cur \in Spaced
    <3>1. ev \notin event_flag[cur]
      BY <2>1, <2>2 DEF UndisturbedWalk
    <3>2. Outstanding' = [Outstanding EXCEPT ![cur] = @ \ {ev}]
      <4>1. \A d \in Spaced : Enabled(d) /\ Enabled(d)' /\ InFlight(d)' = {}
        BY <2>1 DEF Enabled, InFlight
      <4>2. \A d \in Spaced : InFlight(d) = IF d = cur THEN {ev} ELSE {}
        BY <2>1 DEF InFlight
      <4>3. Outstanding = [d \in Spaced |->
                              event_flag[d] \cup (IF d = cur THEN {ev} ELSE {})]
        BY <4>1, <4>2 DEF Outstanding
      <4>4. Outstanding' = [d \in Spaced |-> event_flag[d]]
        BY <2>1, <4>1 DEF Outstanding
      <4>5. \A d \in Spaced : event_flag[d] =
               IF d = cur THEN Outstanding[cur] \ {ev} ELSE Outstanding[d]
        BY <2>2, <3>1, <4>3
      <4> QED
        BY <2>2, <4>3, <4>4, <4>5
    <3>3. ev \in Outstanding[cur]
      BY <2>1, <2>2 DEF Outstanding, Enabled, InFlight
    <3>4. Owed' = [Owed EXCEPT ![cur] = @ \ {ev}]
      BY <2>1, <2>2 DEF Owed
    <3>5. Posting!Post(cur, ev)
      BY <3>2, <3>3, <3>4 DEF Posting!Post
    <3> QED
      BY <2>2, <3>5 DEF Posting!Next
  <2>3. CASE cur \notin Spaced
    BY <2>1, <2>3 DEF Outstanding, Owed, Enabled, InFlight
  <2> QED
    BY <2>2, <2>3
<1>6. CASE Reset
  <2>1. cur \in Spaced => event_flag[cur] = {}
    BY <1>6 DEF Reset, UndisturbedWalk, Done
  <2>2. \A d \in Spaced : event_flag'[d] = event_flag[d]
    BY <1>6, <2>1 DEF Reset
  <2>3. \A d \in Spaced : InFlight(d)' = InFlight(d) /\ Enabled(d)' = Enabled(d)
    BY <1>6 DEF Reset, InFlight, Enabled
  <2> QED
    BY <1>6, <2>2, <2>3 DEF Reset, Outstanding, Owed
<1>7. ASSUME NEW b \in Devices, Edge(b)
      PROVE  Posting!Next \/ UNCHANGED <<Outstanding, Owed>>
  <2>1. PICK due \in SUBSET Events :
              /\ event_flag' = [event_flag EXCEPT ![b] = @ \cup due]
              /\ owed' = [owed EXCEPT ![b] = @ \cup due]
              /\ UNCHANGED <<pc, cur, ev>>
              /\ Enabled(b)
    BY <1>7, EdgeEffect
  <2>2. CASE b \in Spaced
    <3>1. Outstanding' = [Outstanding EXCEPT ![b] = @ \cup due]
      BY <2>1 DEF Outstanding, Enabled, InFlight
    <3>2. Owed' = [Owed EXCEPT ![b] = @ \cup due]
      BY <2>1, <2>2 DEF Owed
    <3> QED
      BY <2>2, <3>1, <3>2 DEF Posting!Next, Posting!Raise
  <2>3. CASE b \notin Spaced
    BY <2>1, <2>3 DEF Outstanding, Owed, Enabled, InFlight
  <2> QED
    BY <2>2, <2>3
<1>8. CASE UNCHANGED vars
  BY <1>8 DEF vars, Outstanding, Owed, Enabled, InFlight
<1> QED
  BY <1>1, <1>2, <1>3, <1>4, <1>5, <1>6, <1>7, <1>8 DEF Next, Process

(* For the devices whose edges are further apart than a walk, the flags,   *)
(* the poll and the walk of susensors_process implement EventPosting: what *)
(* is raised stays outstanding until it is posted, and nothing else is     *)
(* posted.                                                                 *)
THEOREM PostingImplemented == Spec => ImplementsPosting
<1>1. Init => Posting!Init
  BY NDevAssumption, SpacedAssumption
     DEF Init, Posting!Init, Outstanding, Owed, Enabled, InFlight, Devices
<1>2. TypeOK /\ SpacedInv /\ [Next]_vars => [Posting!Next]_<<Outstanding, Owed>>
  BY StepImplementsPosting
<1>3. Init => SpacedInv
  BY InitSpacedInv
<1>4. TypeOK /\ SpacedInv /\ [Next]_vars => SpacedInv'
  BY StepSpacedInv
<1> QED
  BY <1>1, <1>2, <1>3, <1>4, TypeCorrect, PTL
     DEF Spec, ImplementsPosting, Posting!Spec
=============================================================================
