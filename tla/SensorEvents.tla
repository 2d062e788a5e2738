---------------------------- MODULE SensorEvents ----------------------------
(***************************************************************************)
(* How a sensor node turns a changed input into a notification of its      *)
(* observers.  A driver stores the new value, setEventU8 decides which     *)
(* events are due (dev/susensorcommon.c), susensors_changed sets them in   *)
(* the device's event_flag and polls susensors_process, and the process    *)
(* walks the device list and notifies the observers of every flagged event *)
(* (lib/susensors.c).                                                      *)
(*                                                                         *)
(* Drivers like mainsdetect run in interrupt context, so an edge can fall  *)
(* between any two steps of the walk; a relay or an LED is set by a CoAP   *)
(* handler, that is, by another cooperative process, so only between two   *)
(* runs of susensors_process.                                              *)
(***************************************************************************)
EXTENDS Integers

CONSTANTS
    NDev,         \* number of devices; 1..NDev is the order of the list sudevices
    IsrDevices,   \* the devices whose driver raises events from an interrupt
    Config,       \* struct resourceconf of every device: the event levels and
                  \* the set eventsActive
    Spaced        \* the devices whose edges are further apart than a walk
                  \* takes: an edge comes only when the events of the one
                  \* before are dispatched; the others' edges come any time

Devices == 1..NDev
Events == {"change", "below", "above"}   \* SUSENSORS_*_EVENT
Levels == {0, 1}                         \* what relay, LED and mains report

ASSUME NDevAssumption == NDev \in Nat \ {0}
ASSUME IsrDevicesAssumption == IsrDevices \subseteq Devices
ASSUME ConfigAssumption ==
    Config \in [Devices -> [AboveEventAt : Nat, BelowEventAt : Nat,
                            ChangeEvent : Nat, eventsActive : SUBSET Events]]
ASSUME SpacedAssumption == Spaced \subseteq Devices

VARIABLES
    LastValue,        \* runtime->LastValue of every device
    ChangeEventAcc,   \* runtime->ChangeEventAcc of every device
    event_flag,       \* the events raised and not yet dispatched
    needspoll,        \* Contiki's poll flag of susensors_process
    pc,               \* where susensors_process is
    cur,              \* its static variable d
    ev,               \* the event whose "if" of the walk is next
    reg,              \* event_flag as loaded by the test, not stored back yet
    owed,             \* history: events raised and not reported since
    reported          \* history: the level the observers were told last

vars == <<LastValue, ChangeEventAcc, event_flag, needspoll, pc, cur, ev, reg,
          owed, reported>>
procVars == <<pc, cur, ev, reg>>
deviceVars == <<LastValue, ChangeEventAcc>>

NoReport == -1
U8 == 256

(* The process has configured d, so its interrupts or commands are enabled. *)
Enabled(d) == pc = "boot" => d < cur

(* The walk is busy with d. *)
AtDevice(d) == pc \in {"test", "clear", "notify", "reset"} /\ cur = d

(* No event of d is waiting or being dispatched. *)
Settled(d) == event_flag[d] = {} /\ ~AtDevice(d)

-----------------------------------------------------------------------------

(* event_flag is a field of a struct the driver builds on its stack and    *)
(* never sets, so it holds anything until the process has configured the   *)
(* device; runtimes are static.                                            *)
Init ==
    /\ LastValue = [d \in Devices |-> 0]
    /\ ChangeEventAcc = [d \in Devices |-> 0]
    /\ event_flag \in [Devices -> SUBSET Events]
    /\ needspoll = FALSE
    /\ pc = "boot"
    /\ cur = 1
    /\ ev = "change"
    /\ reg = {}
    /\ owed = [d \in Devices |-> {}]
    /\ reported = [d \in Devices |-> NoReport]

(* One round of the configuration loop that starts susensors_process. *)
BootOneTooFar ==       \* slip: off by one at the end of the list
    /\ pc = "boot"
    /\ event_flag' = [event_flag EXCEPT ![cur] = {}]
    /\ IF cur <= NDev
         THEN cur' = cur + 1 /\ pc' = pc
         ELSE cur' = cur /\ pc' = "idle"
    /\ UNCHANGED <<deviceVars, needspoll, ev, reg, owed, reported>>
BootKeepsFlags ==      \* slip: d->event_flag = 0 forgotten
    /\ pc = "boot"
    /\ IF cur < NDev
         THEN cur' = cur + 1 /\ pc' = pc
         ELSE cur' = cur /\ pc' = "idle"
    /\ UNCHANGED <<deviceVars, event_flag, needspoll, ev, reg, owed, reported>>
Boot ==
    /\ pc = "boot"
    /\ event_flag' = [event_flag EXCEPT ![cur] = {}]
    /\ IF cur < NDev
         THEN cur' = cur + 1 /\ pc' = pc
         ELSE cur' = cur /\ pc' = "idle"
    /\ UNCHANGED <<deviceVars, needspoll, ev, reg, owed, reported>>

(* setEventU8: the event of the direction the value moved in, if its level *)
(* is reached and it is active ...                                         *)
LevelEventsStrict(c, value, dir) ==      \* slip: > for >=
    LET reached == IF dir < 0 THEN value <= c.BelowEventAt
                              ELSE value > c.AboveEventAt
    IN IF reached THEN {IF dir < 0 THEN "below" ELSE "above"} \cap c.eventsActive
                  ELSE {}
LevelEvents(c, value, dir) ==
    LET reached == IF dir < 0 THEN value <= c.BelowEventAt
                              ELSE value >= c.AboveEventAt
        event   == IF dir < 0 THEN "below" ELSE "above"
    IN IF reached THEN {event} \cap c.eventsActive ELSE {}

(* ... and the change event once the accumulated steps reach its level.    *)
AccNext(acc, step) == (acc + step) % U8
ChangeDue(c, acc) == c.ChangeEvent <= acc
ChangeEvents(c, acc) ==
    IF ChangeDue(c, acc) THEN {"change"} \cap c.eventsActive ELSE {}

(* The value of d changes to the other level (relay_on, relay_off, the two *)
(* ISRs of mainsdetect): setEventU8 with step 1, then susensors_changed.   *)
Edge(d) ==
    LET value == 1 - LastValue[d]
        acc   == AccNext(ChangeEventAcc[d], 1)
        due   == LevelEvents(Config[d], value, IF value = 1 THEN 1 ELSE -1)
                 \cup ChangeEvents(Config[d], acc)
    IN /\ Enabled(d)
       /\ d \in IsrDevices \/ pc = "idle"
       /\ d \in Spaced => Settled(d)
       /\ LastValue' = [LastValue EXCEPT ![d] = value]
       /\ ChangeEventAcc' = [ChangeEventAcc EXCEPT ![d] =
                                IF ChangeDue(Config[d], acc) THEN 0 ELSE acc]
       /\ event_flag' = [event_flag EXCEPT ![d] = @ \cup due]
       /\ needspoll' = (needspoll \/ due # {})
       /\ owed' = [owed EXCEPT ![d] = @ \cup due]
       /\ UNCHANGED <<procVars, reported>>

-----------------------------------------------------------------------------

(* The walk over the devices, one "if" after the other. *)
StartWalk ==
    /\ pc = "idle"
    /\ pc' = "test"
    /\ cur' = 1
    /\ ev' = "change"
    /\ UNCHANGED <<deviceVars, event_flag, reg, owed, reported>>

(* Contiki delivers PROCESS_EVENT_POLL: the flag is cleared, then the      *)
(* process runs.                                                           *)
Poll == needspoll /\ needspoll' = FALSE /\ StartWalk

(* Any event the process has no branch for (the broadcasts of the button   *)
(* and of the nodeinfo resource) takes the same branch as a poll.          *)
OtherEvent == StartWalk /\ UNCHANGED needspoll

(* The next "if" of the device, or the reset after the third one. *)
AdvanceSkipsBelow ==    \* slip: an "else" between the tests
    IF ev = "above"
      THEN pc' = "reset" /\ ev' = ev
      ELSE pc' = "test" /\ ev' = "above"
Advance ==
    IF ev = "above"
      THEN pc' = "reset" /\ ev' = ev
      ELSE pc' = "test" /\ ev' = (IF ev = "change" THEN "below" ELSE "above")

(* The test of a flag.  The value it loads is the one the "&=" of the next *)
(* line works on, whether or not the compiler loads it again.              *)
Test ==
    /\ pc = "test"
    /\ IF ev \in event_flag[cur]
         THEN reg' = event_flag[cur] /\ pc' = "clear" /\ ev' = ev
         ELSE reg' = reg /\ Advance
    /\ UNCHANGED <<deviceVars, event_flag, needspoll, cur, owed, reported>>

(* The store of d->event_flag &= ~event. *)
ClearAll ==    \* slip: every flag cleared at the first event
    /\ pc = "clear"
    /\ event_flag' = [event_flag EXCEPT ![cur] = {}]
    /\ pc' = "notify"
    /\ UNCHANGED <<deviceVars, needspoll, cur, ev, reg, owed, reported>>
Clear ==
    /\ pc = "clear"
    /\ event_flag' = [event_flag EXCEPT ![cur] = reg \ {ev}]
    /\ pc' = "notify"
    /\ UNCHANGED <<deviceVars, needspoll, cur, ev, reg, owed, reported>>

(* coap_notify_observers_sub: the observers of the event's sub-resource    *)
(* get a notification.                                                     *)
Notify ==
    /\ pc = "notify"
    /\ owed' = [owed EXCEPT ![cur] = @ \ {ev}]
    /\ reported' = [reported EXCEPT ![cur] = CASE ev = "above" -> 1
                                               [] ev = "below" -> 0
                                               [] OTHER -> @]
    /\ Advance
    /\ UNCHANGED <<deviceVars, event_flag, needspoll, cur, reg>>

(* d->event_flag = SUSENSORS_NO_EVENT, then the next device or the wait.   *)
ResetClearsPoll ==    \* slip: the poll flag cleared after the walk, not before
    /\ pc = "reset"
    /\ event_flag' = [event_flag EXCEPT ![cur] = {}]
    /\ IF cur < NDev
         THEN cur' = cur + 1 /\ pc' = "test" /\ ev' = "change" /\ UNCHANGED needspoll
         ELSE cur' = cur /\ pc' = "idle" /\ ev' = ev /\ needspoll' = FALSE
    /\ UNCHANGED <<deviceVars, reg, owed, reported>>
Reset ==
    /\ pc = "reset"
    /\ event_flag' = [event_flag EXCEPT ![cur] = {}]
    /\ IF cur < NDev
         THEN cur' = cur + 1 /\ pc' = "test" /\ ev' = "change"
         ELSE cur' = cur /\ pc' = "idle" /\ ev' = ev
    /\ UNCHANGED <<deviceVars, needspoll, reg, owed, reported>>

Process == Boot \/ Poll \/ Test \/ Clear \/ Notify \/ Reset

Next == Process \/ OtherEvent \/ \E d \in Devices : Edge(d)

(* The scheduler runs a process that has something to do; nothing obliges  *)
(* an input to change or another process to broadcast.                     *)
Spec == Init /\ [][Next]_vars
FairSpec == Spec /\ WF_vars(Process)

-----------------------------------------------------------------------------

(* The value of every variable. *)
TypeOK ==
    /\ LastValue \in [Devices -> Levels]
    /\ ChangeEventAcc \in [Devices -> 0..U8 - 1]
    /\ event_flag \in [Devices -> SUBSET Events]
    /\ needspoll \in BOOLEAN
    /\ pc \in {"boot", "idle", "test", "clear", "notify", "reset"}
    /\ cur \in Devices
    /\ ev \in Events
    /\ reg \in SUBSET Events
    /\ owed \in [Devices -> SUBSET Events]
    /\ reported \in [Devices -> Levels \cup {NoReport}]

(* A flagged event is never forgotten by the scheduler: either a poll is   *)
(* pending or the walk has yet to finish with the device.  It is what      *)
(* setting the flag before polling, and Contiki clearing needspoll before  *)
(* it runs the process, are for.                                           *)
NoLostWakeup ==
    \A d \in Devices :
        Enabled(d) /\ event_flag[d] # {} =>
            \/ needspoll
            \/ pc \in {"test", "clear", "notify", "reset"} /\ cur <= d

(* The observers are notified of an event only if the driver raised it     *)
(* after the last notification of it, whatever flags were in the device's  *)
(* uninitialised memory and however edges fall between load and store.     *)
OnlyRaisedEventsPosted == pc \in {"clear", "notify"} => ev \in owed[cur]

(* The event whose flag is cleared but whose notification is still to come. *)
InFlight(d) == IF pc = "notify" /\ cur = d THEN {ev} ELSE {}

(* No event of d is lost: every raised event is in the flag, or about to   *)
(* be notified, until its notification has gone out.                       *)
Kept(d) == owed[d] \subseteq event_flag[d] \cup InFlight(d)

(* susensors_process drops no event of a device whose edges are spaced,    *)
(* whatever edges of other devices fall into its walk.                     *)
SpacedEventsKept == \A d \in Spaced : Kept(d)

(* susensors_process drops no event of any device.                         *)
NoEventLost == \A d \in Devices : Kept(d)

(* When a device with both level events active has settled, its observers  *)
(* were told the level it has.                                             *)
LastReportIsCurrent ==
    \A d \in Spaced :
        /\ Settled(d)
        /\ Enabled(d)
        /\ {"above", "below"} \subseteq Config[d].eventsActive
        /\ Config[d].AboveEventAt <= 1
        /\ reported[d] # NoReport
        => reported[d] = LastValue[d]

(* Every raised event of a device with spaced edges is notified in the     *)
(* end, even if another device never stops raising events.                 *)
EveryEventPosted ==
    \A d \in Spaced : \A e \in Events : e \in owed[d] ~> e \notin owed[d]

(* The promise of the devices with spaced edges, EventPosting: what they    *)
(* have noted to post is what is flagged or in flight, and it is what they *)
(* owe to their observers.                                                 *)
Outstanding ==
    [d \in Spaced |-> IF Enabled(d) THEN event_flag[d] \cup InFlight(d) ELSE {}]
Owed == [d \in Spaced |-> owed[d]]
Posting == INSTANCE EventPosting
               WITH Devices <- Spaced, pending <- Outstanding, owed <- Owed
ImplementsPosting == Posting!Spec
=============================================================================
