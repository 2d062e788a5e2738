------------------------------ MODULE Actuation ------------------------------
(***************************************************************************)
(* Relays and LEDs that follow other relays (dev/relay.c,                  *)
(* dev/ledindicator.c).  A pair makes its destination observe the events   *)
(* of the source that have a trigger, and every notification calls the     *)
(* action of that trigger (above_notificationcb and its two siblings,      *)
(* lib/susensors.c); a relay that changes raises events of its own.  A     *)
(* request and the walk of susensors_process it causes are one step: the   *)
(* process is polled before the next request is served.  What one source   *)
(* sends to one destination stays in order.                                *)
(***************************************************************************)
EXTENDS Integers, Sequences

CONSTANTS
    Relays, Leds,   \* the devices
    Pairs,          \* records src, dst, trig; a destination has one source
    eventsActive,   \* of every relay's configuration
    MaxRequests     \* bound of the checks

Devices == Relays \cup Leds
Events == {"above", "below", "change"}
Actions == {"setOn", "setOff", "setToggle"}

VARIABLES
    enabled,      \* the relays susensors_process has configured
    value,        \* the level of every device: runtime->LastValue, the pin
    net,          \* for every pair, the notifications on their way
    requests,     \* requests of users so far
    stale         \* history: pairs a notification of which was lost or ignored, or
                  \* whose destination a user set, since the last that sets a level

actVars == <<enabled, value, net, requests, stale>>

Init ==
    /\ enabled = {}
    /\ value = [d \in Devices |-> 0]
    /\ net = [p \in Pairs |-> <<>>]
    /\ requests = 0
    /\ stale = {}

(* configure(SUSENSORS_ACTIVE).                                            *)
Activate(d) ==
    /\ d \in Relays \ enabled
    /\ enabled' = enabled \cup {d}
    /\ UNCHANGED <<value, net, requests, stale>>

-----------------------------------------------------------------------------

(* setEventU8 with the levels of relayconfigs: a change to 1 is above, one *)
(* to 0 is below, and either is a change.                                  *)
EventsOf(d, v) == {"change", IF v = 1 THEN "above" ELSE "below"} \cap eventsActive[d]

WalkOrder == <<"change", "below", "above">>

(* What the observers of d are sent when its level becomes v: the events   *)
(* a pair has a trigger for.                                               *)
Sent(p, e, due) == IF e \in due /\ p.trig[e] # "none" THEN <<e>> ELSE <<>>
SentOf(p, due) ==
    Sent(p, WalkOrder[1], due) \o Sent(p, WalkOrder[2], due) \o Sent(p, WalkOrder[3], due)
Notifications(d, v) ==
    [p \in Pairs |-> IF p.src = d THEN SentOf(p, EventsOf(d, v)) ELSE <<>>]

(* set: relay_on and relay_off do nothing to a relay that is there already *)
(* or not enabled; a LED is always set and raises no event.                *)
Takes(d) == d \in Leds \/ d \in enabled
Level(d, a) == IF ~Takes(d) THEN value[d]
               ELSE CASE a = "setOn" -> 1 [] a = "setOff" -> 0 [] a = "setToggle" -> 1 - value[d]
(* Slip: an action that changes nothing is notified as well.               *)
SetAlways(d, a, queues) ==
    LET v == Level(d, a) IN
    /\ value' = [value EXCEPT ![d] = v]
    /\ net' = IF d \in Relays
              THEN [p \in Pairs |-> queues[p] \o Notifications(d, v)[p]]
              ELSE queues
set(d, a, queues) ==
    LET v == Level(d, a) IN
    /\ value' = [value EXCEPT ![d] = v]
    /\ net' = IF d \in Relays /\ v # value[d]
              THEN [p \in Pairs |-> queues[p] \o Notifications(d, v)[p]]
              ELSE queues
InTo(d) == {p \in Pairs : p.dst = d}

(* PUT ?setCommand=a.                                                      *)
SetCommand(d, a) ==
    /\ requests < MaxRequests
    /\ requests' = requests + 1
    /\ set(d, a, net)
    /\ stale' = stale \cup InTo(d)
    /\ UNCHANGED enabled

(* PUT ?postEvent: the eventHandler of a relay acts on one of the events;  *)
(* that of a LED toggles on a change, after what it did for a level.       *)
RelayAction(E) == IF "above" \in E THEN "setOn" ELSE IF "below" \in E THEN "setOff" ELSE "setToggle"
LedAction(E) ==
    IF E \cap {"above", "below"} = {} THEN "setToggle"
    ELSE IF ("above" \in E) = ("change" \in E) THEN "setOff" ELSE "setOn"
EventAction(d, E) == IF d \in Leds THEN LedAction(E) ELSE RelayAction(E)
PostEvent(d, E) ==
    /\ requests < MaxRequests /\ E # {}
    /\ requests' = requests + 1
    /\ set(d, EventAction(d, E), net)
    /\ stale' = stale \cup InTo(d)
    /\ UNCHANGED enabled

(* A notification arrives: the handler setEventhandlers has chosen.        *)
Rest(p) == [net EXCEPT ![p] = Tail(@)]
Notified(p) ==
    LET a == p.trig[Head(net[p])] IN
    /\ net[p] # <<>>
    /\ set(p.dst, a, Rest(p))
    /\ stale' = IF ~Takes(p.dst) THEN stale \cup {p}
                ELSE IF a \in {"setOn", "setOff"} THEN stale \ {p} ELSE stale
    /\ UNCHANGED <<enabled, requests>>

(* ... or is lost.                                                         *)
Lost(p) ==
    /\ net[p] # <<>>
    /\ net' = Rest(p)
    /\ stale' = stale \cup {p}
    /\ UNCHANGED <<enabled, value, requests>>

Next ==
    \/ \E d \in Devices :
         \/ Activate(d)
         \/ \E a \in Actions : SetCommand(d, a)
         \/ \E E \in SUBSET Events : PostEvent(d, E)
    \/ \E p \in Pairs : Notified(p) \/ Lost(p)
Spec == Init /\ [][Next]_actVars

-----------------------------------------------------------------------------

(* The value of every variable.                                            *)
TypeOK ==
    /\ enabled \subseteq Relays
    /\ value \in [Devices -> {0, 1}]
    /\ \A p \in Pairs : \A i \in DOMAIN net[p] : net[p][i] \in Events
    /\ requests \in 0..MaxRequests
    /\ stale \subseteq Pairs

Copies(p) ==
    /\ p.trig["above"] = "setOn" /\ p.trig["below"] = "setOff"
    /\ {"above", "below"} \subseteq eventsActive[p.src]
Toggles(p) ==
    /\ p.trig = [e \in Events |-> IF e = "change" THEN "setToggle" ELSE "none"]
    /\ "change" \in eventsActive[p.src]

(* When no notification is on its way, a device that copies or toggles     *)
(* with a source has the level of that source, along chains of pairs and   *)
(* whichever notifications are sent together, unless a notification was    *)
(* lost or ignored, or a user set the device itself; the next notification *)
(* of a level heals a device that copies (setEventU8, the walk of          *)
(* susensors_process, set of relay.c and ledindicator.c).                  *)
FollowersAgree ==
    \A p \in Pairs \ stale :
        net[p] = <<>> /\ (Copies(p) \/ Toggles(p)) => value[p.dst] = value[p.src]

(* A follower agrees when nothing is on its way, lost notifications or     *)
(* not.  It does not hold: nothing repeats a notification of the node.     *)
AlwaysAgree ==
    \A p \in Pairs : net[p] = <<>> /\ (Copies(p) \/ Toggles(p)) => value[p.dst] = value[p.src]

(* Users that stop leave the devices at rest.  It does not hold for a ring *)
(* of pairs whose notifications cross.                                     *)
ComesToRest == <>(requests = MaxRequests) => <>[](\A p \in Pairs : net[p] = <<>>)
=============================================================================
