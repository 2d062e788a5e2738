--------------------------------- MODULE Node ---------------------------------
(***************************************************************************)
(* The node's devices and its uart proxy, one instance of each.  The eight *)
(* components share no state that any of them tells apart, so a behaviour  *)
(* follows one of them, chosen at the start (focus), and the others rest   *)
(* in an initial state.                                                    *)
(***************************************************************************)
EXTENDS Integers, Sequences

CONSTANTS
    Period, AboveAt, BelowAt, PulseEvents, StepSize, ValueSize, MaxPulses, \* PulseCounter
    DEBOUNCE_DURATION, press_duration, CounterSize, ButtonEvents,          \* PushButton
    MaxPosted, MaxHeld,
    PulsesPerIrq, TICKTIMEOUT,                                             \* MainsDetector
    Relays, Leds, Pairs, RelayEvents, MaxRequests,                         \* Actuation
    GUIs, LevelType, FirstLevel, FirstActive, Values, Masks, MaxSetups,    \* EventSetup
    Messages, MaxFrames, MaxNoise,                                         \* UartFrames
    NSensors, MAX_RESOURCES, RX_BUFFERS, EarlyPuts, MaxOwn, MaxPuts,       \* UartProxy
    Confs, UartDevices, Numbers, StringMax, LASTVALSIZE, Room, MaxReadings \* UartStrings

Components == {"pulse", "button", "mains", "actuation", "setup", "frames", "proxy", "strings"}

VARIABLE focus

VARIABLES TAR, captured, polled, LastValue, ChangeEventAcc, hasEvent, LastEventValue,
          total, overrun, rounds, silent
pulseVars == <<TAR, captured, polled, LastValue, ChangeEventAcc, hasEvent, LastEventValue,
               total, overrun, rounds, silent>>

VARIABLES pressed, edge, debounce, press_counter, listed, due, callback, loaded,
          press_event_counter, posted, heard, raised, held, dropped, raced
buttonVars == <<pressed, edge, debounce, press_counter, listed, due, callback, loaded,
                press_event_counter, posted, heard, raised, held, dropped, raced>>

VARIABLES mains, TAEN, TBEN, TAV, TBV, pulseIrq, goneIrq, prompt, detected, reports
mainsVars == <<mains, TAEN, TBEN, TAV, TBV, pulseIrq, goneIrq, prompt, detected, reports>>

VARIABLES enabled, value, net, requests, stale
actVars == <<enabled, value, net, requests, stale>>

VARIABLES config, objects, seen, asked, waiting, answers
setupVars == <<config, objects, seen, asked, waiting, answers>>

VARIABLES line, rxbuf, last_c, sent, got, joined, noise
frameVars == <<line, rxbuf, last_c, sent, got, joined, noise>>

VARIABLES phase, msgid, j, available, list, toDev, toNode, buffers, activebuffer, frames,
          reading, own, puts, inTime
uartVars == <<phase, msgid, j, available, list, toDev, toNode, buffers, activebuffer, frames,
              reading, own, puts, inTime>>

VARIABLES confs, mem, payload, strings, lastval, received, readings
stringVars == <<confs, mem, payload, strings, lastval, received, readings>>

Pulse == INSTANCE PulseCounter WITH eventsActive <- PulseEvents
Button == INSTANCE PushButton WITH eventsActive <- ButtonEvents
Mains == INSTANCE MainsDetector WITH LastValue <- detected
Act == INSTANCE Actuation WITH eventsActive <- RelayEvents
Setup == INSTANCE EventSetup
    WITH MaxRequests <- MaxSetups, held <- objects
Frames == INSTANCE UartFrames
Proxy == INSTANCE UartProxy WITH rxbuf <- buffers, posted <- frames, prompt <- inTime
Strings == INSTANCE UartStrings WITH Devices <- UartDevices

-----------------------------------------------------------------------------
(* What the theorems of NodeProofs assume of the constants.                *)

(* The period of the pulse counter is positive, and its registers have a   *)
(* width.                                                                  *)
Registers ==
    /\ Period \in Nat \ {0} /\ StepSize \in Nat \ {0} /\ ValueSize \in Nat \ {0}
    /\ PulseEvents \subseteq {"above", "below", "change"}

(* So have the button's press duration and its counter.                    *)
Times ==
    /\ DEBOUNCE_DURATION \in Nat /\ press_duration \in Nat \ {0}
    /\ CounterSize \in Nat \ {0} /\ MaxPosted \in Nat /\ MaxHeld \in Nat
    /\ ButtonEvents \subseteq {"above", "below", "change"}

(* The detector interrupts after some pulses, and its timer has a load.    *)
Detection == PulsesPerIrq \in Nat \ {0} /\ TICKTIMEOUT \in Nat \ {0}

(* Relays are the sources of pairs; a device follows one source at most.   *)
Topology ==
    /\ \A p \in Pairs :
          /\ p.src \in Relays /\ p.dst \in Act!Devices
          /\ \A e \in Act!Events : p.trig[e] \in Act!Actions \cup {"none"}
    /\ \A p, q \in Pairs : p.dst = q.dst => p = q

(* Users and GUIs make a number of requests.                               *)
Bounds == MaxRequests \in Nat /\ MaxSetups \in Nat

(* What a frame counts of a message fits in the byte it is counted in.     *)
Traffic ==
    /\ Messages \subseteq
          [seqno : Frames!Byte, cmd : Frames!Byte, payload : Seq(Frames!Byte)]
    /\ \A m \in Messages : Len(m.payload) + 2 \in Frames!Byte
    /\ MaxFrames \in Nat /\ MaxNoise \in Nat

(* The numbers of the proxy's handshake, one for the count, one for each   *)
(* sensor and one for the readings, with those that early PUTs take in     *)
(* between, stay below the one the device keeps for what it says unasked.  *)
Numbering ==
    /\ NSensors \in Nat /\ MAX_RESOURCES \in Nat /\ RX_BUFFERS \in Nat \ {0}
    /\ EarlyPuts \in BOOLEAN /\ MaxOwn \in Nat /\ MaxPuts \in Nat
    /\ NSensors + 2 + (IF EarlyPuts THEN MaxPuts ELSE 0) < Proxy!OwnSeqno

(* A string and its two zeros are within the length allowed, and there is  *)
(* a buffer to keep the strings in.                                        *)
Buffer ==
    /\ Confs \subseteq [Strings!FieldNames -> Nat]
    /\ \A c \in Confs : \A f \in Strings!FieldNames : c[f] + 2 <= StringMax
    /\ UartDevices \in Nat /\ Numbers \in Nat /\ StringMax \in Nat
    /\ LASTVALSIZE \in Nat /\ Room \in Nat \ {0} /\ MaxReadings \in Nat

ASSUME NodeAssumption ==
    /\ Registers /\ Times /\ Detection /\ Topology /\ Bounds
    /\ Traffic /\ Numbering /\ Buffer

-----------------------------------------------------------------------------

nodeVars == <<focus, pulseVars, buttonVars, mainsVars, actVars,
              setupVars, frameVars, uartVars, stringVars>>

Init ==
    /\ focus \in Components
    /\ Pulse!Init /\ Button!Init /\ Mains!Init /\ Act!Init
    /\ Setup!Init /\ Frames!Init /\ Proxy!uartsensors_init /\ Strings!Init
    /\ focus # "mains" => mains /\ prompt
    /\ focus # "proxy" => inTime

(* A step of one component, the others resting.                            *)
PulseOnly ==
    /\ focus = "pulse"
    /\ UNCHANGED <<focus, buttonVars, mainsVars, actVars, setupVars,
                   frameVars, uartVars, stringVars>>
ButtonOnly ==
    /\ focus = "button"
    /\ UNCHANGED <<focus, pulseVars, mainsVars, actVars, setupVars,
                   frameVars, uartVars, stringVars>>
MainsOnly ==
    /\ focus = "mains"
    /\ UNCHANGED <<focus, pulseVars, buttonVars, actVars, setupVars,
                   frameVars, uartVars, stringVars>>
ActOnly ==
    /\ focus = "actuation"
    /\ UNCHANGED <<focus, pulseVars, buttonVars, mainsVars, setupVars,
                   frameVars, uartVars, stringVars>>
SetupOnly ==
    /\ focus = "setup"
    /\ UNCHANGED <<focus, pulseVars, buttonVars, mainsVars, actVars,
                   frameVars, uartVars, stringVars>>
FramesOnly ==
    /\ focus = "frames"
    /\ UNCHANGED <<focus, pulseVars, buttonVars, mainsVars, actVars,
                   setupVars, uartVars, stringVars>>
ProxyOnly ==
    /\ focus = "proxy"
    /\ UNCHANGED <<focus, pulseVars, buttonVars, mainsVars, actVars,
                   setupVars, frameVars, stringVars>>
StringsOnly ==
    /\ focus = "strings"
    /\ UNCHANGED <<focus, pulseVars, buttonVars, mainsVars, actVars,
                   setupVars, frameVars, uartVars>>

Next ==
    \/ PulseOnly /\ Pulse!Next
    \/ ButtonOnly /\ Button!Next
    \/ MainsOnly /\ Mains!Next
    \/ ActOnly /\ Act!Next
    \/ SetupOnly /\ Setup!Next
    \/ FramesOnly /\ Frames!Next
    \/ ProxyOnly /\ Proxy!Next
    \/ StringsOnly /\ Strings!Next

Spec == Init /\ [][Next]_nodeVars

(* The mains goes on, both interrupts of the detector are handled, the     *)
(* device answers its requests, and frames received are handled.           *)
FairSpec ==
    /\ Spec
    /\ WF_nodeVars(Mains!MainsPeriod /\ MainsOnly)
    /\ WF_nodeVars(Mains!mainsdetect_pulsecnt_isr /\ MainsOnly)
    /\ WF_nodeVars(Mains!mainsdetect_mainsgone_isr /\ MainsOnly)
    /\ WF_nodeVars(Proxy!DeviceAnswers /\ ProxyOnly)
    /\ WF_nodeVars(Proxy!proxy_rx_callback /\ ProxyOnly)
    /\ WF_nodeVars(Proxy!uartsensors_server /\ ProxyOnly)

-----------------------------------------------------------------------------

(* The type invariant of the component that runs.                          *)
NodeTypeOK ==
    CASE focus = "pulse" -> Pulse!TypeOK
      [] focus = "button" -> Button!TypeOK
      [] focus = "mains" -> Mains!TypeOK
      [] focus = "actuation" -> Act!TypeOK
      [] focus = "setup" -> Setup!TypeOK
      [] focus = "frames" -> Frames!TypeOK
      [] focus = "proxy" -> Proxy!TypeOK
      [] focus = "strings" -> Strings!TypeOK

(* pulsesensor.c: the periods handled, and no others, are in the reading.  *)
PulsesAccounted == Pulse!PulsesAccounted

(* button-sensor.c: the long-press timer runs while the button is pressed, *)
(* and after that only if an edge was ignored or met its callback.         *)
TimerFollowsPin == Button!TimerFollowsPin

(* button-sensor.c: the intervals counted are within the time the button   *)
(* is held, unless an edge was ignored or met the timer's expiry.          *)
CountedIsHeld == Button!CountedIsHeld

(* mainsdetect.c: what the detector reports follows the mains.             *)
MainsIsSeen == focus = "mains" => Mains!MainsIsSeen

(* relay.c, ledindicator.c: a device that is set by another follows it.    *)
FollowersAgree == Act!FollowersAgree

(* susensorcommon.c, sensor.cpp: a set-up that is accepted is stored as it *)
(* was sent, and one is refused only for what its GUI had not read.        *)
AcceptedIsStored == Setup!AcceptedIsStored

(* uart_protocolhandler.c: what is decoded was sent.                       *)
AcceptedIsSent == Frames!AcceptedIsSent

(* uartsensors.c: every proxy is that of its own sensor.                   *)
RowIsItsSensor == Proxy!RowIsItsSensor

(* uartsensors.c: the handshake with the device ends.                      *)
HandshakeEnds == focus = "proxy" => Proxy!HandshakeEnds

(* uart_protocolhandler.c: the strings of the sensors are kept.            *)
StringsIntact == Strings!StringsIntact
=============================================================================
