----------------------------- MODULE UartProxy ------------------------------
(***************************************************************************)
(* The node's proxy of the sensors of a device behind the uart             *)
(* (apps/uartsensors/uartsensors.c and res-uartsensors.c): the handshake   *)
(* that reads the configuration of every sensor, and then their readings.  *)
(* The device is the one of UartTest (proto1.cpp, guiglue.cpp): it answers *)
(* with the number of the request, and numbers what it says unasked 255.   *)
(* The line keeps the frames whole and in order (module UartFrames).       *)
(***************************************************************************)
EXTENDS Integers, Sequences, FiniteSets, SequencesExt

CONSTANTS
    NSensors,         \* devinfo.count() of the device
    MAX_RESOURCES,    \* the node's pool
    RX_BUFFERS,       \* the receive buffers
    EarlyPuts,        \* TRUE: a PUT may come as soon as a sensor is found
    MaxOwn,           \* bounds of the checks
    MaxPuts

Ids == 0..NSensors - 1
OwnSeqno == 255
Nothing == [seqno |-> 0, cmd |-> "none", id |-> 0, val |-> 0]
Frame(seqno, cmd, id, val) == [seqno |-> seqno, cmd |-> cmd, id |-> id, val |-> val]

VARIABLES
    phase,      \* the place of uartsensors_server: "count", "config", "run"
    msgid,      \* the number of the last request
    j,          \* the sensor asked for
    available,  \* resources_availble
    list,       \* proxy_resource_list: [id, conf, lastval]
    toDev,      \* requests on the line
    toNode,     \* frames on the line
    rxbuf,      \* the receive buffers: the frame in each
    activebuffer,
    posted,     \* the buffers posted to uartsensors_server
    reading,    \* the device's readings: a number that grows
    own,        \* frames sent unasked
    puts,       \* PUT eventsetup requests served
    prompt      \* a posted buffer is read before all the others are full: chosen once

uartVars == <<phase, msgid, j, available, list, toDev, toNode, rxbuf, activebuffer, posted,
              reading, own, puts, prompt>>

uartsensors_init ==
    /\ phase = "count" /\ msgid = 1 /\ j = 0 /\ available = 0 /\ list = <<>>
    /\ toDev = <<[seqno |-> 1, cmd |-> "count", id |-> 0]>>
    /\ toNode = <<>> /\ posted = <<>> /\ own = 0 /\ puts = 0 /\ reading = 1
    /\ rxbuf = [b \in 0..RX_BUFFERS - 1 |-> Nothing] /\ activebuffer = 1 % RX_BUFFERS
    /\ prompt \in BOOLEAN

-----------------------------------------------------------------------------

(* handleIncomming: one answer, or a burst of them; setval has no handler. *)
Answers(r) ==
    CASE r.cmd = "count" -> <<Frame(r.seqno, "count", 0, NSensors)>>
      [] r.cmd = "config" /\ r.id \in Ids -> <<Frame(r.seqno, "config", r.id, 0)>>
      [] r.cmd = "updateAll" ->
            [i \in 1..NSensors |-> Frame(r.seqno, "value_update", i - 1, reading)]
      [] OTHER -> <<>>
DeviceAnswers ==
    /\ toDev # <<>>
    /\ toDev' = Tail(toDev)
    /\ toNode' = toNode \o Answers(Head(toDev))
    /\ UNCHANGED <<phase, msgid, j, available, list, rxbuf, activebuffer, posted, reading, own,
                   puts, prompt>>

(* updateValue and updateTimerValue: a new reading, sent as an event or a  *)
(* value; a device may also send a level (resource_updateval).             *)
DeviceSpeaks ==
    /\ own < MaxOwn
    /\ own' = own + 1
    /\ reading' = reading + 1
    /\ \E id \in Ids, cmd \in {"event", "value_update", "updateval"} :
          toNode' = Append(toNode, Frame(OwnSeqno, cmd, id, reading'))
    /\ UNCHANGED <<phase, msgid, j, available, list, toDev, rxbuf, activebuffer, posted, puts,
                   prompt>>

(* proxy_rx_callback at the END of a frame: the buffer is posted, and the  *)
(* next one, posted or not, is begun anew.  Slips: the last buffer is not  *)
(* followed by the first; the buffer that is begun is posted.              *)
FollowingUnwrapped(b) == b + 1
Following(b) == (b + 1) % RX_BUFFERS
ReadySwitched(b) == Following(b)
Ready(b) == b
switchbuffer(frame) ==
    /\ activebuffer' = Following(activebuffer)
    /\ rxbuf' = [rxbuf EXCEPT ![activebuffer] = frame, ![activebuffer'] = Nothing]
proxy_rx_callback ==
    /\ toNode # <<>>
    /\ prompt => Len(posted) < RX_BUFFERS - 1
    /\ Len(posted) < 2 * RX_BUFFERS
    /\ toNode' = Tail(toNode)
    /\ posted' = Append(posted, Ready(activebuffer))
    /\ switchbuffer(Head(toNode))
    /\ UNCHANGED <<phase, msgid, j, available, list, toDev, reading, own, puts, prompt>>

-----------------------------------------------------------------------------

(* initResources, resumed by every frame: it goes on when the frame has    *)
(* the number of the last request.  Slip: it goes on with any frame.       *)
RightAny(frame) == frame # Nothing
Right(frame) == frame # Nothing /\ frame.seqno = msgid
NewResource(conf) == [id |-> j, conf |-> conf, lastval |-> 0, level |-> 0]
AskFor(n, id) ==
    /\ msgid' = n
    /\ toDev' = Append(toDev, [seqno |-> n % 256, cmd |-> "config", id |-> id])
AskForAll(n) ==
    /\ phase' = "run"
    /\ msgid' = n
    /\ toDev' = Append(toDev, [seqno |-> n % 256, cmd |-> "updateAll", id |-> 0])
Found(conf) ==
    list' = IF Len(list) < MAX_RESOURCES THEN Append(list, NewResource(conf)) ELSE list
initResources(frame) ==
    IF ~Right(frame) THEN UNCHANGED <<phase, msgid, j, available, list, toDev>>
    ELSE /\ IF phase = "count"
            THEN /\ available' = frame.val /\ j' = 0 /\ UNCHANGED list
            ELSE /\ Found(frame.id) /\ j' = j + 1 /\ UNCHANGED available
         /\ IF j' < available'
            THEN phase' = "config" /\ AskFor(msgid + 1, j')
            ELSE AskForAll(msgid + 1)

(* handleSensorMessages: a reading is kept as it is, a level is stored.    *)
handleSensorMessages(frame) ==
    list' = [i \in DOMAIN list |->
        IF list[i].id # frame.id THEN list[i]
        ELSE CASE frame.cmd \in {"event", "value_update"} -> [list[i] EXCEPT !.lastval = frame.val]
               [] frame.cmd = "updateval" -> [list[i] EXCEPT !.level = frame.val]
               [] OTHER -> list[i]]

(* uartsensors_server takes what is in the posted buffer by now; an empty  *)
(* buffer does not decode.                                                 *)
uartsensors_server ==
    /\ posted # <<>>
    /\ posted' = Tail(posted)
    /\ LET frame == rxbuf[Head(posted)] IN
       IF phase = "run"
       THEN /\ handleSensorMessages(frame)
            /\ UNCHANGED <<phase, msgid, j, available, toDev>>
       ELSE initResources(frame)
    /\ UNCHANGED <<toNode, rxbuf, activebuffer, reading, own, puts, prompt>>

(* res_proxy_put_handler with eventsetup: uartsensors_find knows a sensor  *)
(* as soon as it is listed; uartsensors_setEventVal takes the next number. *)
uartsensors_setEventVal ==
    /\ phase = "run" \/ EarlyPuts
    /\ puts < MaxPuts
    /\ puts' = puts + 1
    /\ msgid' = msgid + 1
    /\ \E i \in DOMAIN list :
          toDev' = Append(toDev, [seqno |-> msgid' % 256, cmd |-> "setval", id |-> list[i].id])
    /\ UNCHANGED <<phase, j, available, list, toNode, rxbuf, activebuffer, posted, reading, own,
                   prompt>>

Next ==
    \/ DeviceAnswers \/ DeviceSpeaks
    \/ proxy_rx_callback \/ uartsensors_server \/ uartsensors_setEventVal
Spec == uartsensors_init /\ [][Next]_uartVars

-----------------------------------------------------------------------------

(* The value of every variable.                                            *)
TypeOK ==
    /\ phase \in {"count", "config", "run"}
    /\ msgid \in Nat /\ j \in 0..NSensors /\ available \in {0, NSensors}
    /\ Len(list) <= MAX_RESOURCES /\ activebuffer \in 0..RX_BUFFERS - 1
    /\ posted \in Seq(0..RX_BUFFERS - 1)
    /\ own \in 0..MaxOwn /\ puts \in 0..MaxPuts /\ prompt \in BOOLEAN

(* Every proxy has the configuration of the sensor whose number it has,    *)
(* whatever the device says in between (initResources); and while buffers  *)
(* are read in time a reading never gives way to an older one.             *)
RowIsItsSensor ==
    /\ \A i \in DOMAIN list : list[i].id = i - 1 /\ list[i].conf = i - 1
    /\ prompt => \A i \in DOMAIN list, k \in DOMAIN posted :
          LET f == rxbuf[posted[k]] IN
          f.id = list[i].id /\ f.cmd # "updateval" /\ f.seqno = OwnSeqno
              => list[i].lastval < f.val

(* When buffers are read in time the handshake ends, with every sensor     *)
(* there is a block for.  It needs that no PUT reaches a sensor before     *)
(* (EarlyPuts = FALSE): the PUT takes a number, and the answer that is     *)
(* waited for no longer has it.                                            *)
HandshakeEnds ==
    prompt => <>(phase = "run" /\ Len(list) = IF NSensors < MAX_RESOURCES THEN NSensors
                                                                     ELSE MAX_RESOURCES)

(* Readings keep their order however late the buffers are read.  It does   *)
(* not hold: a buffer that is filled again is read twice, the new frame    *)
(* before the older ones.                                                  *)
ReadingsDoNotGoBack ==
    [][\A i \in DOMAIN list : i \in DOMAIN list' => list'[i].lastval >= list[i].lastval]_uartVars
=============================================================================
