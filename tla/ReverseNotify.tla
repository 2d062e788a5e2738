---------------------------- MODULE ReverseNotify ----------------------------
(***************************************************************************)
(* How a sensor node keeps its observers across a power loss.              *)
(*                                                                         *)
(* The CoAP observe relations of the sensor are volatile.  Every node that *)
(* registers as an observer is therefore recorded in the list revlookup    *)
(* and in the flash file "revnotify" (reverseNotify.c).  When the sensor   *)
(* has booted it sends each recorded node a presence message; a node that  *)
(* still has a pair with the sensor registers again, any other answers     *)
(* 2.02 Deleted and is taken off the list (lib/susensors.c,                *)
(* resources/res-systeminfo.c).                                            *)
(*                                                                         *)
(* One sensor, several actuator nodes, and the messages between them.  A   *)
(* confirmable exchange is a request that may arrive up to MaxTries times  *)
(* while it is open.  Power may fail at any step, also between and within  *)
(* two records of a write of the file.                                     *)
(***************************************************************************)
EXTENDS Integers, FiniteSets, SequencesExt

CONSTANTS
    Nodes,          \* the actuator nodes
    Torn,           \* the address read from a record that was half written
    PoolSize,       \* blocks of revlookup_memb
    NSlots,         \* observers the CoAP engine has room for
    QueueMax,       \* length of Contiki's event queue
    MaxTrans,       \* COAP_MAX_OPEN_TRANSACTIONS
    MaxTries,       \* transmissions of a confirmable message
    MaxCrashes,     \* bound on the power losses of the sensor
    Reliable,       \* TRUE: a confirmable exchange succeeds within its
                    \* retransmissions; FALSE: it may fail
    InOrder,        \* TRUE: messages of one node to the sensor stay in order
    EarlyTraffic    \* TRUE: requests may arrive before susensors_process runs

ASSUME TornAssumption == Torn \notin Nodes
ASSUME SizesAssumption ==
    /\ {PoolSize, NSlots, QueueMax, MaxTrans, MaxTries} \subseteq Nat \ {0}
    /\ MaxCrashes \in Nat
ASSUME NetworkAssumption == {Reliable, InOrder, EarlyTraffic} \subseteq BOOLEAN

Slots == 1..NSlots
Addresses == Nodes \cup {Torn}
Items == [id : 1..PoolSize, addr : Addresses]    \* a block of revlookup_memb
Idle == 0

VARIABLES
    phase,        \* the sensor: "off", "coap" (CoAP engine up, waiting for a
                  \* route) or "on" (susensors_process runs)
    revlookup,    \* the list of known nodes, in RAM
    allocated,    \* blocks taken from revlookup_memb since boot
    file,         \* the records of "revnotify"; <<>> is no file
    wr,           \* the next record writeFile writes, or Idle
    adding,       \* the write in progress is addSource's
    slotAddr,     \* the address in every observer struct, stale or not
    used,         \* the observer structs that are in use
    early,        \* history: those of them taken before susensors_process ran
    queue,        \* events posted to susensors_process
    trans,        \* open transactions of presence messages
    replies,      \* answers to presence messages on their way
    interest,     \* the nodes that have a pair with the sensor
    obsReq,       \* transmissions left of a node's observe request
    crashes,      \* power losses so far
    dropped       \* history: an event found the queue full since boot

ramVars == <<revlookup, allocated, wr, adding>>
obsVars == <<slotAddr, used, early>>
nodeVars == <<interest, obsReq>>
queueVars == <<queue, dropped>>
vars == <<phase, ramVars, file, obsVars, queueVars, trans, replies, nodeVars, crashes>>

NoNode == Torn      \* content of an observer struct never used
Observers == {slotAddr[s] : s \in used}
Listed == {revlookup[i].addr : i \in 1..Len(revlookup)}
Recorded == {file[i] : i \in 1..Len(file)}
NewObserver(s) == [event |-> "susensors_new_observer", slot |-> s]
Presence(it) == [event |-> "susensors_presence", item |-> it]
ProcessEvents == {NewObserver(s) : s \in Slots} \cup {Presence(it) : it \in Items}

(* The sensor's processor is not in the middle of writeFile. *)
CpuFree == phase # "off" /\ wr = Idle

(* process_post: an event that does not fit is dropped, unnoticed. *)
Post(e) ==
    IF Len(queue) < QueueMax
      THEN queue' = Append(queue, e) /\ UNCHANGED dropped
      ELSE dropped' = TRUE /\ UNCHANGED queue

-----------------------------------------------------------------------------

Init ==
    /\ phase = "off"
    /\ revlookup = <<>> /\ allocated = 0 /\ file = <<>>
    /\ wr = Idle /\ adding = FALSE
    /\ slotAddr = [s \in Slots |-> NoNode] /\ used = {} /\ early = {}
    /\ queue = <<>> /\ trans = {} /\ replies = {}
    /\ interest = {} /\ obsReq = [n \in Nodes |-> 0]
    /\ crashes = 0 /\ dropped = FALSE

(* Power comes back: the CoAP engine runs, the node waits for a route.     *)
PowerOn ==
    /\ phase = "off"
    /\ phase' = "coap"
    /\ UNCHANGED <<ramVars, file, obsVars, queueVars, trans, replies, nodeVars, crashes>>

(* susensors_process starts: initReverseNotify reads the file up to the    *)
(* first record there is no block for, and posts one presence event per    *)
(* record.                                                                 *)
Restored == IF Len(file) < PoolSize THEN Len(file) ELSE PoolSize

LastPresenceMissing ==    \* slip: off by one
    [i \in 1..(IF Restored < QueueMax THEN Restored ELSE QueueMax) - 1
        |-> Presence([id |-> i, addr |-> file[i]])]
PresenceEvents ==
    [i \in 1..(IF Restored < QueueMax THEN Restored ELSE QueueMax)
        |-> Presence([id |-> i, addr |-> file[i]])]

StartProcess ==
    /\ phase = "coap"
    /\ phase' = "on"
    /\ revlookup' = [i \in 1..Restored |-> [id |-> i, addr |-> file[i]]]
    /\ allocated' = Restored
    /\ queue' = PresenceEvents
    /\ dropped' = (Restored > QueueMax)
    /\ UNCHANGED <<file, wr, adding, obsVars, trans, replies, nodeVars, crashes>>

(* Power is lost.  The record being written is old, new or torn, unless    *)
(* its old and its new bytes are the same.                                 *)
TruncatedAt(i, addr) == Append(SubSeq(file, 1, i - 1), addr)    \* slip: the file is cut at the record
FileWith(i, addr) == IF i <= Len(file) THEN [file EXCEPT ![i] = addr]
                                       ELSE Append(file, addr)

Crash ==
    /\ phase # "off"
    /\ crashes < MaxCrashes
    /\ crashes' = crashes + 1
    /\ phase' = "off"
    /\ \/ file' = file
       \/ /\ wr # Idle
          /\ wr <= Len(file) => file[wr] # revlookup[wr].addr
          /\ file' = FileWith(wr, Torn)
    /\ revlookup' = <<>> /\ allocated' = 0
    /\ wr' = Idle /\ adding' = FALSE
    /\ slotAddr' = [s \in Slots |-> NoNode] /\ used' = {} /\ early' = {}
    /\ queue' = <<>> /\ dropped' = FALSE /\ trans' = {} /\ replies' = {}
    /\ UNCHANGED nodeVars

-----------------------------------------------------------------------------

(* writeFile, one record.  The file is neither truncated nor made shorter. *)
WriteRecord ==
    /\ phase = "on" /\ wr # Idle
    /\ file' = FileWith(wr, revlookup[wr].addr)
    /\ wr' = IF wr < Len(revlookup) THEN wr + 1 ELSE Idle
    /\ UNCHANGED <<phase, revlookup, allocated, adding, obsVars, queueVars, trans,
                   replies, nodeVars, crashes>>

(* An observe request of n arrives, once or again: its former relation is  *)
(* replaced, in the first free observer struct, and susensors_process is   *)
(* told which struct it is; before it runs there is no callback that would *)
(* tell it.                                                                *)
ObserveArrives(n) ==
    LET others == {s \in used : slotAddr[s] # n}
        free   == Slots \ others
    IN /\ CpuFree
       /\ phase = "on" \/ EarlyTraffic
       /\ obsReq[n] > 0
       /\ InOrder => \A r \in replies : r.item.addr # n
       /\ \E left \in {0, obsReq[n] - 1} : obsReq' = [obsReq EXCEPT ![n] = left]
       /\ \/ /\ free = {}
             /\ used' = others /\ early' = early \cap others
             /\ UNCHANGED <<slotAddr, queueVars>>
          \/ \E slot \in free :
                /\ \A s \in free : slot <= s
                /\ used' = others \cup {slot}
                /\ slotAddr' = [slotAddr EXCEPT ![slot] = n]
                /\ IF phase = "on"
                     THEN Post(NewObserver(slot)) /\ early' = early \cap others
                     ELSE UNCHANGED queueVars /\ early' = (early \cap others) \cup {slot}
       /\ UNCHANGED <<phase, ramVars, file, trans, replies, interest, crashes>>

(* An observe relation ends: cancelled, reset, or its notifications time   *)
(* out.  The struct is freed, not cleared.                                 *)
ObserverDropped(s) ==
    /\ CpuFree
    /\ s \in used
    /\ Reliable => slotAddr[s] \notin interest
    /\ used' = used \ {s} /\ early' = early \ {s}
    /\ UNCHANGED <<phase, ramVars, file, slotAddr, queueVars, trans, replies,
                   nodeVars, crashes>>

(* susensors_new_observer: addSource records the address the struct holds  *)
(* by now, unless it is listed or there is no block for it.                *)
OneBlockTooMany == allocated <= PoolSize    \* slip: off by one
BlockFree == allocated < PoolSize

HandleNewObserver ==
    LET addr == slotAddr[Head(queue).slot]
        item == [id |-> allocated + 1, addr |-> addr]
    IN /\ phase = "on" /\ wr = Idle
       /\ queue # <<>> /\ Head(queue).event = "susensors_new_observer"
       /\ queue' = Tail(queue) /\ UNCHANGED dropped
       /\ IF addr \notin Listed /\ BlockFree
            THEN /\ revlookup' = Append(revlookup, item)
                 /\ allocated' = allocated + 1
                 /\ wr' = 1
                 /\ adding' = TRUE
            ELSE UNCHANGED ramVars
       /\ UNCHANGED <<phase, file, obsVars, trans, replies, nodeVars, crashes>>

(* susensors_presence: txPresence opens a transaction, if one is free.     *)
HandlePresence ==
    /\ phase = "on" /\ wr = Idle
    /\ queue # <<>> /\ Head(queue).event = "susensors_presence"
    /\ queue' = Tail(queue) /\ UNCHANGED dropped
    /\ trans' = IF Cardinality(trans) < MaxTrans
                  THEN trans \cup {[item |-> Head(queue).item, tries |-> 0]}
                  ELSE trans
    /\ UNCHANGED <<phase, ramVars, file, obsVars, replies, nodeVars, crashes>>

(* A presence message reaches its node: missingJustCalled triggers a new   *)
(* observe request for a pair with the sensor, and the node says whether   *)
(* it has one.                                                             *)
PresenceArrives(t) ==
    LET n == t.item.addr
    IN /\ t.tries < MaxTries
       /\ n \in Nodes
       /\ trans' = (trans \ {t}) \cup {[t EXCEPT !.tries = @ + 1]}
       /\ IF n \in interest
            THEN /\ replies' = replies \cup {[item |-> t.item, code |-> "OK"]}
                 /\ obsReq' = [obsReq EXCEPT ![n] = MaxTries]
            ELSE /\ replies' = replies \cup {[item |-> t.item, code |-> "DELETED"]}
                 /\ UNCHANGED obsReq
       /\ UNCHANGED <<phase, ramVars, file, obsVars, queueVars, interest, crashes>>

(* txPresence_cb with an answer.  A late or repeated answer finds no       *)
(* transaction.  removeItem takes the item off the list and writes the     *)
(* file; the block is not freed.                                           *)
FirstOfList(item) == 1    \* slip: list_pop for list_remove
IndexOf(item) == CHOOSE i \in 1..Len(revlookup) : revlookup[i] = item

ReplyArrives(r) ==
    LET open == {t \in trans : t.item = r.item}
        rest == IF Contains(revlookup, r.item)
                  THEN RemoveAt(revlookup, IndexOf(r.item)) ELSE revlookup
    IN /\ CpuFree
       /\ replies' = replies \ {r}
       /\ trans' = trans \ open
       /\ IF open # {} /\ r.code = "DELETED"
            THEN /\ revlookup' = rest
                 /\ adding' = FALSE
                 /\ IF rest = <<>> THEN file' = <<>> /\ UNCHANGED wr
                                   ELSE wr' = 1 /\ UNCHANGED file
                 /\ UNCHANGED allocated
            ELSE UNCHANGED <<ramVars, file>>
       /\ UNCHANGED <<phase, obsVars, queueVars, nodeVars, crashes>>

(* txPresence_cb without an answer: nothing is tried again.                *)
PresenceTimesOut(t) ==
    /\ CpuFree
    /\ Reliable => t.item.addr = Torn
    /\ trans' = trans \ {t}
    /\ UNCHANGED <<phase, ramVars, file, obsVars, queueVars, replies, nodeVars, crashes>>

-----------------------------------------------------------------------------

(* The network loses an answer or a transmission of an observe request.    *)
ReplyLost(r) ==
    /\ Reliable => \E t \in trans : t.item = r.item /\ t.tries < MaxTries
    /\ replies' = replies \ {r}
    /\ UNCHANGED <<phase, ramVars, file, obsVars, queueVars, trans, nodeVars, crashes>>

ObserveLost(n) ==
    /\ obsReq[n] > 0
    /\ Reliable => obsReq[n] > 1
    /\ obsReq' = [obsReq EXCEPT ![n] = @ - 1]
    /\ UNCHANGED <<phase, ramVars, file, obsVars, queueVars, trans, replies,
                   interest, crashes>>

(* Node n is paired with the sensor, or restores its pair at boot.         *)
Bind(n) ==
    /\ interest' = interest \cup {n}
    /\ obsReq' = [obsReq EXCEPT ![n] = MaxTries]
    /\ UNCHANGED <<phase, ramVars, file, obsVars, queueVars, trans, replies, crashes>>

(* All pairs of node n are removed; it cancels no observe relation.        *)
Unbind(n) ==
    /\ n \in interest
    /\ interest' = interest \ {n}
    /\ UNCHANGED <<phase, ramVars, file, obsVars, queueVars, trans, replies, obsReq,
                   crashes>>

Sensor ==
    \/ PowerOn \/ StartProcess \/ WriteRecord
    \/ HandleNewObserver \/ HandlePresence
Network ==
    \/ \E n \in Nodes : ObserveArrives(n)
    \/ \E t \in trans : PresenceArrives(t)
    \/ \E r \in replies : ReplyArrives(r)
Environment ==
    \/ Crash
    \/ \E s \in Slots : ObserverDropped(s)
    \/ \E t \in trans : PresenceTimesOut(t)
    \/ \E r \in replies : ReplyLost(r)
    \/ \E n \in Nodes : ObserveLost(n) \/ Bind(n) \/ Unbind(n)

Next == Sensor \/ Network \/ Environment

Spec == Init /\ [][Next]_vars

(* The sensor's power comes back, its scheduler runs what is ready, and    *)
(* what a confirmable exchange keeps sending arrives.  Users, power losses *)
(* and message losses are under no obligation.                             *)
Fairness ==
    /\ WF_vars(Sensor)
    /\ \A n \in Nodes : SF_vars(ObserveArrives(n))
    /\ SF_vars(\E t \in trans : PresenceArrives(t))
    /\ \A n \in Nodes : SF_vars(\E r \in replies : r.item.addr = n /\ ReplyArrives(r))
    /\ WF_vars(\E t \in trans : PresenceTimesOut(t))

FairSpec == Spec /\ Fairness

-----------------------------------------------------------------------------

(* The value of every variable. *)
TypeOK ==
    /\ phase \in {"off", "coap", "on"}
    /\ revlookup \in Seq(Items) /\ Len(revlookup) <= allocated
    /\ allocated \in 0..PoolSize
    /\ file \in Seq(Addresses)
    /\ wr \in 0..Len(revlookup)
    /\ adding \in BOOLEAN
    /\ slotAddr \in [Slots -> Addresses]
    /\ used \subseteq Slots /\ early \subseteq used
    /\ queue \in Seq(ProcessEvents) /\ Len(queue) <= QueueMax
    /\ dropped \in BOOLEAN
    /\ trans \subseteq [item : Items, tries : 0..MaxTries]
    /\ Cardinality(trans) <= MaxTrans
    /\ replies \subseteq [item : Items, code : {"OK", "DELETED"}]
    /\ interest \subseteq Nodes
    /\ obsReq \in [Nodes -> 0..MaxTries]
    /\ crashes \in 0..MaxCrashes

(* A power loss forgets no node of the list: its record is in the file     *)
(* afterwards, however far a write of the file had come and whatever it    *)
(* left of the record it was writing.  Only a node that addSource was just *)
(* adding may be lost.                                                     *)
SourcesSurvivePowerLoss ==
    [][phase' = "off" =>
          \A i \in 1..Len(revlookup) :
              \/ revlookup[i].addr \in Recorded'
              \/ adding /\ wr # Idle /\ i = Len(revlookup)]_vars

(* An observer that has a pair with the sensor is listed, or its event is  *)
(* on its way to addSource, or its observe request still to the sensor, as *)
(* long as the event queue and the pool have had room: if it is not, the   *)
(* next power loss of the sensor silences the pair for good.  An observer  *)
(* served before susensors_process ran is not recorded, until it registers *)
(* again.                                                                  *)
PendingAddrs ==
    {slotAddr[s] : s \in {t \in Slots : Contains(queue, NewObserver(t))}}
ObserversAreRemembered ==
    \/ \A n \in {slotAddr[s] : s \in used \ early} \cap interest :
           n \in Listed \cup PendingAddrs \/ obsReq[n] > 0
    \/ allocated = PoolSize
    \/ dropped

(* The same of all observers.  It does not hold: nobody hears of those     *)
(* served before susensors_process ran.                                    *)
AllObserversAreRemembered ==
    \/ \A n \in Observers \cap interest :
           n \in Listed \cup PendingAddrs \/ obsReq[n] > 0
    \/ allocated = PoolSize
    \/ dropped

(* The file holds the list: a node taken off the list is not read back at  *)
(* the next boot.                                                          *)
FileHoldsOnlyTheList ==
    phase = "on" /\ wr = Idle => Recorded \subseteq Listed

(* A node in the file that has a pair with the sensor observes it again in *)
(* the end, whenever the sensor loses its power.                           *)
KnownNodesReturn ==
    \A n \in Nodes :
        n \in Recorded /\ n \in interest
            ~> n \in Observers \/ n \notin interest
=============================================================================
