----------------------------- MODULE EventSetup -----------------------------
(***************************************************************************)
(* The event levels of a sensor: what a node keeps and a GUI shows and     *)
(* changes (suconfig of dev/susensorcommon.c, the GET and PUT handlers of  *)
(* resources/res-susensors.c, sensor.cpp of the GUI).  The GUI codes a new *)
(* level in the type of the object it holds, so it can only write what it  *)
(* has read.  A payload is the sequence of its objects (module MsgPack).   *)
(***************************************************************************)
EXTENDS Integers, Sequences

CONSTANTS
    GUIs,          \* the programs that change the set-up
    LevelType,     \* the type of the sensor's levels, CMP_TYPE_UINT16 in the pulse counter
    FirstLevel, FirstActive, \* the driver's values of its levels and of eventsActive
    Values,        \* values of a level
    Masks,         \* values of eventsActive
    MaxRequests    \* bound of the checks

Levels == <<"AboveEventAt", "BelowEventAt", "ChangeEvent">>
Fields == <<"AboveEventAt", "BelowEventAt", "ChangeEvent", "eventsActive">>
FieldSet == {Fields[i] : i \in 1..4}
Object(t, v) == [type |-> t, val |-> v]

VARIABLES
    config,      \* the node's struct resourceconf
    held,        \* the objects every GUI holds
    seen,        \* history: the fields whose objects it has read from the node
    asked,       \* the requests sent; the place of one is its token
    waiting,     \* the tokens of those in activePDUs
    answers      \* the answers to them that may still come

setupVars == <<config, held, seen, asked, waiting, answers>>

Default == [f \in FieldSet |-> IF f = "eventsActive" THEN Object("u8", 0) ELSE Object("s8", 0)]

(* resourceconf is initialised in the driver, the GUI's objects in its     *)
(* constructor, whatever type the sensor has.                              *)
Init ==
    /\ config = [f \in FieldSet |-> IF f = "eventsActive" THEN Object("u8", FirstActive)
                                     ELSE Object(LevelType, FirstLevel)]
    /\ held = [g \in GUIs |-> Default]
    /\ seen = [g \in GUIs |-> {}]
    /\ asked = <<>> /\ waiting = {} /\ answers = {}

(* suinterface and wsn::send: a GUI asks again whenever its user does,     *)
(* whatever it waits for (initSensor asks for three things at once).       *)
Ask(g, request) ==
    /\ Len(asked) < MaxRequests
    /\ asked' = Append(asked, request)
    /\ waiting' = waiting \cup {Len(asked) + 1}
    /\ UNCHANGED <<config, held, seen, answers>>

(* initSensor and req_eventSetup; requestAboveEventLvl and its siblings.   *)
req_eventSetup(g) == Ask(g, [kind |-> "getEventSetup", gui |-> g])
requestLevel(g, f) == Ask(g, [kind |-> "get", gui |-> g, field |-> f])

(* updateConfig: every value in the type of the object the GUI holds now.  *)
(* The values of a level may be the same in all three.                     *)
encode(g, f, v) == Object(held[g][f].type, v)
updateConfig(g, v, mask) ==
    Ask(g, [kind |-> "eventsetup", gui |-> g, seen |-> seen[g],
            payload |-> [i \in 1..4 |-> encode(g, Fields[i], IF i = 4 THEN mask ELSE v)]])

-----------------------------------------------------------------------------

(* suconfig(SUSENSORS_EVENTSETUP_SET): each object is stored as soon as it *)
(* is found to be of the right type, up to the first that is not.          *)
TypeOf(f) == IF f = "eventsActive" THEN "u8" ELSE config[f].type
Wrong(payload) == {i \in 1..4 : i > Len(payload) \/ payload[i].type # TypeOf(Fields[i])}
ret(payload) ==
    IF Wrong(payload) = {} THEN 0
    ELSE CHOOSE i \in Wrong(payload) : \A j \in Wrong(payload) : i <= j
StoredAll(payload) ==    \* slip: the objects behind a wrong one are stored too
    [f \in FieldSet |->
        IF \E i \in 1..4 : Fields[i] = f /\ i # ret(payload)
        THEN payload[CHOOSE i \in 1..4 : Fields[i] = f] ELSE config[f]]
Stored(payload) ==
    [f \in FieldSet |->
        IF \E i \in 1..4 : Fields[i] = f /\ (ret(payload) = 0 \/ i < ret(payload))
        THEN payload[CHOOSE i \in 1..4 : Fields[i] = f] ELSE config[f]]

(* res_susensor_puthandler and res_susensor_gethandler.  A request may     *)
(* arrive late, after others that were sent later, or again and again; an  *)
(* answer nobody waits for any more is not looked at.                      *)
Code(payload) == IF ret(payload) = 0 THEN "CHANGED" ELSE "BAD_REQUEST"
Answer(t) ==
    LET r == asked[t] IN
    CASE r.kind = "eventsetup" -> [token |-> t, kind |-> Code(r.payload)]
      [] r.kind = "get" -> [token |-> t, kind |-> "value", obj |-> config[r.field]]
      [] r.kind = "getEventSetup" -> [token |-> t, kind |-> "setup", objs |-> config]
Serve(t) ==
    /\ UNCHANGED <<held, seen, asked, waiting>>
    /\ config' = IF asked[t].kind = "eventsetup" THEN Stored(asked[t].payload) ELSE config
    /\ answers' = IF t \in waiting THEN answers \cup {Answer(t)} ELSE answers

(* removePDU: answers to its token are ignored from now on.                *)
removePDUOnly(t) ==    \* slip: the token stays known
    /\ waiting' = waiting \ {t}
    /\ UNCHANGED answers
removePDU(t) ==
    /\ waiting' = waiting \ {t}
    /\ answers' = {a \in answers : a.token # t}

(* parseAppOctetFormat: an answer to a read replaces the object; the       *)
(* answer to updateConfig replaces none.  Every answer may be late or lost.*)
Parse(a) ==
    LET r == asked[a.token]
        fields == CASE a.kind = "setup" -> FieldSet
                    [] a.kind = "value" -> {r.field}
                    [] OTHER -> {}
        object(f) == IF a.kind = "setup" THEN a.objs[f] ELSE a.obj
    IN
    /\ removePDU(a.token)
    /\ held' = [held EXCEPT ![r.gui] = [f \in FieldSet |-> IF f \in fields THEN object(f) ELSE @[f]]]
    /\ seen' = [seen EXCEPT ![r.gui] = @ \cup fields]
    /\ UNCHANGED <<config, asked>>

(* nodeNotResponding: the client has given up, the request may have been   *)
(* served or not, or may be yet.                                           *)
GiveUp(t) ==
    /\ removePDU(t)
    /\ UNCHANGED <<config, held, seen, asked>>

Next ==
    \/ \E g \in GUIs :
          \/ req_eventSetup(g)
          \/ \E i \in 1..3 : requestLevel(g, Levels[i])
          \/ \E v \in Values, mask \in Masks : updateConfig(g, v, mask)
    \/ \E t \in DOMAIN asked : Serve(t)
    \/ \E a \in answers : Parse(a)
    \/ \E t \in waiting : GiveUp(t)
Spec == Init /\ [][Next]_setupVars

-----------------------------------------------------------------------------

(* The value of every variable.                                            *)
TypeOK ==
    /\ DOMAIN config = FieldSet
    /\ DOMAIN held = GUIs /\ \A g \in GUIs : DOMAIN held[g] = FieldSet
    /\ seen \in [GUIs -> SUBSET FieldSet]
    /\ Len(asked) <= MaxRequests /\ \A t \in DOMAIN asked : asked[t].gui \in GUIs
    /\ waiting \subseteq DOMAIN asked
    /\ \A a \in answers : a.token \in waiting

(* The drivers read a level through the union member of the type they      *)
(* initialised it with: no request, whole, short or refused half way,      *)
(* changes the type of a level (suconfig).                                 *)
TypesStay ==
    \A f \in FieldSet : config[f].type = IF f = "eventsActive" THEN "u8" ELSE LevelType

(* However the requests of the GUIs overlap, an update that is accepted is *)
(* stored whole as it was sent; one that is refused leaves the active      *)
(* events as they were, and is refused at an object that its GUI had not   *)
(* read yet when it coded it (suconfig against updateConfig and            *)
(* parseAppOctetFormat).                                                   *)
AcceptedIsStored ==
    [][\A t \in DOMAIN asked :
          asked[t].kind = "eventsetup" /\ Serve(t) =>
              LET payload == asked[t].payload IN
              /\ Code(payload) = "CHANGED"
                     => \A i \in 1..4 : config'[Fields[i]] = payload[i]
              /\ Code(payload) = "BAD_REQUEST"
                     => /\ config'["eventsActive"] = config["eventsActive"]
                        /\ Fields[ret(payload)] \notin asked[t].seen]_setupVars

(* The update of a GUI that has read the set-up by now is accepted.  It    *)
(* does not hold: the update may have been coded before.                   *)
ShownIsAccepted ==
    [][\A t \in DOMAIN asked :
          asked[t].kind = "eventsetup" /\ Serve(t) /\ seen[asked[t].gui] = FieldSet
              => Code(asked[t].payload) = "CHANGED"]_setupVars

(* A refused update leaves the set-up as it was.  It does not hold: the    *)
(* objects before the wrong one are stored.                                *)
RefusedChangesNothing ==
    [][\A t \in DOMAIN asked :
          asked[t].kind = "eventsetup" /\ Serve(t) /\ Code(asked[t].payload) = "BAD_REQUEST"
              => config' = config]_setupVars
=============================================================================
