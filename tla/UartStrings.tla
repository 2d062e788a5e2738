------------------------------ MODULE UartStrings ------------------------------
(***************************************************************************)
(* The buffer in which the node keeps the strings of its uart sensors      *)
(* (apps/uartsensors: uartsensors.c, uart_protocolhandler.c).              *)
(*                                                                         *)
(* One buffer serves three ends.  Every message is decoded to where        *)
(* rx_reply.payload points; the strings of a configuration are then        *)
(* written over the message they are read from; and behind the strings of  *)
(* a sensor LASTVALSIZE bytes are left for its readings, after which the   *)
(* next message is received.  The URL of a sensor is made by writing its   *)
(* group behind its type, with a slash over the end of the type.           *)
(*                                                                         *)
(* The memory is a sequence of cells; a number, and the head of a string,  *)
(* is one cell whatever its width.  A string is sent with its terminating  *)
(* zero.  The sensors of one test fit the buffer, and a reading fits       *)
(* LASTVALSIZE: the code compares the length of the id with it.            *)
(***************************************************************************)
EXTENDS Integers, Sequences

CONSTANTS
    Confs,        \* configurations: the length of each of their strings
    Devices,      \* the number of sensors
    Numbers,      \* cells of the numbers before the strings
    StringMax,    \* cells a string may take with two zeros: 100 in the code, and
                  \* no string of Confs takes more
    LASTVALSIZE,  \* cells left for a reading
    Room,         \* cells of the buffer
    MaxReadings   \* bound on the readings received

FieldNames == {"unit", "spec", "type", "group", "attr"}

VARIABLES
    confs,     \* the configurations of the sensors set up so far
    mem,       \* payloadbuffer
    payload,   \* rx_reply.payload
    strings,   \* where each sensor's strings start
    lastval,   \* where its readings are kept
    received,  \* the configuration cp_decodemessage decoded, if any: at most one
    readings   \* the readings received

stringVars == <<confs, mem, payload, strings, lastval, received, readings>>

Nul == <<"nul", 0, "", 0>>
Slash == <<"slash", 0, "", 0>>
Number == <<"num", 0, "", 0>>
Head1(n) == <<"str", 0, "", n>>
Char(d, f, i) == <<"char", d, f, i>>
Reading(d, i) == <<"val", d, "", i>>

TypeOK ==
    /\ confs \in Seq(Confs) /\ Len(confs) <= Devices
    /\ DOMAIN mem = 1..Room
    /\ payload \in 1..Room
    /\ strings \in Seq([1..5 -> 1..Room]) /\ Len(strings) = Len(confs)
    /\ lastval \in Seq(1..Room) /\ Len(lastval) = Len(confs)
    /\ received \in Seq(Confs) /\ Len(received) <= 1
    /\ readings \in 0..MaxReadings

-----------------------------------------------------------------------------

(* cp_encoderesource_conf, for sensor d.                                   *)
Encoded(d, c) ==
    LET string(f) == <<Head1(c[f] + 1)>> \o [i \in 1..c[f] |-> Char(d, f, i)] \o <<Nul>>
    IN [i \in 1..Numbers |-> Number]
           \o string("unit") \o string("spec") \o string("type") \o string("group")
           \o string("attr")

Written(m, at, cells) ==
    [p \in DOMAIN m |-> IF p \in at..(at + Len(cells) - 1) THEN cells[p - at + 1] ELSE m[p]]

(* cmp_read_str: the head, then the characters if they and a zero fit the  *)
(* limit; len comes back as the length, and a head that is no string's     *)
(* leaves it.                                                              *)
ReadStr(m, from, to, len) ==
    LET n == m[from][4] IN
    IF m[from][1] # "str" THEN [mem |-> m, from |-> from + 1, len |-> len]
    ELSE IF n + 1 > len THEN [mem |-> m, from |-> from + 1, len |-> n]
    ELSE [mem |-> Written(m, to, SubSeq(m, from + 1, from + n) \o <<Nul>>),
          from |-> from + 1 + n, len |-> n]

(* One string of cp_decoderesource_conf.  The length allowed is not set    *)
(* again before the group is read: it is the length of the type.           *)
Limit(f, len) == IF f = "group" THEN len ELSE StringMax
Ended(f, m, last) == IF f = "type" THEN Written(m, last, <<Slash>>) ELSE m
Behind(s, f, r) ==
    [mem |-> Ended(f, r.mem, s.to + r.len - 1), from |-> r.from, to |-> s.to + r.len,
     len |-> r.len, ptr |-> Append(s.ptr, s.to)]
NextString(s, f) == Behind(s, f, ReadStr(s.mem, s.from, s.to, Limit(f, s.len)))

Start(m, at) ==
    [mem |-> m, from |-> at + Numbers, to |-> at, len |-> StringMax, ptr |-> <<>>]
Named(m, at) == NextString(NextString(NextString(Start(m, at), "unit"), "spec"), "type")
Decoded(m, at) == NextString(NextString(Named(m, at), "group"), "attr")

(* The characters from p to the first zero.                                *)
End(m, p) == CHOOSE q \in p..Room : m[q] = Nul /\ \A x \in p..(q - 1) : m[x] # Nul
CString(m, p) == SubSeq(m, p, End(m, p) - 1)

-----------------------------------------------------------------------------

Init ==
    /\ confs = <<>> /\ mem = [p \in 1..Room |-> Nul] /\ payload = 1
    /\ strings = <<>> /\ lastval = <<>> /\ received = <<>> /\ readings = 0

(* cp_decodemessage copies the message to rx_reply.payload.                *)
ConfReceived(c) ==
    /\ received = <<>> /\ Len(confs) < Devices
    /\ LET cells == Encoded(Len(confs) + 1, c)
       IN /\ payload + Len(cells) + LASTVALSIZE <= Room
          /\ mem' = Written(mem, payload, cells)
    /\ received' = <<c>>
    /\ UNCHANGED <<confs, payload, strings, lastval, readings>>

(* initResources: the strings are decoded in place, and room for the       *)
(* readings is left behind the last of them.                               *)
Free(s, behind) == End(s.mem, s.ptr[5]) + behind
Installed(s, behind) ==
    /\ mem' = s.mem
    /\ strings' = Append(strings, s.ptr)
    /\ lastval' = Append(lastval, Free(s, behind))
    /\ payload' = Free(s, behind) + LASTVALSIZE
SetUp(behind) ==
    /\ received # <<>>
    /\ Installed(Decoded(mem, payload), behind)
    /\ confs' = confs \o received
    /\ received' = <<>>
    /\ UNCHANGED readings
initResourcesShort == SetUp(0)    \* slip: the last string's zero is not kept
initResources == SetUp(1)

(* handleSensorMessages: the message, an id and a reading, is decoded to   *)
(* rx_reply.payload, and the reading copied to the sensor's room.          *)
handleSensorMessages(d) ==
    /\ Len(confs) = Devices /\ readings < MaxReadings
    /\ \E n \in 1..LASTVALSIZE :
           LET value == [i \in 1..n |-> Reading(d, i)]
           IN /\ payload + n <= Room
              /\ mem' = Written(Written(mem, payload, <<Number>> \o value), lastval[d], value)
    /\ readings' = readings + 1
    /\ UNCHANGED <<confs, payload, strings, lastval, received>>

Next ==
    \/ \E c \in Confs : ConfReceived(c)
    \/ initResources
    \/ \E d \in 1..Len(confs) : handleSensorMessages(d)

Spec == Init /\ [][Next]_stringVars

-----------------------------------------------------------------------------

Sent(d, f) == [i \in 1..confs[d][f] |-> Char(d, f, i)]
Url(d) == Sent(d, "type") \o <<Slash>> \o Sent(d, "group")

Reads(d) ==
    /\ CString(mem, strings[d][1]) = Sent(d, "unit")
    /\ CString(mem, strings[d][2]) = Sent(d, "spec")
    /\ CString(mem, strings[d][3]) = Url(d)
    /\ CString(mem, strings[d][5]) = Sent(d, "attr")

(* The strings of every sensor read as it sent them, and its URL is its    *)
(* type and its group, whatever the lengths, whatever was received since,  *)
(* as long as the groups are shorter than their types.                     *)
StringsIntact ==
    (\A d \in DOMAIN confs : confs[d]["group"] < confs[d]["type"])
        => \A d \in DOMAIN confs : Reads(d)

(* The same for every group.  It does not hold: a longer group is refused, *)
(* and with it the attributes are lost.                                    *)
AnyGroupReads == \A d \in DOMAIN confs : Reads(d)
=============================================================================
