------------------------------ MODULE CoapPdu ------------------------------
(***************************************************************************)
(* The CoAP message the GUI builds in memory (cantcoap.cpp): token,        *)
(* options coded as differences of their numbers, payload.  Every call     *)
(* moves the bytes that are there to make room; wsn.cpp calls in one order *)
(* for a request and in another for its next block.  The bytes are those   *)
(* behind the fixed header.                                                *)
(***************************************************************************)
EXTENDS Integers, Sequences, SequencesExt

CONSTANTS
    Numbers,       \* numbers of options
    Lengths,       \* lengths of their values
    Uris,          \* URIs: the lengths of the segments of [path, query]
    Codes,         \* values of the code
    Tokens,        \* lengths of tokens
    Payloads,      \* lengths of payloads
    Room,          \* bytes behind the header: the buffer, or no limit if it is large
    AnyOrder,      \* FALSE: behind a payload no option higher than all is added, as in wsn.cpp
    MaxCalls       \* bound of the checks

URI_PATH == 11
CONTENT_FORMAT == 12
URI_QUERY == 15
Marker == 255
Garbage == 170

VARIABLES
    pdu, version, code,
    _numOptions, _maxAddedOptionNumber,
    _payloadPointer, _payloadLength,
    options, token, payload,     \* history: what has been put in
    refused,       \* history: an option to stand behind all others has been refused
    misled,        \* history: and another has been put in since
    calls

pduVars == <<pdu, version, code, _numOptions, _maxAddedOptionNumber, _payloadPointer,
             _payloadLength, options, token, payload, refused, misled, calls>>

Init ==
    /\ pdu = <<>> /\ version = 1 /\ code = 0
    /\ _numOptions = 0 /\ _maxAddedOptionNumber = 0
    /\ _payloadPointer = 0 /\ _payloadLength = 0
    /\ options = <<>> /\ token = <<>> /\ payload = <<>>
    /\ refused = FALSE /\ misled = FALSE /\ calls = 0

Cat(s, from, to) == SubSeq(s, from, IF to < from - 1 THEN from - 1 ELSE to)
Rest(s, from) == SubSeq(s, from, Len(s))
Fill(len, byte) == [i \in 1..len |-> byte]

-----------------------------------------------------------------------------
(* One option.                                                             *)

computeExtraBytes(n) == IF n < 13 THEN 0 ELSE IF n < 269 THEN 1 ELSE 2
Nibble(n) == IF n < 13 THEN n ELSE 12 + computeExtraBytes(n)
ExtraBytes(n) ==
    CASE computeExtraBytes(n) = 0 -> <<>>
      [] computeExtraBytes(n) = 1 -> <<n - 13>>
      [] OTHER -> <<(n - 269) \div 256, (n - 269) % 256>>

(* The bytes of an option.  A length above 268 has been reduced when the   *)
(* value is copied: the end of the value stays what it was in memory.      *)
insertOption(delta, value) ==
    LET len == Len(value)
        copied == IF len < 269 THEN len ELSE len - 269
    IN <<16 * Nibble(delta) + Nibble(len)>> \o ExtraBytes(delta) \o ExtraBytes(len)
         \o [i \in 1..len |-> IF i <= copied THEN value[i] ELSE Garbage]

(* A uint16_t, and the values the difference of two numbers can have.      *)
u16(n) == n % 65536
Differences == {d \in Nat : d < 65536}

(* The value a nibble and the bytes at "at" stand for.  Behind the message *)
(* they are what is in memory there.                                       *)
ByteAt(p, at) == IF at <= Len(p) THEN p[at] ELSE Garbage
Extended(p, nibble, at) ==
    CASE nibble < 13 -> nibble
      [] nibble = 13 -> ByteAt(p, at) + 13
      [] nibble = 14 -> u16(256 * ByteAt(p, at) + ByteAt(p, at + 1) + 269)
      [] OTHER -> nibble
ExtraOf(nibble) == IF nibble \in {13, 14} THEN nibble - 12 ELSE 0
getOptionDelta(p, at) == Extended(p, p[at] \div 16, at + 1)
getOptionValueLength(p, at) == Extended(p, p[at] % 16, at + 1 + ExtraOf(p[at] \div 16))

-----------------------------------------------------------------------------
(* The walk over the options of validate, which getOptions and             *)
(* findInsertionPosition repeat without its tests.                         *)

Started(tkl) ==
    [at |-> tkl + 1, prev |-> 0, opts |-> <<>>, ended |-> FALSE, valid |-> FALSE, payload |-> <<>>]
Ended(w, valid, body) ==
    [at |-> w.at, prev |-> w.prev, opts |-> w.opts, ended |-> TRUE, valid |-> valid,
     payload |-> body]

(* The bytes a header needs are counted from its nibbles: one for 14 too.  *)
HeaderFits(p, at) ==
    /\ p[at] \div 16 # 15 /\ p[at] % 16 # 15
    /\ at + computeExtraBytes(p[at] \div 16) + computeExtraBytes(p[at] % 16) <= Len(p)
OptionAt(p, at, prev) ==
    LET delta == getOptionDelta(p, at)
        len == getOptionValueLength(p, at)
        from == at + 1 + computeExtraBytes(delta) + computeExtraBytes(len)
    IN [at |-> at, prev |-> prev, number |-> u16(prev + delta), end |-> from + len,
        value |-> IF from + len - 1 <= Len(p) THEN Cat(p, from, from + len - 1) ELSE <<>>]
WalkOver(p, w, o) ==
    IF o.end > Len(p) + 1 THEN Ended(w, FALSE, <<>>)
    ELSE [at |-> o.end, prev |-> o.number, opts |-> Append(w.opts, o), ended |-> FALSE,
          valid |-> FALSE, payload |-> <<>>]
WalkOn(p, w) ==
    IF w.ended THEN w
    ELSE IF w.at > Len(p) THEN Ended(w, TRUE, <<>>)
    ELSE IF p[w.at] = Marker THEN Ended(w, w.at < Len(p), Rest(p, w.at + 1))
    ELSE IF HeaderFits(p, w.at) THEN WalkOver(p, w, OptionAt(p, w.at, w.prev))
    ELSE Ended(w, FALSE, <<>>)
walked(p, tkl) ==
    LET step[n \in 0..Len(p) + 1] == IF n = 0 THEN Started(tkl) ELSE WalkOn(p, step[n - 1])
    IN step
Walk(p, tkl) == walked(p, tkl)[Len(p) + 1]

ValidCode(c) ==
    /\ c <= 31 \/ c >= 65
    /\ c <= 69 \/ c >= 128
    /\ c <= 134 \/ c >= 140
    /\ c # 142
    /\ c <= 143 \/ c >= 160
    /\ c <= 165

(* validate, and what the accessors then return.                           *)
validate == version = 1 /\ Len(token) <= 8 /\ ValidCode(code) /\ Walk(pdu, Len(token)).valid
OptionsOf(w) ==
    [i \in DOMAIN w.opts |-> [number |-> w.opts[i].number, value |-> w.opts[i].value]]
getOptions == OptionsOf(Walk(pdu, Len(token)))

-----------------------------------------------------------------------------
(* addOption.                                                              *)

(* The first option with a higher number; behind all bytes for the highest *)
(* number so far.  Slip: the first option that is not lower.               *)
FirstOf(w, higher) ==
    IF higher = {} THEN [at |-> w.at, prev |-> w.prev]
    ELSE LET o == w.opts[CHOOSE i \in higher : \A j \in higher : i <= j]
         IN [at |-> o.at, prev |-> o.prev]
InsertBefore(w, number) == FirstOf(w, {i \in DOMAIN w.opts : w.opts[i].number >= number})
InsertBehind(w, number) == FirstOf(w, {i \in DOMAIN w.opts : w.opts[i].number > number})
findPositionBefore(p, tkl, max, number) == InsertBefore(Walk(p, tkl), number)
findInsertionPosition(p, tkl, max, number) ==
    IF number >= max \/ Len(p) = tkl THEN [at |-> Len(p) + 1, prev |-> max]
    ELSE InsertBehind(Walk(p, tkl), number)

(* setOptionDelta: the option that follows counts from the new one.  Slip: *)
(* it keeps its difference.                                                *)
KeepOptionDelta(p, at, delta) == Rest(p, at)
setOptionDelta(p, at, delta) ==
    <<16 * Nibble(delta) + (p[at] % 16)>> \o ExtraBytes(delta)
        \o Rest(p, at + 1 + computeExtraBytes(getOptionDelta(p, at)))

(* The message with an option more: [pdu, max].  Both differences are      *)
(* taken in a uint16_t.                                                    *)
WithOptionAt(m, pos, number, option) ==
    IF pos.at > Len(m.pdu)
    THEN [pdu |-> m.pdu \o option, max |-> number]
    ELSE [pdu |-> Cat(m.pdu, 1, pos.at - 1) \o option
             \o setOptionDelta(m.pdu, pos.at,
                               u16(pos.prev + getOptionDelta(m.pdu, pos.at) - number)),
          max |-> m.max]
OptionPut(m, pos, number, value) ==
    WithOptionAt(m, pos, number, insertOption(u16(number - pos.prev), value))
WithOption(m, tkl, number, value) ==
    OptionPut(m, findInsertionPosition(m.pdu, tkl, m.max, number), number, value)

(* Where the message must have an option: behind those that are not higher. *)
Place(opts, o) ==
    CHOOSE i \in 1..Len(opts) + 1 :
        /\ \A j \in 1..i - 1 : opts[j].number <= o.number
        /\ \A j \in i..Len(opts) : opts[j].number > o.number

(* Adding several, as far as they fit: the message, and the options it     *)
(* must have.  The number of one that is to stand behind all others is     *)
(* noted before the room is looked at, and stays noted when it is refused. *)
(* Slip: the room is not looked at.                                        *)
AsItIs ==
    [pdu |-> pdu, max |-> _maxAddedOptionNumber, num |-> _numOptions, opts |-> options,
     full |-> FALSE, refused |-> refused, misled |-> misled]
Keep(m, n, o) ==
    [pdu |-> n.pdu, max |-> n.max, num |-> m.num + 1,
     opts |-> InsertAt(m.opts, Place(m.opts, o), o), full |-> FALSE,
     refused |-> m.refused, misled |-> m.refused]
Full(m, n) ==
    [pdu |-> m.pdu, max |-> n.max, num |-> m.num, opts |-> m.opts, full |-> TRUE,
     refused |-> m.refused \/ n.max # m.max, misled |-> m.misled]
KeepIfFits(m, n, o) ==
    IF m.full THEN m ELSE IF Len(n.pdu) > Room THEN Full(m, n) ELSE Keep(m, n, o)
AddedRoomless(added) ==
    LET m[n \in 0..Len(added)] ==
            IF n = 0 THEN AsItIs
            ELSE Keep(m[n - 1], WithOption(m[n - 1], Len(token), added[n].number, added[n].value),
                      added[n])
    IN m
Added(added) ==
    LET m[n \in 0..Len(added)] ==
            IF n = 0 THEN AsItIs
            ELSE KeepIfFits(m[n - 1],
                            WithOption(m[n - 1], Len(token), added[n].number, added[n].value),
                            added[n])
    IN m
AddAll(added) == Added(added)[Len(added)]

Highest(opts) == IF opts = <<>> THEN 0 ELSE opts[Len(opts)].number
Add(added) ==
    /\ \/ AnyOrder \/ _payloadLength = 0
       \/ \A i \in DOMAIN added : added[i].number < Highest(options)
    /\ \E m \in {AddAll(added)} :
         /\ pdu' = m.pdu
         /\ _maxAddedOptionNumber' = m.max
         /\ _numOptions' = m.num
         /\ options' = m.opts /\ refused' = m.refused /\ misled' = m.misled
    /\ UNCHANGED <<version, code, _payloadPointer, _payloadLength, token, payload>>
Value(len, i) == Fill(len, (10 * calls + i) % 256)

addOption(number, len) == Add(<<[number |-> number, value |-> Value(len, 1)]>>)
setContentFormat(len) == addOption(CONTENT_FORMAT, len)
addURIQuery(len) == addOption(URI_QUERY, len)

(* setURI splits at the separators; a query of one character that ends the *)
(* URI is dropped.                                                         *)
Segments(uri) ==
    [i \in DOMAIN uri.path |-> [number |-> URI_PATH, value |-> Value(uri.path[i], i)]]
      \o IF uri.query = <<1>> THEN <<>>
         ELSE [i \in DOMAIN uri.query |-> [number |-> URI_QUERY, value |-> Value(uri.query[i], 5 + i)]]
setURI(uri) == Add(Segments(uri))

-----------------------------------------------------------------------------

(* The bytes behind the token move up or down.  The length before is taken *)
(* in a byte; the messages here are shorter than 256.                      *)
setToken(len) ==
    LET bytes == Fill(len, (200 + calls) % 256)
        moved == bytes \o Rest(pdu, Len(token) + 1)
    IN /\ len > 0 /\ Len(moved) <= Room
       /\ pdu' = moved /\ token' = bytes
       /\ UNCHANGED <<version, code, _numOptions, _maxAddedOptionNumber, _payloadPointer,
                      _payloadLength, options, payload, refused, misled>>

(* mallocPayload and setPayload: the payload is written where the pointer  *)
(* points, which the other calls do not move.                              *)
NewLength(len) ==
    IF _payloadLength = 0 THEN Len(pdu) + len + 1 ELSE Len(pdu) + len - _payloadLength
PayloadStart == IF _payloadPointer = 0 THEN Len(pdu) + 2 ELSE _payloadPointer
Written(p, length, at, bytes, marked) ==
    [i \in 1..length |->
        IF i \in at..at + Len(bytes) - 1 THEN bytes[i - at + 1]
        ELSE IF i = at - 1 /\ marked THEN Marker
        ELSE IF i <= Len(p) THEN p[i] ELSE Garbage]
setPayload(len) ==
    LET bytes == Fill(len, (240 + calls) % 256)
    IN /\ len > 0 /\ NewLength(len) <= Room
       /\ AnyOrder \/ _payloadLength = 0
       /\ _payloadPointer' = PayloadStart
       /\ pdu' = Written(pdu, NewLength(len), PayloadStart, bytes, _payloadPointer = 0)
       /\ _payloadLength' = len /\ payload' = bytes
       /\ UNCHANGED <<version, code, _numOptions, _maxAddedOptionNumber, options, token,
                      refused, misled>>

setCode(c) ==
    /\ code' = c
    /\ UNCHANGED <<pdu, version, _numOptions, _maxAddedOptionNumber, _payloadPointer,
                   _payloadLength, options, token, payload, refused, misled>>

(* The header is cleared with the rest, its version too.                   *)
reset ==
    /\ pdu' = <<>> /\ version' = 0 /\ code' = 0
    /\ _numOptions' = 0 /\ _maxAddedOptionNumber' = 0
    /\ _payloadPointer' = 0 /\ _payloadLength' = 0
    /\ options' = <<>> /\ token' = <<>> /\ payload' = <<>>
    /\ refused' = FALSE /\ misled' = FALSE

Next ==
    /\ calls < MaxCalls
    /\ calls' = calls + 1
    /\ \/ \E n \in Numbers, len \in Lengths : addOption(n, len)
       \/ \E len \in Lengths : setContentFormat(len)
       \/ \E len \in Lengths : addURIQuery(len)
       \/ \E uri \in Uris : setURI(uri)
       \/ \E len \in Tokens : setToken(len)
       \/ \E len \in Payloads : setPayload(len)
       \/ \E c \in Codes : setCode(c)
       \/ reset
Spec == Init /\ [][Next]_pduVars

-----------------------------------------------------------------------------

(* The value of every variable.                                            *)
TypeOK ==
    /\ pdu \in Seq(0..255) /\ Len(pdu) <= Room /\ version \in {0, 1}
    /\ code \in Codes \cup {0} /\ _numOptions \in Nat
    /\ _maxAddedOptionNumber \in Numbers \cup {0, 11, 12, 15}
    /\ _payloadLength \in Payloads \cup {0} /\ calls \in 0..MaxCalls
    /\ {refused, misled} \subseteq BOOLEAN

(* However the calls are ordered, the receiver finds the token, every      *)
(* option, in the order of the numbers and of the calls, with its value,   *)
(* and the payload: so the next block of a request has the URI of the      *)
(* first (addOption, setToken, setPayload against validate, getOptions).   *)
(* This holds until an option is put in behind a refusal (misled): a       *)
(* refused option leaves the message whole, but its number is the one from *)
(* which the next is counted.  The values are shorter than 269 bytes.      *)
ParsesAsBuilt ==
    ~misled =>
        /\ Cat(pdu, 1, Len(token)) = token
        /\ getOptions = options /\ _numOptions = Len(options)
        /\ Walk(pdu, Len(token)).payload = payload
        /\ version = 1 /\ ValidCode(code) => validate

(* "Options can be added in any order, and in-memory manipulation will be  *)
(* performed to ensure the correct ordering of options" (addOption), of    *)
(* those that were added.  It does not hold behind a refusal.              *)
AddedAreFound == getOptions = options

(* What the theorems of MessageProofs assume of the constants: the values  *)
(* are shorter than 269 bytes, the tokens no longer than the header counts *)
(* and the message no longer than the byte counts in which setToken takes  *)
(* its length.                                                             *)
ShortMessages ==
    /\ Numbers \subseteq Differences /\ Lengths \subseteq 0..268
    /\ \A uri \in Uris : uri.path \in Seq(0..268) /\ uri.query \in Seq(0..268)
    /\ Tokens \subseteq 0..8 /\ Payloads \subseteq Nat /\ Room \in 0..251 /\ MaxCalls \in Nat

(* A message that has been reset can be built anew, and every code the     *)
(* library names is accepted.  Neither holds: reset clears the version,    *)
(* and 2.31 is between two ranges.                                         *)
ResetIsReusable == Walk(pdu, Len(token)).valid => validate
=============================================================================
