----------------------------- MODULE PairCoding ------------------------------
(***************************************************************************)
(* How a pair is coded: the join message of the GUI (sensor.cpp), the      *)
(* record the node makes of it in the file of its device (pairing.c with   *)
(* lib/cmp_helpers.c), and the list of pairs the GUI reads back, a block   *)
(* at a time (wsn.cpp), while pairs are joined and removed.  The join      *)
(* arrives whole (module JoinTransfer has its blocks), and a command runs  *)
(* to its end (module Pairing has the rest of it).  How a number is coded  *)
(* is module MsgPack's.                                                    *)
(***************************************************************************)
EXTENDS Integers, Sequences, SequencesExt, Selections

CONSTANTS
    Pairs,         \* what users join: [addr, url, actions]
    srcurl,        \* s->type, the name of the device
    StringMax,     \* room for a string in parseMessage
    ShownMax,      \* room for a string in parsePairList
    StoreSize,     \* the GUI's buffer for a join, and large_update_store
    BUFFERSIZE,    \* room for a record
    BlockSize,     \* preferred_size of an answer
    MaxJoins,      \* bounds of the checks
    MaxRemovals

VARIABLES
    file,       \* pairs_<device>, a sequence of cells
    ram,        \* the list of pairs: [addr, url, triggers, src]
    answer,     \* the pair last joined, and the code of the answer
    rx,         \* rx_payload of the list that is being read
    num,        \* the next block to ask for, or Idle
    rows,       \* the list the user sees
    stored,     \* history: the pairs that should be in the file
    mixed,      \* history: a removal fell between two blocks
    told,       \* history: what should be in the rows, a sequence of one once it is known
    joins,      \* joins and removals so far
    removals

pairVars == <<file, ram, answer, rx, num, rows, stored, mixed, told, joins, removals>>

Idle == -1
Events == <<"above", "below", "change">>

-----------------------------------------------------------------------------
(* A number, a length or a string is coded as module MsgPack has it, with  *)
(* the limits of the code.  A cell is a byte of the message: here the      *)
(* marker of an object holds all of the number or length, and the bytes    *)
(* that follow it are only counted.                                        *)
Cell(t, v) == <<[type |-> t, val |-> v]>>
Data(b) == [i \in DOMAIN b |-> [type |-> "data", val |-> b[i]]]
Width(t) == CASE t \in {"fixarray", "fixstr"} -> 0 [] t \in {"u8", "s8", "str8", "bin8"} -> 1
              [] t \in {"u16", "array16", "str16", "bin16"} -> 2
Coded(t, v) == Cell(t, v) \o Data([i \in 1..Width(t) |-> 0])
cmp_read_object(b, p) ==
    IF p > Len(b) \/ b[p].type = "data" THEN [type |-> "none", val |-> 0, next |-> p]
    ELSE [type |-> b[p].type, val |-> b[p].val, next |-> p + 1 + Width(b[p].type)]

(* Writing.                                                                *)
WriteArray(t, size, seq) ==
    Coded(IF size <= 15 THEN "fixarray" ELSE "array16", size)
        \o FlattenSeq([i \in DOMAIN seq |-> Coded(t, seq[i])])
cp_encodeString(s) ==
    Coded(IF Len(s) <= 31 THEN "fixstr" ELSE IF Len(s) <= 255 THEN "str8" ELSE "str16", Len(s))
        \o Data(s)
cmp_write_bin(cells) == Coded(IF Len(cells) <= 255 THEN "bin8" ELSE "bin16", Len(cells)) \o cells

(* sensor::pair: the length of an address is in bytes, its elements are    *)
(* words; an event without an action has the trigger -1.                   *)
triggersetup(p) ==
    [i \in 1..3 |-> IF Events[i] \in DOMAIN p.actions THEN p.actions[Events[i]] ELSE -1]
pair(p) ==
    WriteArray("u16", 2 * Len(p.addr), p.addr) \o cp_encodeString(p.url)
        \o WriteArray("s8", 3, triggersetup(p))

(* Reading: what was read, where the next object is, and whether all was   *)
(* of the type asked for.  What is no array reads as an empty one.         *)
Size(t) == IF t = "u16" THEN 2 ELSE 1
ReadNumber(b, t, s) ==
    LET r == cmp_read_object(b, s.next) IN
    IF s.ok /\ r.type = t THEN [ok |-> TRUE, next |-> r.next, val |-> Append(s.val, r.val)]
    ELSE [s EXCEPT !.ok = FALSE]
NumbersRead(b, t, p, count) ==
    LET read[n \in 0..count] ==
            IF n = 0 THEN [ok |-> TRUE, next |-> p, val |-> <<>>]
            ELSE ReadNumber(b, t, read[n - 1])
    IN read
ReadArray(b, t, r) ==
    LET count == IF r.type \in {"fixarray", "array16"} THEN r.val \div Size(t) ELSE 0
    IN NumbersRead(b, t, r.next, count)[count]
ReadString(b, room, r) ==
    IF r.type \in {"fixstr", "str8", "str16"} /\ r.val + 1 <= room /\ r.next + r.val - 1 <= Len(b)
    THEN [ok |-> TRUE, next |-> r.next + r.val,
          val |-> [i \in 1..r.val |-> b[r.next + i - 1].val]]
    ELSE [ok |-> FALSE, next |-> r.next, val |-> <<>>]
ReadPart(b, kind, room, next) ==
    IF kind = "string" THEN ReadString(b, room, cmp_read_object(b, next))
    ELSE ReadArray(b, kind, cmp_read_object(b, next))

(* The address, the URL, the triggers and the device of a pair, up to the  *)
(* part that is wrong; room is that of a string.                           *)
NextPart(b, room, kind, s) ==
    LET r == ReadPart(b, kind, room, s.next) IN
    IF s.wrong # 0 THEN s
    ELSE IF ~r.ok THEN [s EXCEPT !.wrong = Len(s.parts) + 1]
    ELSE [s EXCEPT !.next = r.next, !.parts = Append(@, r.val)]
Parts(b, p, room) ==
    LET addr == NextPart(b, room, "u16", [wrong |-> 0, next |-> p, parts |-> <<>>])
        url == NextPart(b, room, "string", addr)
        triggers == NextPart(b, room, "s8", url)
    IN NextPart(b, room, "string", triggers)
parseMessage(b) == Parts(b, 1, StringMax)
Parsed(m) ==
    [addr |-> m.parts[1], url |-> m.parts[2], triggers |-> m.parts[3], src |-> m.parts[4]]

(* cmp_read_bin until the first object that is none; the end of the file   *)
(* reads as the number 0.  Every record has a head.                        *)
RecordTypes == {"bin8", "bin16"}
Heads(f) == Cardinality({p \in DOMAIN f : f[p].type \in RecordTypes})
NextRecord(f, s) ==
    LET r == cmp_read_object(f, s.next) IN
    IF r.type \in RecordTypes /\ r.val <= BUFFERSIZE
    THEN [next |-> r.next + r.val,
          records |-> Append(s.records, SubSeq(f, r.next, r.next + r.val - 1))]
    ELSE s
RecordsUpTo(f) ==
    LET read[n \in 0..Heads(f)] ==
            IF n = 0 THEN [next |-> 1, records |-> <<>>] ELSE NextRecord(f, read[n - 1])
    IN read
Records(f) == RecordsUpTo(f)[Heads(f)].records
AllParsed(records) == [i \in DOMAIN records |-> parseMessage(records[i])]
WholeOnes(messages) == Only(messages, {m \in Range(messages) : m.wrong = 0})
restore_SensorPairs(f) ==
    LET good == WholeOnes(AllParsed(Records(f)))
    IN [i \in DOMAIN good |-> Parsed(good[i])]

-----------------------------------------------------------------------------

Init ==
    /\ file = <<>> /\ ram = <<>> /\ answer = <<>>
    /\ rx = <<>> /\ num = Idle /\ rows = <<>>
    /\ stored = <<>> /\ mixed = FALSE /\ told = <<>>
    /\ joins = 0 /\ removals = 0

(* PUT ?join: the resource, pairing_handle and store_SensorPair.  Pairs    *)
(* are compared by their URLs.  A message longer than the GUI's buffer for *)
(* it is left out: sensor::pair does not check its length.                 *)
Answered(p, code, list, f, past) ==
    /\ answer' = <<p, code>>
    /\ ram' = list /\ file' = f /\ stored' = past
Refuse(p, code) == Answered(p, code, ram, file, stored)
Joined(p, data, m) ==
    IF m.wrong = 3 THEN Refuse(p, "5.00")
    ELSE IF m.wrong # 0 THEN Refuse(p, "4.00")
    ELSE IF \E i \in DOMAIN ram : ram[i].url = Parsed(m).url THEN Refuse(p, "3.04")
    ELSE Answered(p, "2.01", Append(ram, Parsed(m)), file \o cmp_write_bin(data),
                  Append(stored, p))
Join(p) ==
    /\ joins < MaxJoins /\ Len(pair(p)) <= StoreSize
    /\ joins' = joins + 1
    /\ IF Len(pair(p)) + Len(srcurl) > BUFFERSIZE THEN Refuse(p, "5.00")
       ELSE \E data \in {pair(p) \o cp_encodeString(srcurl)} :
               \E m \in {parseMessage(data)} : Joined(p, data, m)
    /\ UNCHANGED <<rx, num, rows, mixed, told, removals>>

(* PUT ?pairRemoveIndex: the indexes of the rows, ascending; every record  *)
(* but these is copied, the list in RAM is left alone.                     *)
removeItems(ids) == WriteArray("u8", Len(ids), ids)
KeptUpTo(records, ids) ==
    LET copied[currentindex \in 0..Len(records)] ==
            IF currentindex = 0 THEN [i |-> 1, kept |-> <<>>]
            ELSE LET s == copied[currentindex - 1] IN
                 IF s.i <= Len(ids) /\ ids[s.i] = currentindex - 1
                 THEN [s EXCEPT !.i = @ + 1]
                 ELSE [s EXCEPT !.kept = Append(@, records[currentindex])]
    IN copied
Kept(records, ids) == KeptUpTo(records, ids)[Len(records)].kept
pairing_remove(ids) ==
    /\ removals < MaxRemovals /\ file # <<>>
    /\ removals' = removals + 1
    /\ \E index \in {ReadPart(removeItems(ids), "u8", 0, 1).val} :
          \E kept \in {Kept(Records(file), index)} :
              file' = FlattenSeq([i \in DOMAIN kept |-> cmp_write_bin(kept[i])])
    /\ stored' = Kept(stored, ids)
    /\ mixed' = (mixed \/ num # Idle)
    /\ UNCHANGED <<ram, answer, rx, num, rows, told, joins>>

(* The node starts anew; a start that changes nothing is left out.         *)
Restart ==
    /\ ram' = restore_SensorPairs(file)
    /\ ram' # ram
    /\ UNCHANGED <<file, answer, rx, num, rows, stored, mixed, told, joins, removals>>

-----------------------------------------------------------------------------

(* sensor::parsePairList, behind the marker of the record, and             *)
(* parseAppOctetFormat, up to the first record that is wrong.              *)
Row(m) ==
    [addr |-> m.parts[1], url |-> m.parts[2], src |-> m.parts[4],
     actions |-> [e \in {Events[i] : i \in {j \in 1..3 : m.parts[3][j] # -1}} |->
                     m.parts[3][CHOOSE i \in 1..3 : Events[i] = e]]]
parsePairList(b, p) ==
    LET m == Parts(b, p, ShownMax) IN
    IF m.wrong = 0 /\ Len(m.parts[3]) = 3 THEN [row |-> <<Row(m)>>, next |-> m.next]
    ELSE [row |-> <<>>, next |-> Len(b) + 1]
NextRow(b, s) ==
    LET h == cmp_read_object(b, s.next)
        m == parsePairList(b, h.next)
    IN IF h.type \in RecordTypes THEN [next |-> m.next, list |-> s.list \o m.row] ELSE s
RowsUpTo(b) ==
    LET read[n \in 0..Heads(b)] ==
            IF n = 0 THEN [next |-> 1, list |-> <<>>] ELSE NextRow(b, read[n - 1])
    IN read
parseList(b) == RowsUpTo(b)[Heads(b)].list

(* GET ?pairings: the node reads a block of the file, and says that there  *)
(* is no more when it is not full (pairing_getlist).                       *)
BlockOf(f, n) ==
    SubSeq(f, n * BlockSize + 1, IF (n + 1) * BlockSize < Len(f) THEN (n + 1) * BlockSize
                                                                ELSE Len(f))
MoreNever(block) == Len(block) > BlockSize    \* slip: <= for < in the node
More(block) == Len(block) = BlockSize
getpairingslist ==
    /\ num = Idle
    /\ num' = 0 /\ rx' = <<>> /\ mixed' = FALSE
    /\ UNCHANGED <<file, ram, answer, rows, stored, told, joins, removals>>

(* The GUI puts the block at its place, and asks for the next one or       *)
(* parses the list; a list without a pair leaves the rows as they are.     *)
(* Nothing is said of the rows of a mixed list, nor are they modelled past *)
(* its first wrong record.                                                 *)
ParsedRows(cells) == IF cells = <<>> THEN rows ELSE parseList(cells)
BlockArrives ==
    /\ num # Idle
    /\ \E block \in {BlockOf(file, num)} :
          IF More(block)
          THEN num' = num + 1 /\ rx' = rx \o block /\ UNCHANGED <<rows, told>>
          ELSE /\ num' = Idle /\ rx' = <<>>
               /\ \E got \in {rx \o block} :
                     /\ rows' = ParsedRows(got)
                     /\ told' = IF mixed \/ (got = <<>> /\ rows # <<>>) THEN <<>>
                               ELSE <<stored>>
    /\ UNCHANGED <<file, ram, answer, stored, mixed, joins, removals>>

Next ==
    \/ \E p \in Pairs : Join(p)
    \/ \E ids \in {<<0>>, <<1>>, <<0, 1>>, <<0, 2>>} : pairing_remove(ids)
    \/ Restart \/ getpairingslist \/ BlockArrives
Spec == Init /\ [][Next]_pairVars

-----------------------------------------------------------------------------

(* The value of every variable.                                            *)
TypeOK ==
    /\ IF num = Idle THEN rx = <<>> ELSE num \in Nat /\ Len(rx) = num * BlockSize
    /\ Len(ram) <= joins /\ Len(stored) <= joins
    /\ mixed \in BOOLEAN /\ Len(told) <= 1 /\ Len(answer) \in {0, 2}
    /\ joins \in 0..MaxJoins /\ removals \in 0..MaxRemovals

AsParsed(p) ==
    [addr |-> p.addr, url |-> p.url, triggers |-> triggersetup(p), src |-> srcurl]
AsShown(p) == [addr |-> p.addr, url |-> p.url, actions |-> p.actions, src |-> srcurl]
Short(p) == Len(p.url) < ShownMax
UpToLong(ps) ==
    LET long == {i \in DOMAIN ps : ~Short(ps[i])} IN
    IF long = {} THEN ps
    ELSE SubSeq(ps, 1, CHOOSE i \in 0..Len(ps) : i + 1 \in long /\ \A j \in 1..i : j \notin long)

(* The three readers of a pair agree: a join is refused only for its URL,  *)
(* because it is too long or known; what the node would restore is what    *)
(* was joined and not removed; and a list read while pairs are joined, but *)
(* none removed, shows just that, up to the first URL of ShownMax          *)
(* characters (sensor::pair and parsePairList against parseMessage,        *)
(* pairing_remove and the two ends of the block transfer).                 *)
PairsReadAlike ==
    /\ restore_SensorPairs(file) = [i \in DOMAIN stored |-> AsParsed(stored[i])]
    /\ answer # <<>> /\ Len(answer[1].url) < StringMax => answer[2] \in {"2.01", "3.04"}
    /\ \A i \in DOMAIN told :
          rows = LET ps == UpToLong(told[i]) IN [k \in DOMAIN ps |-> AsShown(ps[k])]

(* What the theorems assume of the constants: the users' numbers are       *)
(* numbers, an action is none that stands for no action, a device's name   *)
(* fits in either reader's room, and what the GUI's buffer holds fits with *)
(* it in a record.                                                         *)
IsPair(p) ==
    /\ p.addr \in Seq(Nat) /\ p.url \in Seq(Nat)
    /\ p.actions \in [DOMAIN p.actions -> Nat] /\ DOMAIN p.actions \subseteq Range(Events)
PairsFit ==
    /\ \A p \in Pairs : IsPair(p)
    /\ srcurl \in Seq(Nat)
    /\ {StringMax, ShownMax, StoreSize, BUFFERSIZE, MaxJoins, MaxRemovals} \subseteq Nat
    /\ Len(srcurl) < StringMax /\ Len(srcurl) < ShownMax
    /\ StoreSize + Len(cp_encodeString(srcurl)) <= BUFFERSIZE
    /\ BlockSize \in Nat \ {0}

(* Every pair the node stores is shown.  It does not hold: the GUI has     *)
(* room for shorter URLs than the node, and a record it refuses hides the  *)
(* ones behind it.                                                         *)
StoredIsShown == \A i \in DOMAIN told : Len(rows) = Len(told[i])
=============================================================================
