----------------------------- MODULE JoinTransfer -----------------------------
(***************************************************************************)
(* How a join message reaches an actuator node: the client's block-wise    *)
(* PUT (SensorsUnleasedGui/suGui/wsn.cpp) against the node's only assembly *)
(* buffer (resources/res-susensors.c, pairing.c).                          *)
(*                                                                         *)
(* The client sends the first block of a message and every next one as the *)
(* answer to the former comes in.  One single-shot timer serves all its    *)
(* open messages; a message is sent again when the time since its first    *)
(* block, or since its last retransmission, has passed ackTimeout: the     *)
(* answers in between restart nothing.  The node appends the payload of    *)
(* every block to the buffer, whatever its number, clears the buffer at    *)
(* number 0, and parses it after a block without more to follow.           *)
(*                                                                         *)
(* Time passes in ticks.  Messages of one direction stay in order and      *)
(* arrive within MaxDelay ticks or not at all.  A block is one element;    *)
(* all messages are of Length blocks.  The client builds messages of at    *)
(* most 200 bytes, which is the limit the resource refuses blocks beyond,  *)
(* so that answer (4.13) does not occur.                                   *)
(***************************************************************************)
EXTENDS Integers, SequencesExt

CONSTANTS
    Joins,            \* the join messages the client sends, each once
    Length,           \* blocks of a message
    Type,             \* the device's own URL, which the node adds at the end
    BufferBlocks,     \* blocks that fit the assembly buffer of 300 bytes
    AckTimeout,       \* ackTimeout in ticks
    Retransmissions,  \* retransmissions of a message
    MaxDelay,         \* ticks a message takes at most, one way
    Lossy,            \* TRUE: messages may be lost
    Overlapping       \* TRUE: a join may start while another is under way, and
                      \* other commands of the node use its buffer

ASSUME JoinsAssumption == Type \notin Joins
ASSUME SizesAssumption ==
    /\ Length \in Nat /\ Length >= 2
    /\ AckTimeout \in Nat \ {0}
    /\ {Retransmissions, MaxDelay} \subseteq Nat
    /\ BufferBlocks \in Nat /\ Length < BufferBlocks
ASSUME NetworkAssumption == {Lossy, Overlapping} \subseteq BOOLEAN

VARIABLES
    activePDUs,   \* the client's open messages, in the order they were sent
    state,        \* what became of a join: "new", "open", "done" or "failed"
    lastPDU,      \* the request the client sent last for a join
    retranscount, \* its retransmissions so far
    txtime,       \* ticks since its first block or last retransmission
    acktimer,     \* ticks until the timer fires, or Off
    toNode,       \* requests under way, the oldest first
    toClient,     \* answers under way, the oldest first
    buffer,       \* the node's assembly buffer
    parse,        \* history: how the last message was parsed
    joined,       \* history: the messages parsed as they were sent
    disturbed     \* history: a block may have been handled twice or not in turn

clientVars == <<activePDUs, state, lastPDU, retranscount, txtime>>
netVars == <<toNode, toClient>>
nodeVars == <<buffer, parse, joined>>
vars == <<clientVars, acktimer, netVars, nodeVars, disturbed>>

Off == -1
Message(j) == [b \in 1..Length |-> <<j, b>>]
Url == <<Type, 0>>
Junk == <<Type, 1>>
Elements == (Joins \X (1..Length)) \cup {Url, Junk}

(* A block is sent with number num, but its payload starts at the client's *)
(* tx_next_index: the two agree as long as every answer is to a new block. *)
MoreToLast(j, num, block) ==    \* slip: >= for > in "more"
    [join |-> j, num |-> num, block |-> block, more |-> block <= Length, age |-> 0]
Request(j, num, block) ==
    [join |-> j, num |-> num, block |-> block, more |-> block < Length, age |-> 0]
Requests == [join : Joins, num : Nat, block : 1..Length, more : BOOLEAN, age : 0..MaxDelay]
Codes == {"2.01", "2.04", "4.00", "5.00", "5.01"}
Answers == [join : Joins, num : Nat, block1 : BOOLEAN, code : Codes, age : 0..MaxDelay]

Ids(messages) == {messages[i].join : i \in 1..Len(messages)}
InFlight == Ids(toNode) \cup Ids(toClient)
Open(j) == Contains(activePDUs, j)

(* The sequence without the elements of X: removePDU for each of them. *)
Without(s, X) ==
    LET rest[n \in 0..Len(s)] ==
            IF n = 0 THEN <<>>
            ELSE IF s[n] \in X THEN rest[n - 1] ELSE Append(rest[n - 1], s[n])
    IN rest[Len(s)]

-----------------------------------------------------------------------------

Init ==
    /\ activePDUs = <<>>
    /\ state = [j \in Joins |-> "new"]
    /\ lastPDU = [j \in Joins |-> Request(j, 0, 1)]
    /\ retranscount = [j \in Joins |-> 0]
    /\ txtime = [j \in Joins |-> 0]
    /\ acktimer = Off
    /\ toNode = <<>> /\ toClient = <<>>
    /\ buffer = <<>> /\ parse = "none" /\ joined = {}
    /\ disturbed = FALSE

(* wsn::send: the first block goes out, and the timer is started unless it *)
(* runs for another message.                                               *)
Send(j) ==
    /\ state[j] = "new"
    /\ activePDUs = <<>> \/ Overlapping
    /\ toNode' = Append(toNode, Request(j, 0, 1))
    /\ acktimer' = IF acktimer = Off THEN AckTimeout ELSE acktimer
    /\ activePDUs' = Append(activePDUs, j)
    /\ state' = [state EXCEPT ![j] = "open"]
    /\ txtime' = [txtime EXCEPT ![j] = 0]
    /\ parse' = "none"
    /\ disturbed' = (activePDUs # <<>> \/ InFlight # {})
    /\ UNCHANGED <<lastPDU, retranscount, toClient, buffer, joined>>

(* wsn::timeout.  hasExpired compares milliseconds, so at the very tick it *)
(* may be true or not.                                                     *)
MayExpire(j) == txtime[j] >= AckTimeout
MustExpire(j) == txtime[j] > AckTimeout

(* The next run of the timer: ackTimeout if the first message that is kept *)
(* was sent again, else the longest time a message has waited, but at      *)
(* least one tick.                                                         *)
TimerForRetried(kept, again) ==    \* slip: only what was sent again is timed
    IF again # {} THEN AckTimeout ELSE Off
TimerAfter(kept, again) ==
    LET waits == {txtime[j] : j \in Range(kept) \ again} \cup {1}
    IN IF kept = <<>> THEN Off
       ELSE IF Head(kept) \in again THEN AckTimeout
       ELSE CHOOSE w \in waits : \A v \in waits : v <= w

GivenUp(j) == retranscount[j] >= Retransmissions

Timeout ==
    /\ acktimer = 0
    /\ \E expired \in SUBSET Range(activePDUs) :
          LET again   == {j \in expired : ~GivenUp(j)}
              gone    == expired \ again
              waiting == Range(activePDUs) \ expired
              kept    == Without(activePDUs, gone)
              resent  == Without(kept, waiting)
          IN /\ \A j \in expired : MayExpire(j)
             /\ \A j \in waiting : ~MustExpire(j)
             /\ toNode' = toNode \o [i \in 1..Len(resent) |-> lastPDU[resent[i]]]
             /\ retranscount' = [j \in Joins |-> IF j \in again THEN retranscount[j] + 1
                                                              ELSE retranscount[j]]
             /\ txtime' = [j \in Joins |-> IF j \in again THEN 0 ELSE txtime[j]]
             /\ acktimer' = TimerAfter(kept, again)
             /\ activePDUs' = kept
             /\ state' = [j \in Joins |-> IF j \in gone THEN "failed" ELSE state[j]]
             /\ disturbed' = (disturbed \/ again \cap InFlight # {})
    /\ UNCHANGED <<lastPDU, toClient, nodeVars>>

(* wsn::parseData with the answer to a block.  While there is payload left *)
(* the next block goes out, numbered after the answer; else the message is *)
(* done.  The answer to a message that is not open any more is ignored.    *)
AnswerArrives ==
    LET a    == Head(toClient)
        sent == lastPDU[a.join].block
        next == Request(a.join, a.num + 1, sent + 1)
    IN /\ toClient # <<>>
       /\ toClient' = Tail(toClient)
       /\ IF ~Open(a.join)
            THEN UNCHANGED <<clientVars, toNode>>
          ELSE IF a.block1 /\ sent < Length
            THEN /\ toNode' = Append(toNode, next)
                 /\ lastPDU' = [lastPDU EXCEPT ![a.join] = next]
                 /\ UNCHANGED <<activePDUs, state, retranscount, txtime>>
            ELSE /\ activePDUs' = Without(activePDUs, {a.join})
                 /\ state' = [state EXCEPT ![a.join] =
                                 IF a.code \in {"2.01", "2.04"} THEN "done" ELSE "failed"]
                 /\ UNCHANGED <<lastPDU, retranscount, txtime, toNode>>
       /\ UNCHANGED <<acktimer, nodeVars, disturbed>>

-----------------------------------------------------------------------------

(* pairing_assembleMessage: the buffer starts anew with block number 0,    *)
(* and a block that does not fit is not appended.                          *)
NeverCleared(num) == buffer    \* slip: the former message is kept
Assembly(num) == IF num = 0 THEN <<>> ELSE buffer
RoomForOneMore(b) == Len(b) <= BufferBlocks    \* slip: off by one
RoomIn(b) == Len(b) < BufferBlocks

(* The message, with the device's URL, at the start of the buffer, which   *)
(* is all that pairing_handle reads.                                       *)
Found(b) == {j \in Joins : IsPrefix(Append(Message(j), Url), b)}

(* The join branch of res_susensor_puthandler: the block is assembled and, *)
(* if none is to follow, the device's URL is added and the buffer parsed.  *)
(* If what is parsed is not the message the block belongs to, it may be    *)
(* taken for some other pair or refused.                                   *)
RequestArrives ==
    LET r         == Head(toNode)
        base      == Assembly(r.num)
        fits      == RoomIn(base)
        assembled == IF fits THEN Append(base, <<r.join, r.block>>) ELSE base
        parsed    == Append(assembled, Url)
        Answer(code) ==
            toClient' = Append(toClient, [join |-> r.join, num |-> r.num, age |-> 0,
                                          block1 |-> fits, code |-> code])
    IN /\ toNode # <<>>
       /\ toNode' = Tail(toNode)
       /\ \/ /\ r.more
             /\ buffer' = assembled
             /\ Answer(IF fits THEN "2.04" ELSE "5.01")
             /\ UNCHANGED <<parse, joined>>
          \/ /\ ~r.more /\ ~RoomIn(assembled)
             /\ buffer' = assembled
             /\ Answer("5.00")
             /\ UNCHANGED <<parse, joined>>
          \/ /\ ~r.more /\ RoomIn(assembled) /\ r.join \in Found(parsed)
             /\ buffer' = parsed
             /\ joined' = joined \cup {r.join}
             /\ parse' = "as sent"
             /\ Answer("2.01")
          \/ /\ ~r.more /\ RoomIn(assembled) /\ r.join \notin Found(parsed)
             /\ buffer' = parsed
             /\ parse' = "garbled"
             /\ \E code \in {"2.01", "4.00"} : Answer(code)
             /\ joined' = joined \cup Found(parsed)
       /\ UNCHANGED <<clientVars, acktimer, disturbed>>

(* A pairRemoveIndex command of any client uses the buffer for its copies  *)
(* and leaves it empty, or, when it returns early, marked as full.         *)
PairRemoveIndex ==
    /\ Overlapping
    /\ buffer' \in {<<>>, [i \in 1..BufferBlocks |-> Junk]}
    /\ disturbed' = TRUE
    /\ UNCHANGED <<clientVars, acktimer, netVars, parse, joined>>

-----------------------------------------------------------------------------

Aged(messages) == [i \in 1..Len(messages) |-> [messages[i] EXCEPT !.age = @ + 1]]
InTime(messages) == \A i \in 1..Len(messages) : messages[i].age < MaxDelay

(* A tick, when no message is due and the timer does not fire. *)
Tick ==
    /\ InFlight # {} \/ acktimer # Off
    /\ InTime(toNode) /\ InTime(toClient)
    /\ acktimer # 0
    /\ toNode' = Aged(toNode) /\ toClient' = Aged(toClient)
    /\ acktimer' = IF acktimer = Off THEN Off ELSE acktimer - 1
    /\ txtime' = [j \in Joins |-> IF Open(j) /\ txtime[j] <= AckTimeout
                                    THEN txtime[j] + 1 ELSE txtime[j]]
    /\ UNCHANGED <<activePDUs, state, lastPDU, retranscount, nodeVars, disturbed>>

RequestLost ==
    /\ Lossy /\ toNode # <<>>
    /\ toNode' = Tail(toNode)
    /\ UNCHANGED <<clientVars, acktimer, toClient, nodeVars, disturbed>>

(* The node has handled the block, and will handle it again. *)
AnswerLost ==
    /\ Lossy /\ toClient # <<>>
    /\ toClient' = Tail(toClient)
    /\ disturbed' = TRUE
    /\ UNCHANGED <<clientVars, acktimer, toNode, nodeVars>>

System == Tick \/ Timeout \/ AnswerArrives \/ RequestArrives

Next ==
    \/ System
    \/ \E j \in Joins : Send(j)
    \/ RequestLost \/ AnswerLost \/ PairRemoveIndex

(* Time passes, the timer fires, and what is not lost arrives; nobody has  *)
(* to send a join.                                                         *)
Spec == Init /\ [][Next]_vars
FairSpec == Spec /\ WF_vars(System)

-----------------------------------------------------------------------------

(* The value of every variable. *)
TypeOK ==
    /\ activePDUs \in Seq(Joins)
    /\ state \in [Joins -> {"new", "open", "done", "failed"}]
    /\ lastPDU \in [Joins -> Requests]
    /\ retranscount \in [Joins -> 0..Retransmissions]
    /\ txtime \in [Joins -> 0..AckTimeout + 1]
    /\ acktimer \in 0..AckTimeout \cup {Off}
    /\ toNode \in Seq(Requests)
    /\ toClient \in Seq(Answers)
    /\ buffer \in Seq(Elements) /\ Len(buffer) <= BufferBlocks
    /\ parse \in {"none", "as sent", "garbled"}
    /\ joined \subseteq Joins
    /\ disturbed \in BOOLEAN

(* While a message is open the one timer runs, whichever messages it was   *)
(* started for and have ended since: an open message without a timer would *)
(* wait for an answer forever.                                             *)
TimerRuns == activePDUs # <<>> => acktimer # Off

(* The node parses a message other than it was sent only if one of the     *)
(* known causes has come before, within the same transfer: an answer was   *)
(* lost, a block was sent again although it or its answer was still under  *)
(* way, or another message or command came between the blocks.             *)
UndisturbedIsWhole == parse = "garbled" => disturbed

(* The node parses no message other than it was sent. *)
NothingGarbled == parse # "garbled"

(* Without such a cause, a join the client takes for done was parsed by    *)
(* the node as it was sent: the last block is not thought to be answered   *)
(* when only its predecessor was.                                          *)
DoneIsJoined ==
    [][\A j \in Joins :
          state[j] = "open" /\ state'[j] = "done" /\ ~disturbed => j \in joined]_vars

(* Every join ends, answered or given up. *)
EveryJoinEnds == \A j \in Joins : state[j] = "open" ~> state[j] # "open"
=============================================================================
