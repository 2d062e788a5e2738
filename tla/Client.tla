-------------------------------- MODULE Client --------------------------------
(***************************************************************************)
(* The GUI's message coding and what it shows and stores, one instance of  *)
(* each.  The five components share no state that any of them tells apart, *)
(* so a behaviour follows one of them, chosen at the start (focus), and    *)
(* the others rest in their initial state.                                 *)
(***************************************************************************)
EXTENDS Integers, Sequences

CONSTANTS
    Base, PosFixMax, NegFixMin, FixStrMax, FixListMax,                     \* MsgPack
    MpNumbers, MpSizes, MaxObjects, StrBuffer,
    OptionNumbers, OptionLengths, Uris, Codes, Tokens, Payloads, Room,     \* CoapPdu
    AnyOrder, MaxCalls,
    ListedPairs, FirstFile, MaxRequests, MaxOthers, MaxCopies,             \* PairView
    Nodes, KnownNodes, Published, Destinations, MaxRows,                   \* NodeStore
    CodedPairs, srcurl, StringMax, ShownMax, StoreSize, BUFFERSIZE,        \* PairCoding
    BlockSize, MaxJoins, MaxRemovals

VARIABLE focus

VARIABLES buf, written, at, reads
mpVars == <<buf, written, at, reads>>

VARIABLES pdu, version, code, _numOptions, _maxAddedOptionNumber, _payloadPointer,
          _payloadLength, options, token, payload, refused, misled, calls
pduVars == <<pdu, version, code, _numOptions, _maxAddedOptionNumber, _payloadPointer,
             _payloadLength, options, token, payload, refused, misled, calls>>

VARIABLES file, exists, rows, lastcmd, asked, open, copies, toNode, toClient,
          others, rival, removals, apart
viewFileVars == <<file, exists, rows, lastcmd, asked, open, copies, toNode, toClient,
                  others, rival, removals, apart>>

VARIABLES sensorsTable, running, read, nodes, sensors, allsensors, nodesmodel, links
storeVars == <<sensorsTable, running, read, nodes, sensors, allsensors, nodesmodel, links>>

VARIABLES pairFile, ram, answer, rx, num, list, stored, mixed, told, joins, removed
pairVars == <<pairFile, ram, answer, rx, num, list, stored, mixed, told, joins, removed>>

Mp == INSTANCE MsgPack WITH Numbers <- MpNumbers, Sizes <- MpSizes, calls <- written
Pdu == INSTANCE CoapPdu WITH Numbers <- OptionNumbers, Lengths <- OptionLengths
View == INSTANCE PairView WITH Pairs <- ListedPairs
Store == INSTANCE NodeStore
Coding == INSTANCE PairCoding
    WITH Pairs <- CodedPairs, file <- pairFile, rows <- list, removals <- removed

-----------------------------------------------------------------------------
(* What the theorems of ClientProofs assume of the constants.              *)

(* The pairs file at the start holds pairs, and the bounds are numbers.    *)
Lists == FirstFile \in Seq(ListedPairs) /\ {MaxRequests, MaxOthers, MaxCopies} \subseteq Nat

(* The nodes of the database, the links and the destinations are known.    *)
Tables ==
    /\ KnownNodes \in Seq(Nodes)
    /\ \A a \in Nodes : Published[a] \in Seq(STRING)
    /\ Destinations \subseteq [addr : Nodes, uri : STRING]

(* A byte has more than two values, a fixnum is a number of one byte, and  *)
(* the numbers and lengths written are those the library has a form for.   *)
Digits ==
    /\ Base \in Nat /\ Base > 2
    /\ PosFixMax \in Nat /\ PosFixMax <= Mp!Greatest(1) \div 2
    /\ NegFixMin \in Int /\ NegFixMin < 0 /\ NegFixMin >= Mp!Lowest(1)
    /\ FixStrMax \in Nat /\ FixListMax \in Nat
    /\ MpNumbers \subseteq {v \in Int : v >= Mp!Lowest(8) /\ v <= Mp!Greatest(8)}
    /\ MpSizes \subseteq {v \in Nat : v <= Mp!Greatest(4)}
    /\ MaxObjects \in Nat /\ StrBuffer \in Nat

(* The messages are shorter than the byte counts in which setToken takes   *)
(* their length, and their values than the lengths that are copied whole.  *)
Messages == Pdu!ShortMessages

(* The pairs that are coded fit in the buffers of either side.             *)
Codings == Coding!PairsFit

ASSUME ClientAssumption == Lists /\ Tables /\ Digits /\ Messages /\ Codings

-----------------------------------------------------------------------------

Init ==
    /\ focus \in {"msgpack", "pdu", "view", "store", "coding"}
    /\ Mp!MpInit /\ Pdu!Init /\ View!Init /\ Store!Init /\ Coding!Init

Next ==
    \/ /\ focus = "msgpack" /\ Mp!MpNext
       /\ UNCHANGED <<focus, pduVars, viewFileVars, storeVars, pairVars>>
    \/ /\ focus = "pdu" /\ Pdu!Next
       /\ UNCHANGED <<focus, mpVars, viewFileVars, storeVars, pairVars>>
    \/ /\ focus = "view" /\ View!Next
       /\ UNCHANGED <<focus, mpVars, pduVars, storeVars, pairVars>>
    \/ /\ focus = "store" /\ Store!Next
       /\ UNCHANGED <<focus, mpVars, pduVars, viewFileVars, pairVars>>
    \/ /\ focus = "coding" /\ Coding!Next
       /\ UNCHANGED <<focus, mpVars, pduVars, viewFileVars, storeVars>>

clientVars == <<focus, mpVars, pduVars, viewFileVars, storeVars, pairVars>>
Spec == Init /\ [][Next]_clientVars

-----------------------------------------------------------------------------

(* The type invariant of the component that runs.                          *)
ClientTypeOK ==
    CASE focus = "msgpack" -> at \in 1..Len(buf) + 1 /\ Len(reads) <= Len(written)
      [] focus = "pdu" -> Pdu!TypeOK
      [] focus = "view" -> View!TypeOK
      [] focus = "store" -> Store!TypeOK
      [] focus = "coding" -> Coding!TypeOK

(* cmp.c: what is written is what is read, by just the types that hold it. *)
ValuesSurvive == Mp!WrittenIsRead /\ Mp!ReadersTakeWhatFits

(* cantcoap.cpp: the receiver finds what the calls put in.                 *)
ParsesAsBuilt == Pdu!ParsesAsBuilt

(* pairlist.cpp, pairing.c: the list of pairs shows the node's file.       *)
ViewFollowsFile == View!ViewFollowsFile

(* sensor.cpp, pairing.c: a pair is read as it was joined.                 *)
PairsReadAlike == Coding!PairsReadAlike

(* sensorsunleashed.cpp: the sensors shown are those of the database.      *)
RowsAreShown == Store!RowsAreShown
=============================================================================
