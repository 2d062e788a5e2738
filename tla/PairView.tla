------------------------------- MODULE PairView -------------------------------
(***************************************************************************)
(* The GUI's list of a device's pairs (SensorsUnleasedGui/suGui:           *)
(* pairlist.cpp, the pair requests of sensor.cpp) and the pairs file of    *)
(* the node it shows (sensorsUnleashed/pairing.c, resources/               *)
(* res-susensors.c).                                                       *)
(*                                                                         *)
(* A row gets as its id the place at which the list was read; the ids are  *)
(* what a removal sends, and the node takes them as places of its file.    *)
(* The rows that are left keep their ids, the records of the file move up. *)
(*                                                                         *)
(* Every request is confirmable and is sent again by wsn::timeout; the     *)
(* node handles a copy once more.  A long answer, which the node sends in  *)
(* blocks, is one message here.  The user marks at least one row before    *)
(* removing: an empty list of ids makes the node compare with an           *)
(* uninitialised index.                                                    *)
(***************************************************************************)
EXTENDS Integers, SequencesExt, Selections

CONSTANTS
    Pairs,        \* the pairs another client may add to the device
    FirstFile,    \* the pairs in the file when the GUI starts
    MaxRequests,  \* bound on the requests of the GUI
    MaxOthers,    \* bound on the changes other clients make
    MaxCopies     \* bound on the times one request is sent again

VARIABLES
    file,      \* the pairs in the node's file, in order
    exists,    \* whether that file exists
    rows,      \* the rows of the list
    lastcmd,   \* the ids of the last removal: rowstodelete
    asked,     \* the requests made so far, their place is their token
    open,      \* the tokens that wait for their answer: activePDUs
    copies,    \* how often each request was sent again
    toNode,    \* requests under way, the oldest first
    toClient,  \* answers under way, the oldest first
    others,    \* the changes other clients made
    rival,     \* history: someone else changed the file after the last reading
    removals,  \* history: removals handled by the node since the last reading
    apart      \* history: requests overlapped, or were handled more than once,
               \* since the last reading

nodeVars == <<file, exists>>
viewVars == <<rows, lastcmd>>
requestVars == <<asked, open, copies, toNode, toClient>>
pastVars == <<others, rival, removals, apart>>
viewFileVars == <<nodeVars, viewVars, requestVars, pastVars>>

Row == [dst : Pairs, id : Nat, selected : {0, 1}]
Requests == [req : {"pairings", "removeAll", "removeIndex"}, ids : Seq(Nat)]
Answer(t, code, list) == [token |-> t, code |-> code, list |-> list]

TypeOK ==
    /\ file \in Seq(Pairs) /\ exists \in BOOLEAN /\ (file # <<>> => exists)
    /\ rows \in Seq(Row)
    /\ lastcmd \in Seq(Nat)
    /\ asked \in Seq(Requests) /\ Len(asked) <= MaxRequests
    /\ open \subseteq DOMAIN asked
    /\ copies \in [1..MaxRequests -> 0..MaxCopies]
    /\ toNode \in Seq(DOMAIN asked)
    /\ \A i \in DOMAIN toClient : toClient[i].token \in DOMAIN asked
    /\ others \in 0..MaxOthers /\ rival \in BOOLEAN /\ removals \in Nat /\ apart \in BOOLEAN

-----------------------------------------------------------------------------

Init ==
    /\ file = FirstFile /\ exists = (FirstFile # <<>>)
    /\ rows = <<>> /\ lastcmd = <<>>
    /\ asked = <<>> /\ open = {} /\ copies = [t \in 1..MaxRequests |-> 0]
    /\ toNode = <<>> /\ toClient = <<>>
    /\ others = 0 /\ rival = TRUE /\ removals = 0 /\ apart = FALSE

Quiet == open = {} /\ toNode = <<>> /\ toClient = <<>>

Ask(req, ids) ==
    /\ Len(asked) < MaxRequests
    /\ asked' = Append(asked, [req |-> req, ids |-> ids])
    /\ open' = open \cup {Len(asked')}
    /\ toNode' = Append(toNode, Len(asked'))
    /\ apart' = (apart \/ ~Quiet)
    /\ UNCHANGED <<nodeVars, copies, toClient, others, rival, removals>>

getpairingslist == Ask("pairings", <<>>) /\ UNCHANGED viewVars
clearpairingslist == Ask("removeAll", <<>>) /\ UNCHANGED viewVars

setSelected(r) ==
    /\ rows' = [rows EXCEPT ![r].selected = 1 - @]
    /\ UNCHANGED <<nodeVars, lastcmd, requestVars, pastVars>>

(* pairlist::removePairings: all rows at once empty the file.              *)
Marked ==
    LET marked == Only(rows, {r \in Row : r.selected = 1})
    IN [i \in DOMAIN marked |-> marked[i].id]
removePairings ==
    /\ Marked # <<>>
    /\ IF Len(Marked) = Len(rows) THEN Ask("removeAll", <<>>)
                                  ELSE Ask("removeIndex", Marked)
    /\ lastcmd' = Marked
    /\ UNCHANGED rows

-----------------------------------------------------------------------------

(* pairing_remove copies every record but those at the given places, which *)
(* must ascend: a place below the one waited for is passed over.           *)
Kept(list, ids) ==
    LET step[n \in 0..Len(list)] ==
            IF n = 0 THEN [i |-> 1, kept |-> <<>>]
            ELSE LET s == step[n - 1]
                 IN IF s.i <= Len(ids) /\ ids[s.i] = n - 1
                    THEN [s EXCEPT !.i = @ + 1]
                    ELSE [s EXCEPT !.kept = Append(@, list[n])]
    IN step[Len(list)].kept

Handle(t, code, list, newfile, there) ==
    /\ toNode' = Tail(toNode)
    /\ toClient' = Append(toClient, Answer(t, code, list))
    /\ file' = newfile /\ exists' = there
    /\ UNCHANGED <<viewVars, asked, open, copies, others, apart>>

(* GET ?pairings: the file, or 4.00 without a payload if there is none.    *)
(* The GUI parses no answer without a payload, so only a reading of some   *)
(* pairs brings its rows up to date.                                       *)
NodeReads ==
    /\ toNode # <<>> /\ asked[Head(toNode)].req = "pairings"
    /\ Handle(Head(toNode), IF exists THEN "2.05" ELSE "4.00", file, file, exists)
    /\ IF file # <<>> THEN rival' = FALSE /\ removals' = 0
                      ELSE UNCHANGED <<rival, removals>>

(* PUT ?pairRemoveAll.                                                     *)
NodeRemovesAll ==
    /\ toNode # <<>> /\ asked[Head(toNode)].req = "removeAll"
    /\ Handle(Head(toNode), IF exists THEN "2.04" ELSE "4.00", <<>>, <<>>, FALSE)
    /\ removals' = removals + 1 /\ UNCHANGED rival

(* PUT ?pairRemoveIndex.                                                   *)
NodeRemoves ==
    /\ toNode # <<>> /\ asked[Head(toNode)].req = "removeIndex"
    /\ LET ids == asked[Head(toNode)].ids
           code == IF ~exists THEN "2.05" ELSE IF file = <<>> THEN "3.04" ELSE "2.04"
       IN Handle(Head(toNode), code, <<>>, Kept(file, ids), exists)
    /\ removals' = removals + 1 /\ UNCHANGED rival

(* Another client's join: store_SensorPair appends the pair, unless the    *)
(* device has it.                                                          *)
Joined(p) ==
    /\ others < MaxOthers /\ ~Contains(file, p)
    /\ file' = Append(file, p) /\ exists' = TRUE
    /\ others' = others + 1 /\ rival' = TRUE
    /\ UNCHANGED <<viewVars, requestVars, removals, apart>>

(* Another client's pairRemoveAll.                                         *)
Emptied ==
    /\ others < MaxOthers /\ exists
    /\ file' = <<>> /\ exists' = FALSE
    /\ others' = others + 1 /\ rival' = TRUE
    /\ UNCHANGED <<viewVars, requestVars, removals, apart>>

-----------------------------------------------------------------------------

(* pairlist::clear and append, for every pair of the list.                 *)
RowsOf(list) ==
    [i \in DOMAIN list |-> [dst |-> list[i], id |-> i - 1, selected |-> 0]]

(* removePairingsAck: for every id of the last command the first row that  *)
(* has it.                                                                 *)
FirstWithout(seq, id) ==
    IF \E i \in DOMAIN seq : seq[i].id = id
    THEN RemoveAt(seq, CHOOSE i \in DOMAIN seq :
                           seq[i].id = id /\ \A j \in 1..(i - 1) : seq[j].id # id)
    ELSE seq
Place(seq, id) ==      \* slip: the id is taken as the place of the row
    IF id + 1 \in DOMAIN seq THEN RemoveAt(seq, id + 1) ELSE seq
AckedByPlace == FoldLeft(Place, rows, lastcmd)
Acked ==
    LET left[n \in 0..Len(lastcmd)] ==
            IF n = 0 THEN rows ELSE FirstWithout(left[n - 1], lastcmd[n])
    IN left[Len(lastcmd)]

(* The answer of an open request: parseAppOctetFormat if there is a list   *)
(* to parse, then handleReturnCode, then removePDU.                        *)
NewRows(req, code, list) ==
    CASE req = "pairings" -> IF list # <<>> THEN RowsOf(list) ELSE rows
      [] req = "removeAll" -> IF code = "2.04" THEN <<>> ELSE rows
      [] req = "removeIndex" -> Acked
parseData ==
    /\ toClient # <<>>
    /\ LET a == Head(toClient)
       IN IF a.token \in open
          THEN /\ rows' = NewRows(asked[a.token].req, a.code, a.list)
               /\ open' = open \ {a.token}
          ELSE UNCHANGED <<rows, open>>
    /\ toClient' = Tail(toClient)
    /\ apart' = IF /\ asked[Head(toClient).token].req = "pairings"
                   /\ Head(toClient).token \in open
                   /\ Head(toClient).list # <<>>
                   /\ open = {Head(toClient).token}
                   /\ toNode = <<>> /\ Len(toClient) = 1
                THEN FALSE
                ELSE apart
    /\ UNCHANGED <<nodeVars, lastcmd, asked, copies, toNode, others, rival, removals>>

(* wsn::timeout: sent again, or given up.                                  *)
Resend(t) ==
    /\ copies[t] < MaxCopies
    /\ copies' = [copies EXCEPT ![t] = @ + 1]
    /\ toNode' = Append(toNode, t)
    /\ apart' = TRUE
    /\ UNCHANGED <<nodeVars, viewVars, asked, open, toClient, others, rival, removals>>
GiveUp(t) ==
    /\ copies[t] = MaxCopies
    /\ open' = open \ {t}
    /\ apart' = TRUE
    /\ UNCHANGED <<nodeVars, viewVars, asked, copies, toNode, toClient, others, rival, removals>>

RequestLost ==
    /\ toNode # <<>> /\ toNode' = Tail(toNode)
    /\ UNCHANGED <<nodeVars, viewVars, asked, open, copies, toClient, pastVars>>
AnswerLost ==
    /\ toClient # <<>> /\ toClient' = Tail(toClient)
    /\ UNCHANGED <<nodeVars, viewVars, asked, open, copies, toNode, pastVars>>

Next ==
    \/ getpairingslist \/ clearpairingslist \/ removePairings
    \/ \E r \in DOMAIN rows : setSelected(r)
    \/ NodeReads \/ NodeRemovesAll \/ NodeRemoves
    \/ \E p \in Pairs : Joined(p)
    \/ Emptied
    \/ parseData
    \/ \E t \in open : Resend(t) \/ GiveUp(t)
    \/ RequestLost \/ AnswerLost

Spec == Init /\ [][Next]_viewFileVars

-----------------------------------------------------------------------------

Shown == [i \in DOMAIN rows |-> rows[i].dst]

(* Once nothing is under way the list shows the node's file, provided that *)
(* since the list was read nobody else added a pair, no request overlapped *)
(* another or was repeated, and at most one removal was made.              *)
ViewFollowsFile ==
    (Quiet /\ rows # <<>> /\ ~rival /\ ~apart /\ removals <= 1) => Shown = file

(* The same whatever the number of removals.  It does not hold: a second   *)
(* removal names its rows by places they no longer have in the file.       *)
ViewFollowsRemovals ==
    (Quiet /\ rows # <<>> /\ ~rival /\ ~apart) => Shown = file
=============================================================================
