-------------------------------- MODULE MCNode --------------------------------
(***************************************************************************)
(* A finite instance of Node.  The interrupt of the pulse counter comes    *)
(* every 5 pulses; a step of 3 values and counts of 32 bring the wraps     *)
(* within reach.                                                           *)
(***************************************************************************)
EXTENDS Node, TLC

(* A relay that sets a relay and a LED, and the second relay, which        *)
(* toggles another LED and reports changes only.                           *)
Levels == [above |-> "setOn", below |-> "setOff", change |-> "none"]
Toggles == [above |-> "none", below |-> "none", change |-> "setToggle"]
All == [above |-> "setOn", below |-> "setOff", change |-> "setToggle"]
Pair(s, d, t) == [src |-> s, dst |-> d, trig |-> t]
ThreeLinks ==
    {Pair("r1", "r2", Levels), Pair("r2", "l1", Toggles), Pair("r1", "l2", All)}
AllThenChanges == "r1" :> {"above", "below", "change"} @@ "r2" :> {"change"}

(* A message that needs no escape, one that holds the second byte of an    *)
(* escape, and one that holds ESC and END.                                 *)
ThreeMessages == {[seqno |-> 1, cmd |-> 1, payload |-> <<2>>],
                  [seqno |-> 2, cmd |-> 2, payload |-> <<5, 220>>],
                  [seqno |-> 255, cmd |-> 5, payload |-> <<219, 192>>]}

(* Strings of one and of two cells, and empty ones.                        *)
ShortStrings == [unit : {0, 2}, spec : {1}, type : {2, 3}, group : {1, 2}, attr : {0, 2}]
=============================================================================
