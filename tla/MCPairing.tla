------------------------------ MODULE MCPairing ------------------------------
(***************************************************************************)
(* Finite instances of Pairing.                                            *)
(***************************************************************************)
EXTENDS Pairing

CONSTANTS n1, n2, u1, u2

(* Two sensors of one node, with opposite actions. *)
TwoUrls == {[dst |-> n1, url |-> u1, action |-> "setOn"],
            [dst |-> n1, url |-> u2, action |-> "setOff"]}

(* The sensors of one URL on two nodes. *)
TwoNodes == {[dst |-> n, url |-> u1, action |-> "setOn"] : n \in {n1, n2}}
=============================================================================
