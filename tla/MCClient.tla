------------------------------ MODULE MCClient ------------------------------
(***************************************************************************)
(* A finite instance of Client.  Bytes have two bits: a fixnum holds       *)
(* -2..1, a u8 up to 3, a u16 up to 15.  The options have numbers below    *)
(* and above those of a URI, and values with and without an extra byte for *)
(* their length.  Of the two nodes k is in the table of nodes, n is not.   *)
(***************************************************************************)
EXTENDS Client

MinusTwo == -2
TwoBits == {1, 2, 3, 4, 15, 16, -1, -2, -3, -8, -9}

(* Paths of one segment and of two.                                        *)
ThreeUris == {[path |-> <<2, 13>>, query |-> <<4>>], [path |-> <<1>>, query |-> <<>>],
              [path |-> <<2>>, query |-> <<1>>]}

ThreePairs == <<"p1", "p2", "p3">>

OneKnown == <<"k">>
PublishedLinks == [k |-> <<"relay", "su/nodeinfo", "led">>, n |-> <<"relay">>]
TwoDestinations == {[addr |-> "k", uri |-> "button"], [addr |-> "n", uri |-> "relay"]}

(* URLs just below and at the limit of either reader, two that are equal,  *)
(* with and without actions; a file of several blocks, some of them full.  *)
Url(c, n) == [i \in 1..n |-> IF i = 1 THEN c ELSE 47]
To(word, url, events, action) ==
    [addr |-> [i \in 1..8 |-> IF i = 1 THEN word ELSE i], url |-> url,
     actions |-> [e \in events |-> action]]
PairsAtLimits ==
    {To(1, Url(97, 39), {"above"}, 1), To(65535, Url(97, 39), {"below", "change"}, 2),
     To(2, Url(99, 40), {}, 0), To(3, Url(100, 99), {"above", "change"}, 3),
     To(4, Url(101, 100), {"change"}, 0)}
SourceUrl == Url(115, 8)
=============================================================================
