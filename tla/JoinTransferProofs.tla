-------------------------- MODULE JoinTransferProofs --------------------------
(***************************************************************************)
(* Theorems about the block-wise transfer of joins.                        *)
(***************************************************************************)
EXTENDS JoinTransfer, SequenceTheorems, WellFoundedInduction, TLAPS

-----------------------------------------------------------------------------
(* Induction over the natural numbers in first-order form: the predicate   *)
(* to be proved is a set.  It follows from the least element of a set of   *)
(* numbers, and that from the library's theorem on well-founded orders.    *)

(* A non-empty set of natural numbers has a least element. *)
LEMMA LeastNumber ==
    ASSUME NEW T \in SUBSET Nat, T # {}
    PROVE  \E x \in T : \A y \in T : x <= y
<1>1. IsWellFoundedOn(OpToRel(<, Nat), Nat)
    BY NatLessThanWellFounded
<1>2. PICK x \in T : \A y \in T : <<y, x>> \notin OpToRel(<, Nat)
    BY <1>1, WFMin
<1>3. \A y \in T : ~(y < x)
    BY <1>2 DEF OpToRel
<1> QED
    BY <1>3

(* A set of natural numbers with an upper bound has a greatest element. *)
LEMMA GreatestNumber ==
    ASSUME NEW T \in SUBSET Nat, T # {}, NEW k \in Nat, \A x \in T : x <= k
    PROVE  \E x \in T : \A y \in T : y <= x
<1> DEFINE D == {d \in Nat : k - d \in T}
<1>1. PICK x \in T : TRUE
    OBVIOUS
<1>2. k - x \in D
    BY <1>1
<1>3. PICK d \in D : \A e \in D : d <= e
    BY <1>2, LeastNumber
<1>4. ASSUME NEW y \in T PROVE y <= k - d
  <2>1. k - y \in D
      OBVIOUS
  <2> QED
      BY <2>1, <1>3
<1> QED
    BY <1>3, <1>4

(* A set with 0 and the successor of each of its numbers has them all. *)
LEMMA NumbersInduction ==
    ASSUME NEW T, 0 \in T, \A n \in T \cap Nat : n + 1 \in T
    PROVE  Nat \subseteq T
<1> SUFFICES ASSUME NEW m \in Nat, m \notin T
             PROVE  FALSE
    OBVIOUS
<1>1. PICK x \in Nat \ T : \A y \in Nat \ T : x <= y
    BY LeastNumber, Nat \ T \in SUBSET Nat, m \in Nat \ T
<1>2. x - 1 \in Nat /\ ~(x <= x - 1) /\ (x - 1) + 1 = x
    BY <1>1
<1>3. x - 1 \in T
    BY <1>1, <1>2
<1> QED
    BY <1>1, <1>2, <1>3

-----------------------------------------------------------------------------
(* The sequence without some elements. *)

(* rest of the definition of Without, of the first m elements. *)
IsRest(f, s, X, m) ==
    f = [n \in 0..m |->
            IF n = 0 THEN <<>>
            ELSE IF s[n] \in X THEN f[n - 1] ELSE Append(f[n - 1], s[n])]

(* What is claimed of the sequence of the first m elements. *)
Elems(t, k) == {t[i] : i \in 1..k}
RestOf(t, s, X, T, m) ==
    /\ t \in Seq(T)
    /\ Len(t) <= m
    /\ Elems(t, Len(t)) = Elems(s, m) \ X

LEMMA RestExists ==
    ASSUME NEW s, NEW X, NEW k \in Nat
    PROVE  \E f : IsRest(f, s, X, k)
<1> DEFINE Ok == {m \in Nat : \E f : IsRest(f, s, X, m)}
<1>1. 0 \in Ok
  <2>1. IsRest([n \in 0..0 |-> <<>>], s, X, 0)
      BY DEF IsRest
  <2> QED
      BY <2>1
<1>2. ASSUME NEW m \in Ok \cap Nat PROVE m + 1 \in Ok
  <2>1. PICK f : IsRest(f, s, X, m)
      OBVIOUS
  <2> DEFINE g == [n \in 0..m + 1 |->
                IF n = 0 THEN <<>>
                ELSE IF s[n] \in X THEN f[n - 1] ELSE Append(f[n - 1], s[n])]
  <2>2. \A n \in 0..m : g[n] = f[n]
    <3>1. \A n \in 0..m : f[n] = IF n = 0 THEN <<>>
                ELSE IF s[n] \in X THEN f[n - 1] ELSE Append(f[n - 1], s[n])
        BY <2>1 DEF IsRest
    <3>2. \A n \in 0..m : n \in 0..m + 1
        OBVIOUS
    <3> QED
        BY <3>1, <3>2
  <2>3. \A n \in 0..m + 1 : n # 0 => n - 1 \in 0..m
      OBVIOUS
  <2> DEFINE h == [n \in 0..m + 1 |->
                IF n = 0 THEN <<>>
                ELSE IF s[n] \in X THEN g[n - 1] ELSE Append(g[n - 1], s[n])]
  <2>4. IsRest(g, s, X, m + 1)
    <3>1. \A n \in 0..m + 1 : n # 0 => g[n - 1] = f[n - 1]
        BY <2>2, <2>3
    <3> HIDE DEF g
    <3>2. h = [n \in 0..m + 1 |->
                IF n = 0 THEN <<>>
                ELSE IF s[n] \in X THEN f[n - 1] ELSE Append(f[n - 1], s[n])]
        BY <3>1
    <3>3. g = h
        BY <3>2 DEF g
    <3> HIDE DEF h
    <3> QED
        BY <3>3 DEF IsRest, h
  <2> QED
      BY <2>4
<1>3. k \in Ok
  <2> HIDE DEF Ok
  <2> QED
      BY <1>1, <1>2, NumbersInduction
<1> QED
    BY <1>3

(* It is a sequence of the same elements but those taken out, and not      *)
(* longer than the one they are taken from.                                *)
LEMMA WithoutProperties ==
    ASSUME NEW T, NEW s \in Seq(T), NEW X
    PROVE  /\ Without(s, X) \in Seq(T)
           /\ Range(Without(s, X)) = Range(s) \ X
           /\ Len(Without(s, X)) <= Len(s)
<1> DEFINE rest == CHOOSE f : IsRest(f, s, X, Len(s))
           Ok == {m \in Nat : m <= Len(s) => RestOf(rest[m], s, X, T, m)}
<1>0. Len(s) \in Nat
    OBVIOUS
<1>1. IsRest(rest, s, X, Len(s))
    BY <1>0, RestExists
<1>2. Without(s, X) = rest[Len(s)]
    BY DEF Without, IsRest
<1> HIDE DEF rest
<1>3. \A n \in 0..Len(s) :
            rest[n] = IF n = 0 THEN <<>>
                      ELSE IF s[n] \in X THEN rest[n - 1] ELSE Append(rest[n - 1], s[n])
    BY <1>0, <1>1 DEF IsRest
<1>4. 0 \in Ok
  <2>1. rest[0] = <<>>
      BY <1>0, <1>3
  <2>2. RestOf(<<>>, s, X, T, 0)
      BY DEF RestOf, Elems
  <2> QED
      BY <2>1, <2>2
<1>5. ASSUME NEW m \in Ok \cap Nat PROVE m + 1 \in Ok
  <2> SUFFICES ASSUME m + 1 <= Len(s) PROVE RestOf(rest[m + 1], s, X, T, m + 1)
      OBVIOUS
  <2>1. m + 1 \in 1..Len(s) /\ m + 1 \in 0..Len(s) /\ m + 1 # 0 /\ (m + 1) - 1 = m
      BY <1>0
  <2>2. s[m + 1] \in T
      BY <2>1
  <2>3. Elems(s, m + 1) = Elems(s, m) \cup {s[m + 1]}
    <3>1. 1..m + 1 = 1..m \cup {m + 1}
        OBVIOUS
    <3> QED
        BY <3>1 DEF Elems
  <2>4. RestOf(rest[m], s, X, T, m)
      BY <2>1
  <2>5. rest[m + 1] = IF s[m + 1] \in X THEN rest[m] ELSE Append(rest[m], s[m + 1])
      BY <2>1, <1>3
  <2>6. CASE s[m + 1] \in X
    <3>1. Elems(s, m + 1) \ X = Elems(s, m) \ X
        BY <2>3, <2>6
    <3>2. Len(rest[m]) \in Nat
        BY <2>4, LenProperties DEF RestOf
    <3> QED
        BY <3>1, <3>2, <2>4, <2>5, <2>6 DEF RestOf
  <2>7. CASE s[m + 1] \notin X
    <3>1. rest[m] \in Seq(T) /\ Len(rest[m]) \in Nat
        BY <2>4, LenProperties DEF RestOf
    <3>2. /\ rest[m + 1] \in Seq(T)
          /\ Len(rest[m + 1]) = Len(rest[m]) + 1
          /\ \A i \in 1..Len(rest[m]) : rest[m + 1][i] = rest[m][i]
          /\ rest[m + 1][Len(rest[m]) + 1] = s[m + 1]
        BY <3>1, <2>2, <2>5, <2>7, AppendProperties
    <3>3. 1..Len(rest[m + 1]) = 1..Len(rest[m]) \cup {Len(rest[m]) + 1}
        BY <3>1, <3>2
    <3>4. Elems(rest[m + 1], Len(rest[m + 1])) = Elems(rest[m], Len(rest[m])) \cup {s[m + 1]}
        BY <3>2, <3>3 DEF Elems
    <3>5. Elems(s, m + 1) \ X = (Elems(s, m) \ X) \cup {s[m + 1]}
        BY <2>3, <2>7
    <3> QED
        BY <3>1, <3>2, <3>4, <3>5, <2>4 DEF RestOf
  <2> QED
      BY <2>6, <2>7
<1>6. Len(s) \in Ok
  <2> HIDE DEF Ok
  <2> QED
      BY <1>0, <1>4, <1>5, NumbersInduction
<1>7. RestOf(rest[Len(s)], s, X, T, Len(s))
    BY <1>0, <1>6
<1>8. \A t \in Seq(T) : Range(t) = Elems(t, Len(t))
    BY LenProperties DEF Range, Elems
<1>9. Range(rest[Len(s)]) = Range(s) \ X
    BY <1>7, <1>8 DEF RestOf, Elems
<1> QED
    BY <1>2, <1>7, <1>9 DEF RestOf

-----------------------------------------------------------------------------
(* Values. *)

LEMMA RequestType ==
    ASSUME NEW j \in Joins, NEW num \in Nat, NEW block \in 1..Length
    PROVE  Request(j, num, block) \in Requests
    BY SizesAssumption DEF Request, Requests

(* What the timer is set to is a number of ticks, and it is set while      *)
(* there is a message to time.                                             *)
LEMMA TimerAfterType ==
    ASSUME NEW kept \in Seq(Joins), NEW again,
           txtime \in [Joins -> Nat],
           \A j \in Range(kept) \ again : txtime[j] <= AckTimeout
    PROVE  /\ TimerAfter(kept, again) \in 0..AckTimeout \cup {Off}
           /\ kept # <<>> => TimerAfter(kept, again) # Off
<1> DEFINE waits == {txtime[j] : j \in Range(kept) \ again} \cup {1}
<1>1. Range(kept) \subseteq Joins
    BY LenProperties DEF Range
<1>2. waits \in SUBSET Nat /\ waits # {} /\ \A w \in waits : w <= AckTimeout
    BY <1>1, SizesAssumption
<1>3. \E w \in waits : \A v \in waits : v <= w
    BY <1>2, SizesAssumption, GreatestNumber
<1> DEFINE longest == CHOOSE w \in waits : \A v \in waits : v <= w
<1>4. longest \in waits
  <2> HIDE DEF waits
  <2> QED
      BY <1>3
<1>5. TimerAfter(kept, again) = IF kept = <<>> THEN Off
                                ELSE IF Head(kept) \in again THEN AckTimeout ELSE longest
    BY DEF TimerAfter
<1> HIDE DEF longest, waits
<1>6. longest \in 0..AckTimeout
    BY <1>2, <1>4, SizesAssumption
<1> QED
    BY <1>5, <1>6, SizesAssumption DEF Off

LEMMA ArrayIsSeq ==
    \A S : \A n \in Nat : \A f \in [1..n -> S] : f \in Seq(S) /\ Len(f) = n
    OBVIOUS

(* The messages of a queue stay what they are when they age. *)
LEMMA OlderRequest ==
    ASSUME NEW r \in Requests, r.age < MaxDelay
    PROVE  [r EXCEPT !.age = @ + 1] \in Requests
<1>1. r.age + 1 \in 0..MaxDelay
    BY SizesAssumption DEF Requests
<1> QED
    BY <1>1 DEF Requests

LEMMA OlderAnswer ==
    ASSUME NEW a \in Answers, a.age < MaxDelay
    PROVE  [a EXCEPT !.age = @ + 1] \in Answers
<1>1. a.age + 1 \in 0..MaxDelay
    BY SizesAssumption DEF Answers
<1> QED
    BY <1>1 DEF Answers

LEMMA AgedType ==
    ASSUME toNode \in Seq(Requests), toClient \in Seq(Answers),
           InTime(toNode), InTime(toClient)
    PROVE  Aged(toNode) \in Seq(Requests) /\ Aged(toClient) \in Seq(Answers)
<1>1. ASSUME NEW i \in 1..Len(toNode)
      PROVE  [toNode[i] EXCEPT !.age = @ + 1] \in Requests
    BY OlderRequest DEF InTime
<1>2. ASSUME NEW i \in 1..Len(toClient)
      PROVE  [toClient[i] EXCEPT !.age = @ + 1] \in Answers
    BY OlderAnswer DEF InTime
<1>3. Len(toNode) \in Nat /\ Len(toClient) \in Nat
    BY LenProperties
<1>4. /\ Aged(toNode) \in [1..Len(toNode) -> Requests]
      /\ Aged(toClient) \in [1..Len(toClient) -> Answers]
    BY <1>1, <1>2 DEF Aged
<1> QED
    BY <1>3, <1>4, ArrayIsSeq

(* Joining and cutting queues. *)
LEMMA QueueTypes ==
    ASSUME NEW S, NEW q \in Seq(S)
    PROVE  /\ \A x \in S : Append(q, x) \in Seq(S) /\ Len(Append(q, x)) = Len(q) + 1
           /\ \A p \in Seq(S) : q \o p \in Seq(S)
           /\ q # <<>> => Head(q) \in S /\ Tail(q) \in Seq(S)
    BY AppendProperties, ConcatProperties, HeadTailProperties

-----------------------------------------------------------------------------
(* Type correctness and the timer. *)

LEMMA InitTypes == Init => TypeOK
<1> SUFFICES ASSUME Init PROVE TypeOK
    OBVIOUS
<1>1. lastPDU \in [Joins -> Requests]
  <2>1. 1 \in 1..Length
      BY SizesAssumption
  <2>2. \A j \in Joins : Request(j, 0, 1) \in Requests
      BY <2>1, RequestType
  <2> QED
      BY <2>2 DEF Init
<1>2. /\ activePDUs \in Seq(Joins) /\ toNode \in Seq(Requests)
      /\ toClient \in Seq(Answers) /\ buffer \in Seq(Elements)
      /\ Len(buffer) = 0 /\ 0 <= BufferBlocks
    BY EmptySeq, SizesAssumption DEF Init
<1>3. /\ state \in [Joins -> {"new", "open", "done", "failed"}]
      /\ retranscount \in [Joins -> 0..Retransmissions]
      /\ txtime \in [Joins -> 0..AckTimeout + 1]
    BY SizesAssumption DEF Init
<1>4. /\ acktimer \in 0..AckTimeout \cup {Off} /\ parse \in {"none", "as sent", "garbled"}
      /\ joined \subseteq Joins /\ disturbed \in BOOLEAN
    BY DEF Init
<1> QED
    BY <1>1, <1>2, <1>3, <1>4 DEF TypeOK

LEMMA SendTypes ==
    ASSUME TypeOK, NEW j \in Joins, Send(j)
    PROVE  TypeOK' /\ TimerRuns'
<1>1. Request(j, 0, 1) \in Requests
    BY RequestType, SizesAssumption
<1>2. toNode' \in Seq(Requests) /\ activePDUs' \in Seq(Joins)
  <2>1. toNode \in Seq(Requests) /\ activePDUs \in Seq(Joins)
      BY DEF TypeOK
  <2> QED
      BY <1>1, <2>1, QueueTypes DEF Send
<1>3. acktimer' \in 0..AckTimeout /\ acktimer' # Off
  <2>1. acktimer \in 0..AckTimeout \cup {Off}
      BY DEF TypeOK
  <2> QED
      BY <2>1, SizesAssumption DEF Send, Off
<1>4. /\ state' \in [Joins -> {"new", "open", "done", "failed"}]
      /\ txtime' \in [Joins -> 0..AckTimeout + 1]
  <2>1. state \in [Joins -> {"new", "open", "done", "failed"}]
        /\ txtime \in [Joins -> 0..AckTimeout + 1]
      BY DEF TypeOK
  <2> QED
      BY <2>1, SizesAssumption DEF Send
<1>5. disturbed' \in BOOLEAN /\ parse' = "none"
    BY DEF Send
<1>6. UNCHANGED <<lastPDU, retranscount, toClient, buffer, joined>>
    BY DEF Send
<1> QED
    BY <1>2, <1>3, <1>4, <1>5, <1>6 DEF TypeOK, TimerRuns

LEMMA TimeoutTypes ==
    ASSUME TypeOK, Timeout
    PROVE  TypeOK' /\ TimerRuns'
<1> PICK expired \in SUBSET Range(activePDUs) :
          LET again   == {j \in expired : ~GivenUp(j)}
              gone    == expired \ again
              waiting == Range(activePDUs) \ expired
              kept    == Without(activePDUs, gone)
              resent  == Without(kept, waiting)
          IN /\ \A j \in waiting : ~MustExpire(j)
             /\ toNode' = toNode \o [i \in 1..Len(resent) |-> lastPDU[resent[i]]]
             /\ retranscount' = [j \in Joins |-> IF j \in again THEN retranscount[j] + 1
                                                              ELSE retranscount[j]]
             /\ txtime' = [j \in Joins |-> IF j \in again THEN 0 ELSE txtime[j]]
             /\ acktimer' = TimerAfter(kept, again)
             /\ activePDUs' = kept
             /\ state' = [j \in Joins |-> IF j \in gone THEN "failed" ELSE state[j]]
             /\ disturbed' = (disturbed \/ again \cap InFlight # {})
    BY DEF Timeout
<1> DEFINE again   == {j \in expired : ~GivenUp(j)}
           gone    == expired \ again
           waiting == Range(activePDUs) \ expired
           kept    == Without(activePDUs, gone)
           resent  == Without(kept, waiting)
<1>0. /\ activePDUs \in Seq(Joins) /\ toNode \in Seq(Requests)
      /\ txtime \in [Joins -> 0..AckTimeout + 1]
      /\ retranscount \in [Joins -> 0..Retransmissions]
      /\ lastPDU \in [Joins -> Requests]
      /\ state \in [Joins -> {"new", "open", "done", "failed"}]
    BY DEF TypeOK
<1>1. Range(activePDUs) \subseteq Joins
    BY <1>0, LenProperties DEF Range
<1>2. kept \in Seq(Joins) /\ Range(kept) = Range(activePDUs) \ gone
    BY <1>0, WithoutProperties
<1>3. resent \in Seq(Joins)
    BY <1>2, WithoutProperties
<1>4. [i \in 1..Len(resent) |-> lastPDU[resent[i]]] \in Seq(Requests)
  <2> HIDE DEF resent
  <2>1. \A i \in 1..Len(resent) : lastPDU[resent[i]] \in Requests
      BY <1>0, <1>3, ElementOfSeq
  <2> QED
      BY <2>1, <1>3, ArrayIsSeq, LenProperties
<1>5. toNode' \in Seq(Requests)
  <2> DEFINE copies == [i \in 1..Len(resent) |-> lastPDU[resent[i]]]
  <2>1. toNode' = toNode \o copies
      OBVIOUS
  <2>2. copies \in Seq(Requests)
      BY <1>4
  <2> HIDE DEF copies
  <2>3. toNode \o copies \in Seq(Requests)
      BY ONLY <1>0, <2>2, ConcatProperties
  <2> QED
      BY ONLY <2>1, <2>3
<1>6. /\ acktimer' \in 0..AckTimeout \cup {Off}
      /\ kept # <<>> => acktimer' # Off
  <2>1. Range(kept) \ again \subseteq waiting
      BY <1>2
  <2>2. \A j \in waiting : txtime[j] <= AckTimeout
      BY <1>0, <1>1, SizesAssumption DEF MustExpire
  <2>3. txtime \in [Joins -> Nat]
      BY <1>0, SizesAssumption
  <2> HIDE DEF again, kept, waiting
  <2>4. \A j \in Range(kept) \ again : txtime[j] <= AckTimeout
      BY <2>1, <2>2
  <2>5. acktimer' = TimerAfter(kept, again)
      BY DEF again, kept
  <2> QED
      BY <1>2, <2>3, <2>4, <2>5, TimerAfterType
<1>7. again \subseteq Joins /\ \A j \in again : retranscount[j] + 1 \in 0..Retransmissions
    BY <1>0, <1>1, SizesAssumption DEF GivenUp
<1>8. retranscount' \in [Joins -> 0..Retransmissions]
  <2> HIDE DEF again
  <2>1. retranscount' = [j \in Joins |-> IF j \in again THEN retranscount[j] + 1
                                                      ELSE retranscount[j]]
      BY DEF again
  <2> QED
      BY <1>0, <1>7, <2>1
<1>9. txtime' \in [Joins -> 0..AckTimeout + 1]
    BY <1>0, SizesAssumption
<1>10. state' \in [Joins -> {"new", "open", "done", "failed"}]
    BY <1>0
<1>11. activePDUs' = kept /\ disturbed' \in BOOLEAN
    BY DEF TypeOK
<1>12. UNCHANGED <<lastPDU, toClient, nodeVars>>
    BY DEF Timeout
<1> HIDE DEF kept
<1> QED
    BY <1>2, <1>5, <1>6, <1>8, <1>9, <1>10, <1>11, <1>12
    DEF TypeOK, TimerRuns, nodeVars

LEMMA AnswerArrivesTypes ==
    ASSUME TypeOK, TimerRuns, AnswerArrives
    PROVE  TypeOK' /\ TimerRuns'
<1> DEFINE a    == Head(toClient)
           sent == lastPDU[a.join].block
           next == Request(a.join, a.num + 1, sent + 1)
<1>0. /\ toClient \in Seq(Answers) /\ lastPDU \in [Joins -> Requests]
      /\ activePDUs \in Seq(Joins)
    BY DEF TypeOK
<1>1. a \in Answers /\ toClient' \in Seq(Answers)
    BY <1>0, QueueTypes DEF AnswerArrives
<1>2. a.join \in Joins /\ a.num + 1 \in Nat /\ sent \in 1..Length
  <2>1. a.join \in Joins /\ a.num \in Nat
      BY <1>1 DEF Answers
  <2>2. lastPDU[a.join] \in Requests
      BY <1>0, <2>1
  <2> QED
      BY <2>1, <2>2 DEF Requests
<1>3. sent < Length => next \in Requests
    BY <1>2, RequestType, SizesAssumption
<1>4. UNCHANGED <<acktimer, buffer, parse, joined, disturbed>>
    BY DEF AnswerArrives, nodeVars
<1>5. CASE UNCHANGED <<clientVars, toNode>>
    BY <1>1, <1>4, <1>5 DEF TypeOK, TimerRuns, clientVars
<1>6. CASE /\ sent < Length
           /\ toNode' = Append(toNode, next)
           /\ lastPDU' = [lastPDU EXCEPT ![a.join] = next]
           /\ UNCHANGED <<activePDUs, state, retranscount, txtime>>
  <2> HIDE DEF next, sent, a
  <2>1. toNode' \in Seq(Requests)
      BY <1>3, <1>6, QueueTypes DEF TypeOK
  <2>2. lastPDU' \in [Joins -> Requests]
      BY <1>2, <1>3, <1>6 DEF TypeOK
  <2> QED
      BY <1>1, <1>4, <1>6, <2>1, <2>2 DEF TypeOK, TimerRuns
<1>7. CASE /\ activePDUs' = Without(activePDUs, {a.join})
           /\ state' = [state EXCEPT ![a.join] =
                           IF a.code \in {"2.01", "2.04"} THEN "done" ELSE "failed"]
           /\ UNCHANGED <<lastPDU, retranscount, txtime, toNode>>
  <2>1. /\ activePDUs' \in Seq(Joins)
        /\ activePDUs' # <<>> => activePDUs # <<>>
    <3>1. Len(activePDUs') <= Len(activePDUs) /\ activePDUs' \in Seq(Joins)
        BY <1>0, <1>7, WithoutProperties
    <3> QED
        BY <3>1, <1>0, EmptySeq, LenProperties
  <2>2. state' \in [Joins -> {"new", "open", "done", "failed"}]
      BY <1>2, <1>7 DEF TypeOK
  <2> QED
      BY <1>1, <1>4, <1>7, <2>1, <2>2 DEF TypeOK, TimerRuns
<1> QED
    BY <1>5, <1>6, <1>7 DEF AnswerArrives

LEMMA RequestArrivesTypes ==
    ASSUME TypeOK, TimerRuns, RequestArrives
    PROVE  TypeOK' /\ TimerRuns'
<1> DEFINE r         == Head(toNode)
           base      == Assembly(r.num)
           fits      == RoomIn(base)
           assembled == IF fits THEN Append(base, <<r.join, r.block>>) ELSE base
           parsed    == Append(assembled, Url)
           answer(code) == [join |-> r.join, num |-> r.num, age |-> 0,
                            block1 |-> fits, code |-> code]
           Fits(b) == b \in Seq(Elements) /\ Len(b) <= BufferBlocks
<1>1. r \in Requests /\ toNode' \in Seq(Requests)
    BY QueueTypes DEF RequestArrives, TypeOK
<1>2. <<r.join, r.block>> \in Elements /\ Url \in Elements
    BY <1>1 DEF Requests, Elements
<1>3. Fits(base)
  <2>1. buffer \in Seq(Elements) /\ Len(buffer) <= BufferBlocks
      BY DEF TypeOK
  <2> QED
      BY <2>1, EmptySeq, SizesAssumption DEF Assembly
<1>4. Fits(assembled)
  <2> HIDE DEF base, r
  <2>1. CASE fits
    <3>1. Append(base, <<r.join, r.block>>) \in Seq(Elements)
          /\ Len(Append(base, <<r.join, r.block>>)) = Len(base) + 1
        BY <1>2, <1>3, QueueTypes
    <3>2. Len(base) \in Nat /\ Len(base) < BufferBlocks
        BY <2>1, <1>3, LenProperties DEF RoomIn
    <3> QED
        BY <2>1, <3>1, <3>2, SizesAssumption
  <2> QED
      BY <2>1, <1>3
<1>5. RoomIn(assembled) => Fits(parsed)
  <2> HIDE DEF assembled
  <2>1. parsed \in Seq(Elements) /\ Len(parsed) = Len(assembled) + 1
      BY <1>2, <1>4, QueueTypes
  <2>2. Len(assembled) \in Nat
      BY <1>4, LenProperties
  <2> QED
      BY <2>1, <2>2, SizesAssumption DEF RoomIn
<1>6. ASSUME NEW code \in Codes, toClient' = Append(toClient, answer(code))
      PROVE  toClient' \in Seq(Answers)
  <2>1. answer(code) \in Answers
      BY <1>1, SizesAssumption DEF Answers, Requests, RoomIn
  <2> HIDE DEF answer
  <2> QED
      BY <1>6, <2>1, QueueTypes DEF TypeOK
<1>7. \A b : Found(b) \subseteq Joins
    BY DEF Found
<1>8. UNCHANGED <<activePDUs, state, lastPDU, retranscount, txtime, acktimer, disturbed>>
    BY DEF RequestArrives, clientVars
<1>9. toClient' \in Seq(Answers)
  <2>1. \E code \in Codes : toClient' = Append(toClient, answer(code))
      BY DEF RequestArrives, Codes
  <2> HIDE DEF answer
  <2> QED
      BY <1>6, <2>1
<1>10. Fits(buffer') /\ parse' \in {"none", "as sent", "garbled"} /\ joined' \subseteq Joins
  <2>1. \/ buffer' = assembled /\ UNCHANGED <<parse, joined>>
        \/ /\ RoomIn(assembled) /\ buffer' = parsed
           /\ \/ joined' = joined \cup {r.join} /\ parse' = "as sent"
              \/ joined' = joined \cup Found(parsed) /\ parse' = "garbled"
      BY DEF RequestArrives
  <2>2. r.join \in Joins /\ joined \subseteq Joins /\ parse \in {"none", "as sent", "garbled"}
      BY <1>1 DEF TypeOK, Requests
  <2> HIDE DEF r, assembled, parsed
  <2> QED
      BY <1>4, <1>5, <1>7, <2>1, <2>2
<1> QED
    BY <1>1, <1>8, <1>9, <1>10 DEF TypeOK, TimerRuns

LEMMA NetworkTypes ==
    ASSUME TypeOK, TimerRuns,
           Tick \/ RequestLost \/ AnswerLost \/ PairRemoveIndex \/ UNCHANGED vars
    PROVE  TypeOK' /\ TimerRuns'
<1>1. CASE Tick
  <2>1. toNode' \in Seq(Requests) /\ toClient' \in Seq(Answers)
      BY <1>1, AgedType DEF Tick, TypeOK
  <2>2. acktimer' \in 0..AckTimeout \cup {Off} /\ (acktimer # Off => acktimer' # Off)
    <3>1. acktimer \in 0..AckTimeout \cup {Off}
        BY DEF TypeOK
    <3>2. acktimer # 0 /\ acktimer' = IF acktimer = Off THEN Off ELSE acktimer - 1
        BY <1>1 DEF Tick
    <3> QED
        BY <3>1, <3>2, SizesAssumption DEF Off
  <2>3. txtime' \in [Joins -> 0..AckTimeout + 1]
    <3>1. txtime \in [Joins -> 0..AckTimeout + 1]
        BY DEF TypeOK
    <3>2. txtime' = [j \in Joins |-> IF Open(j) /\ txtime[j] <= AckTimeout
                                       THEN txtime[j] + 1 ELSE txtime[j]]
        BY <1>1 DEF Tick
    <3> QED
        BY <3>1, <3>2, SizesAssumption
  <2> QED
      BY <1>1, <2>1, <2>2, <2>3 DEF Tick, TypeOK, TimerRuns, nodeVars
<1>2. CASE RequestLost \/ AnswerLost
  <2>1. toNode' \in Seq(Requests) /\ toClient' \in Seq(Answers)
      BY <1>2, QueueTypes DEF RequestLost, AnswerLost, TypeOK
  <2> QED
      BY <1>2, <2>1 DEF RequestLost, AnswerLost, TypeOK, TimerRuns, clientVars, nodeVars
<1>3. CASE PairRemoveIndex
  <2>1. Junk \in Elements
      BY DEF Elements
  <2>2. /\ [i \in 1..BufferBlocks |-> Junk] \in Seq(Elements)
        /\ Len([i \in 1..BufferBlocks |-> Junk]) = BufferBlocks
      BY <2>1, ArrayIsSeq, SizesAssumption
  <2>3. buffer' \in Seq(Elements) /\ Len(buffer') <= BufferBlocks
    <3>1. \/ buffer' = <<>>
          \/ buffer' = [i \in 1..BufferBlocks |-> Junk]
        BY <1>3 DEF PairRemoveIndex
    <3>2. CASE buffer' = <<>>
        BY <3>2, SizesAssumption
    <3>3. CASE buffer' = [i \in 1..BufferBlocks |-> Junk]
        BY <3>3, <2>2, SizesAssumption
    <3> QED
        BY <3>1, <3>2, <3>3
  <2> QED
      BY <1>3, <2>3 DEF PairRemoveIndex, TypeOK, TimerRuns, clientVars, netVars
<1>4. CASE UNCHANGED vars
    BY <1>4 DEF vars, clientVars, netVars, nodeVars, TypeOK, TimerRuns
<1> QED
    BY <1>1, <1>2, <1>3, <1>4

LEMMA NextTypes == TypeOK /\ TimerRuns /\ [Next]_vars => (TypeOK /\ TimerRuns)'
    BY SendTypes, TimeoutTypes, AnswerArrivesTypes, RequestArrivesTypes, NetworkTypes
    DEF Next, System

(* TypeOK, for any number and length of joins and any size of the buffer.  *)
(* That a block that does not fit is not appended is what keeps the buffer *)
(* within its bounds.                                                      *)
THEOREM TypeCorrect == Spec => []TypeOK
<1>1. Init => TimerRuns
    BY DEF Init, TimerRuns
<1> QED
    BY <1>1, InitTypes, NextTypes, PTL DEF Spec

(* While a message is open, the timer runs.  It is the only one for all    *)
(* messages: its next run has to be found among those that are kept, which *)
(* a time-out does before it removes the ones that are given up.           *)
THEOREM TimerKept == Spec => []TimerRuns
<1>1. Init => TimerRuns
    BY DEF Init, TimerRuns
<1> QED
    BY <1>1, InitTypes, NextTypes, PTL DEF Spec

-----------------------------------------------------------------------------
(* What an undisturbed transfer looks like: at most one message is open,   *)
(* at most one block or answer of it is under way, and the buffer holds    *)
(* the blocks that were handled.                                           *)

First(j, n) == [b \in 1..n |-> <<j, b>>]
BlockOf(r, j, b) == r.join = j /\ r.num = b - 1 /\ r.block = b /\ r.more = (b < Length)
AnswerTo(a, j, b) == a.join = j /\ a.num = b - 1 /\ a.block1

HandledBefore(j, b) == b > 1 => buffer = First(j, b - 1)
Handled(j, b) == IF b < Length THEN buffer = First(j, b) ELSE j \in joined

ToNode(j, b) ==
    /\ Len(toNode) = 1 /\ toClient = <<>>
    /\ BlockOf(toNode[1], j, b) /\ HandledBefore(j, b)
ToClient(j, b) ==
    /\ Len(toClient) = 1 /\ toNode = <<>>
    /\ AnswerTo(toClient[1], j, b) /\ Handled(j, b)
Lost(j, b) == toNode = <<>> /\ toClient = <<>> /\ HandledBefore(j, b)

InTurn(j, b) ==
    /\ activePDUs = <<>> \/ (activePDUs = <<j>> /\ BlockOf(lastPDU[j], j, b))
    /\ ToNode(j, b) \/ ToClient(j, b) \/ Lost(j, b)
Idle == activePDUs = <<>> /\ toNode = <<>> /\ toClient = <<>>

NewIsFresh ==
    \A j \in Joins : state[j] = "new" =>
        BlockOf(lastPDU[j], j, 1) /\ j \notin Range(activePDUs)
TransferInv ==
    ~disturbed => /\ parse # "garbled"
                  /\ Idle \/ \E j \in Joins, b \in 1..Length : InTurn(j, b)

LEMMA OneMessage ==
    ASSUME NEW S, NEW q \in Seq(S)
    PROVE  /\ Len(q) = 1 => q # <<>> /\ Head(q) = q[1] /\ Tail(q) = <<>>
           /\ q = <<>> => \A x \in S : /\ Len(Append(q, x)) = 1
                                       /\ Append(q, x)[1] = x
<1>1. ASSUME Len(q) = 1 PROVE q # <<>> /\ Head(q) = q[1] /\ Tail(q) = <<>>
  <2>1. q # <<>>
      BY <1>1
  <2>2. Tail(q) \in Seq(S) /\ Len(Tail(q)) = 0 /\ Head(q) = q[1]
      BY <1>1, <2>1, HeadTailProperties
  <2> QED
      BY <2>1, <2>2, EmptySeq
<1>2. \A x \in S : Len(Append(<<>>, x)) = 1 /\ Append(<<>>, x)[1] = x
    BY AppendProperties, EmptySeq
<1> QED
    BY <1>1, <1>2

LEMMA NothingInFlight ==
    ASSUME TypeOK, InFlight = {}
    PROVE  toNode = <<>> /\ toClient = <<>>
<1>1. Len(toNode) \in Nat /\ Len(toClient) \in Nat
    BY LenProperties DEF TypeOK
<1>2. 1 \notin 1..Len(toNode) /\ 1 \notin 1..Len(toClient)
    BY DEF InFlight, Ids
<1>3. toNode \in Seq(Requests) /\ toClient \in Seq(Answers)
    BY DEF TypeOK
<1> QED
    BY <1>1, <1>2, <1>3, EmptySeq

(* A sequence of at most one message keeps it or not. *)
LEMMA WithoutOfOne ==
    ASSUME NEW T, NEW j \in T, NEW X
    PROVE  /\ Without(<<>>, X) = <<>>
           /\ Without(<<j>>, X) = IF j \in X THEN <<>> ELSE <<j>>
<1>1. <<>> \in Seq(T) /\ Len(<<>>) = 0 /\ <<j>> \in Seq(T) /\ Len(<<j>>) = 1
      /\ Range(<<j>>) = {j}
    BY DEF Range
<1>2. Without(<<>>, X) \in Seq(T) /\ Len(Without(<<>>, X)) <= 0
    BY <1>1, WithoutProperties
<1>3. /\ Without(<<j>>, X) \in Seq(T) /\ Len(Without(<<j>>, X)) <= 1
      /\ Range(Without(<<j>>, X)) = {j} \ X
  <2> DEFINE one == <<j>>
  <2>1. one \in Seq(T) /\ Len(one) = 1 /\ Range(one) = {j}
      BY <1>1
  <2> HIDE DEF one
  <2>2. /\ Without(one, X) \in Seq(T) /\ Len(Without(one, X)) <= Len(one)
        /\ Range(Without(one, X)) = Range(one) \ X
      BY <2>1, WithoutProperties
  <2> QED
      BY <2>1, <2>2 DEF one
<1>4. ASSUME NEW t \in Seq(T), Len(t) <= 1, Range(t) = {j} \ X
      PROVE  t = IF j \in X THEN <<>> ELSE <<j>>
  <2>1. Len(t) \in {0, 1} /\ DOMAIN t = 1..Len(t)
    <3>1. Len(t) \in Nat /\ DOMAIN t = 1..Len(t)
        BY LenProperties
    <3> QED
        BY <3>1, <1>4
  <2>2. CASE Len(t) = 0
    <3>1. t = <<>> /\ Range(t) = {}
        BY <2>2, EmptySeq DEF Range
    <3> QED
        BY <3>1, <1>4
  <2>3. CASE Len(t) = 1
    <3>1. t = <<t[1]>> /\ t[1] \in Range(t)
        BY <2>1, <2>3 DEF Range
    <3> QED
        BY <3>1, <1>4
  <2> QED
      BY <2>1, <2>2, <2>3
<1>5. Without(<<>>, X) = <<>>
    BY <1>2, EmptySeq, LenProperties
<1> QED
    BY <1>3, <1>4, <1>5

-----------------------------------------------------------------------------
(* A join that was not sent yet starts with its first block. *)

LEMMA OpenIsActive == \A j : Open(j) <=> \E i \in 1..Len(activePDUs) : activePDUs[i] = j
    BY DEF Open, Contains

LEMMA NewStaysFresh ==
    ASSUME TypeOK, NewIsFresh, [Next]_vars
    PROVE  NewIsFresh'
<1>0. activePDUs \in Seq(Joins) /\ state \in [Joins -> {"new", "open", "done", "failed"}]
    BY DEF TypeOK
<1>1. ASSUME NEW j \in Joins, Send(j) PROVE NewIsFresh'
  <2>1. \A k \in Joins : state'[k] = "new" => k # j /\ state[k] = "new"
      BY <1>0, <1>1 DEF Send
  <2>2. Range(activePDUs') = Range(activePDUs) \cup {j}
    <3>1. activePDUs' = Append(activePDUs, j)
        BY <1>1 DEF Send
    <3>2. /\ DOMAIN activePDUs = 1..Len(activePDUs) /\ Len(activePDUs) \in Nat
          /\ DOMAIN activePDUs' = 1..Len(activePDUs) + 1
          /\ \A i \in 1..Len(activePDUs) : activePDUs'[i] = activePDUs[i]
          /\ activePDUs'[Len(activePDUs) + 1] = j
        BY <1>0, <3>1, AppendProperties, LenProperties
    <3>3. 1..Len(activePDUs) + 1 = 1..Len(activePDUs) \cup {Len(activePDUs) + 1}
        BY <3>2
    <3> QED
        BY <3>2, <3>3 DEF Range
  <2>3. lastPDU' = lastPDU
      BY <1>1 DEF Send
  <2> QED
      BY <2>1, <2>2, <2>3 DEF NewIsFresh, BlockOf
<1>2. ASSUME \A k \in Joins : state'[k] = "new" => state[k] = "new" /\ lastPDU'[k] = lastPDU[k],
             Range(activePDUs') \subseteq Range(activePDUs)
      PROVE  NewIsFresh'
    BY <1>2 DEF NewIsFresh, BlockOf
<1>3. CASE Timeout
  <2>1. \E X : activePDUs' = Without(activePDUs, X)
      BY <1>3 DEF Timeout
  <2>2. Range(activePDUs') \subseteq Range(activePDUs)
      BY <1>0, <2>1, WithoutProperties
  <2>3. \A k \in Joins : state'[k] = "new" => state[k] = "new"
      BY <1>3 DEF Timeout
  <2>4. lastPDU' = lastPDU
      BY <1>3 DEF Timeout
  <2> QED
      BY <1>2, <2>2, <2>3, <2>4
<1>4. CASE AnswerArrives
  <2> DEFINE a    == Head(toClient)
             sent == lastPDU[a.join].block
             next == Request(a.join, a.num + 1, sent + 1)
  <2>0. a.join \in Joins
    <3>1. toClient \in Seq(Answers)
        BY DEF TypeOK
    <3>2. a \in Answers
        BY <1>4, <3>1, HeadTailProperties DEF AnswerArrives
    <3> QED
        BY <3>2 DEF Answers
  <2>1. CASE UNCHANGED clientVars
      BY <2>1, <1>2 DEF clientVars
  <2>2. CASE /\ Open(a.join)
             /\ lastPDU' = [lastPDU EXCEPT ![a.join] = next]
             /\ UNCHANGED <<activePDUs, state>>
    <3>1. a.join \in Range(activePDUs)
        BY <1>0, <2>2, OpenIsActive, LenProperties DEF Range
    <3>2. state[a.join] # "new"
        BY <3>1, <2>0 DEF NewIsFresh
    <3>3. \A k \in Joins : k # a.join => lastPDU'[k] = lastPDU[k]
        BY <2>2 DEF TypeOK
    <3> QED
        BY <1>2, <2>2, <3>2, <3>3
  <2>3. CASE /\ activePDUs' = Without(activePDUs, {a.join})
             /\ state' = [state EXCEPT ![a.join] =
                             IF a.code \in {"2.01", "2.04"} THEN "done" ELSE "failed"]
             /\ UNCHANGED lastPDU
    <3>1. Range(activePDUs') \subseteq Range(activePDUs)
        BY <1>0, <2>3, WithoutProperties
    <3>2. \A k \in Joins : state'[k] = "new" => state[k] = "new"
        BY <1>0, <2>0, <2>3
    <3> QED
        BY <1>2, <2>3, <3>1, <3>2
  <2> QED
      BY <1>4, <2>1, <2>2, <2>3 DEF AnswerArrives
<1>5. CASE UNCHANGED <<activePDUs, state, lastPDU>>
    BY <1>2, <1>5
<1>6. Tick \/ RequestArrives \/ RequestLost \/ AnswerLost \/ PairRemoveIndex \/ UNCHANGED vars
          => UNCHANGED <<activePDUs, state, lastPDU>>
    BY DEF Tick, RequestArrives, RequestLost, AnswerLost, PairRemoveIndex, vars, clientVars
<1> QED
    BY <1>1, <1>3, <1>4, <1>5, <1>6 DEF Next, System

-----------------------------------------------------------------------------
(* An undisturbed transfer stays in turn. *)

LEMMA SendInTurn ==
    ASSUME TypeOK, NewIsFresh, NEW j \in Joins, Send(j)
    PROVE  TransferInv'
<1> SUFFICES ASSUME ~disturbed' PROVE TransferInv'
    BY DEF TransferInv
<1>1. activePDUs = <<>> /\ InFlight = {}
    BY DEF Send
<1>2. toNode = <<>> /\ toClient = <<>>
    BY <1>1, NothingInFlight
<1>3. activePDUs' = <<j>>
    BY <1>1 DEF Send
<1>4. BlockOf(lastPDU[j], j, 1) /\ UNCHANGED <<lastPDU, toClient>> /\ parse' = "none"
    BY DEF Send, NewIsFresh
<1>5. toNode' = Append(<<>>, Request(j, 0, 1))
    BY <1>2 DEF Send
<1>6. Len(toNode') = 1 /\ toNode'[1] = Request(j, 0, 1)
    BY <1>5
<1>7. 1 \in 1..Length
    BY SizesAssumption
<1>8. InTurn(j, 1)'
  <2>1. BlockOf(toNode'[1], j, 1)
      BY <1>6 DEF BlockOf, Request
  <2>2. ToNode(j, 1)'
      BY <1>2, <1>4, <1>6, <2>1 DEF ToNode, HandledBefore, BlockOf
  <2> QED
      BY <1>3, <1>4, <2>2 DEF InTurn, BlockOf
<1> QED
    BY <1>4, <1>7, <1>8 DEF TransferInv

(* The bookkeeping of a step that moves no message. *)
LEMMA StaysInTurn ==
    ASSUME TransferInv, disturbed => disturbed',
           activePDUs' \in {<<>>, activePDUs},
           UNCHANGED <<lastPDU, toNode, toClient, buffer, parse, joined>>
    PROVE  TransferInv'
<1> SUFFICES ASSUME ~disturbed' PROVE TransferInv'
    BY DEF TransferInv
<1>1. CASE Idle
    BY <1>1 DEF TransferInv, Idle
<1>2. ASSUME NEW j \in Joins, NEW b \in 1..Length, InTurn(j, b) PROVE InTurn(j, b)'
    BY <1>2 DEF InTurn, ToNode, ToClient, Lost, HandledBefore, Handled, BlockOf, AnswerTo, First
<1> QED
    BY <1>1, <1>2 DEF TransferInv

(* The requests of at most one message. *)
LEMMA RequestsOfOne ==
    ASSUME NEW f, NEW t
    PROVE  /\ t = <<>> => [i \in 1..Len(t) |-> f[t[i]]] = <<>>
           /\ \A j : t = <<j>> => /\ Len([i \in 1..Len(t) |-> f[t[i]]]) = 1
                                 /\ [i \in 1..Len(t) |-> f[t[i]]][1] = f[j]
<1> DEFINE g == [i \in 1..Len(t) |-> f[t[i]]]
<1>1. ASSUME t = <<>> PROVE g = <<>>
  <2>1. Len(t) = 0
      BY <1>1
  <2> HIDE DEF g
  <2>2. g \in [1..0 -> {1}]
      BY <2>1 DEF g
  <2>3. g \in Seq({1}) /\ Len(g) = 0
      BY <2>2, ArrayIsSeq
  <2> QED
      BY <2>3, EmptySeq
<1>2. ASSUME NEW j, t = <<j>> PROVE Len(g) = 1 /\ g[1] = f[j]
  <2>1. Len(t) = 1 /\ t[1] = j
      BY <1>2
  <2> HIDE DEF g
  <2>2. g \in [1..1 -> {f[j]}]
      BY <2>1 DEF g
  <2>3. Len(g) = 1
      BY <2>2, ArrayIsSeq
  <2> QED
      BY <2>2, <2>3
<1> QED
    BY <1>1, <1>2

LEMMA TimeoutInTurn ==
    ASSUME TypeOK, TransferInv, Timeout
    PROVE  TransferInv'
<1> SUFFICES ASSUME ~disturbed' PROVE TransferInv'
    BY DEF TransferInv
<1> PICK expired \in SUBSET Range(activePDUs) :
          LET again   == {j \in expired : ~GivenUp(j)}
              gone    == expired \ again
              waiting == Range(activePDUs) \ expired
              kept    == Without(activePDUs, gone)
              resent  == Without(kept, waiting)
          IN /\ toNode' = toNode \o [i \in 1..Len(resent) |-> lastPDU[resent[i]]]
             /\ activePDUs' = kept
             /\ disturbed' = (disturbed \/ again \cap InFlight # {})
    BY DEF Timeout
<1> DEFINE again   == {j \in expired : ~GivenUp(j)}
           gone    == expired \ again
           waiting == Range(activePDUs) \ expired
           kept    == Without(activePDUs, gone)
           resent  == Without(kept, waiting)
<1>1. ~disturbed /\ again \cap InFlight = {} /\ activePDUs' = kept
    OBVIOUS
<1>2. UNCHANGED <<lastPDU, toClient, buffer, parse, joined>>
    BY DEF Timeout, nodeVars
<1>3. toNode \in Seq(Requests)
    BY DEF TypeOK
<1>4. ASSUME resent = <<>> PROVE toNode' = toNode
  <2> DEFINE copies == [i \in 1..Len(resent) |-> lastPDU[resent[i]]]
  <2>1. copies = <<>>
    <3> HIDE DEF resent
    <3> QED
        BY <1>4, RequestsOfOne
  <2>2. toNode' = toNode \o copies
      OBVIOUS
  <2> HIDE DEF copies
  <2>3. toNode' = toNode \o <<>>
      BY ONLY <2>1, <2>2
  <2> QED
      BY ONLY <1>3, <2>3, ConcatEmptySeq
<1>5. CASE activePDUs = <<>>
  <2>1. kept = <<>>
      BY <1>5, WithoutOfOne
  <2>2. resent = <<>>
      BY <2>1, WithoutOfOne
  <2> HIDE DEF kept, resent
  <2> QED
      BY <1>1, <1>2, <1>4, <2>1, <2>2, StaysInTurn
<1>6. ASSUME NEW j \in Joins, NEW b \in 1..Length, InTurn(j, b), activePDUs = <<j>>
      PROVE  TransferInv'
  <2>1. Range(activePDUs) = {j}
      BY <1>6 DEF Range
  <2>2. kept = IF j \in gone THEN <<>> ELSE <<j>>
      BY <1>6, WithoutOfOne
  <2>3. CASE j \notin again
    <3>1. resent = <<>>
      <4>1. CASE j \in gone
          BY <4>1, <2>2, WithoutOfOne
      <4>2. CASE j \notin gone
        <5>1. j \in waiting /\ kept = <<j>>
            BY <4>2, <2>1, <2>2, <2>3
        <5> QED
            BY <5>1, WithoutOfOne
      <4> QED
          BY <4>1, <4>2
    <3>2. kept \in {<<>>, activePDUs}
        BY <2>2, <1>6
    <3> HIDE DEF kept, resent
    <3> QED
        BY <1>1, <1>2, <1>4, <3>1, <3>2, StaysInTurn
  <2>4. CASE j \in again
    <3>1. kept = <<j>>
        BY <2>2, <2>4
    <3>2. resent = <<j>>
        BY <2>4, <3>1, WithoutOfOne
    <3>3. j \notin InFlight
        BY <1>1, <2>4
    <3>4. Lost(j, b)
        BY <1>6, <3>3 DEF InTurn, ToNode, ToClient, BlockOf, AnswerTo, InFlight, Ids
    <3> DEFINE copies == [i \in 1..Len(resent) |-> lastPDU[resent[i]]]
    <3>5. Len(copies) = 1 /\ copies[1] = lastPDU[j] /\ copies \in Seq(Requests)
      <4>1. Len(copies) = 1 /\ copies[1] = lastPDU[j]
        <5> HIDE DEF resent
        <5> QED
            BY <3>2, RequestsOfOne
      <4>2. lastPDU[j] \in Requests
          BY DEF TypeOK
      <4>3. copies \in [1..1 -> Requests]
        <5>1. Len(resent) = 1 /\ resent[1] = j
            BY <3>2
        <5> HIDE DEF resent
        <5> QED
            BY <5>1, <4>2
      <4> HIDE DEF copies
      <4> QED
          BY <4>1, <4>3, ArrayIsSeq
    <3>6. Len(toNode') = 1 /\ toNode'[1] = lastPDU[j]
      <4>1. toNode' = <<>> \o copies
          BY <3>4 DEF Lost
      <4> HIDE DEF copies
      <4>2. toNode' = copies
          BY ONLY <3>5, <4>1, ConcatEmptySeq
      <4> QED
          BY ONLY <3>5, <4>2
    <3>7. BlockOf(lastPDU[j], j, b)
        BY <1>6 DEF InTurn
    <3> HIDE DEF kept, resent
    <3>8. InTurn(j, b)'
        BY <1>1, <1>2, <3>1, <3>4, <3>6, <3>7
        DEF InTurn, ToNode, Lost, HandledBefore, BlockOf, First
    <3> QED
        BY <1>1, <1>2, <3>8 DEF TransferInv
  <2> QED
      BY <2>3, <2>4
<1> QED
    BY <1>1, <1>5, <1>6 DEF TransferInv, Idle, InTurn

(* The answer that is under way is the one to the block sent last. *)
LEMMA AnswerInTurn ==
    ASSUME TypeOK, TransferInv, ~disturbed, AnswerArrives
    PROVE  \E j \in Joins, b \in 1..Length :
               /\ activePDUs = <<>> \/ (activePDUs = <<j>> /\ BlockOf(lastPDU[j], j, b))
               /\ toNode = <<>> /\ toClient' = <<>>
               /\ AnswerTo(Head(toClient), j, b) /\ Handled(j, b)
<1>1. toClient # <<>> /\ toClient' = Tail(toClient) /\ toClient \in Seq(Answers)
    BY DEF AnswerArrives, TypeOK
<1>2. PICK j \in Joins, b \in 1..Length : InTurn(j, b)
    BY <1>1 DEF TransferInv, Idle
<1>3. ToClient(j, b)
  <2>1. Len(<<>>) = 0
      OBVIOUS
  <2> QED
      BY <1>1, <1>2 DEF InTurn, ToNode, Lost
<1>4. Head(toClient) = toClient[1] /\ toClient' = <<>>
    BY <1>1, <1>3, OneMessage DEF ToClient
<1> QED
    BY <1>2, <1>3, <1>4 DEF InTurn, ToClient

LEMMA AnswerArrivesInTurn ==
    ASSUME TypeOK, TransferInv, AnswerArrives
    PROVE  TransferInv'
<1> SUFFICES ASSUME ~disturbed' PROVE TransferInv'
    BY DEF TransferInv
<1> DEFINE a    == Head(toClient)
           sent == lastPDU[a.join].block
           next == Request(a.join, a.num + 1, sent + 1)
<1>1. ~disturbed /\ UNCHANGED <<buffer, parse, joined>>
    BY DEF AnswerArrives, nodeVars
<1>2. parse' # "garbled"
    BY <1>1 DEF TransferInv
<1>3. PICK j \in Joins, b \in 1..Length :
               /\ activePDUs = <<>> \/ (activePDUs = <<j>> /\ BlockOf(lastPDU[j], j, b))
               /\ toNode = <<>> /\ toClient' = <<>>
               /\ AnswerTo(Head(toClient), j, b) /\ Handled(j, b)
    BY <1>1, AnswerInTurn
<1>4. a.join = j /\ a.num = b - 1 /\ a.block1
    BY <1>3 DEF AnswerTo
<1>5. CASE activePDUs = <<>>
  <2>1. ~Open(a.join)
      BY <1>5, OpenIsActive
  <2>2. activePDUs' = <<>> /\ toNode' = <<>>
      BY <1>3, <1>5, <2>1 DEF AnswerArrives, clientVars
  <2> QED
      BY <1>2, <1>3, <2>2 DEF TransferInv, Idle
<1>6. CASE activePDUs = <<j>> /\ BlockOf(lastPDU[j], j, b)
  <2>1. sent = b
      BY <1>4, <1>6 DEF BlockOf
  <2>2. Open(a.join)
    <3>1. 1 \in 1..Len(activePDUs) /\ activePDUs[1] = j
        BY <1>6
    <3> QED
        BY <3>1, <1>4, OpenIsActive
  <2>3. CASE b < Length
    <3>1. /\ toNode' = Append(toNode, next)
          /\ lastPDU' = [lastPDU EXCEPT ![a.join] = next]
          /\ activePDUs' = activePDUs
        BY <1>4, <2>1, <2>2, <2>3 DEF AnswerArrives
    <3>2. next = Request(j, (b + 1) - 1, b + 1)
        BY <1>4, <2>1
    <3>3. BlockOf(next, j, b + 1)
        BY <3>2 DEF BlockOf, Request
    <3>4. lastPDU'[j] = next
        BY <1>4, <3>1 DEF TypeOK
    <3> HIDE DEF next
    <3>5. Len(toNode') = 1 /\ toNode'[1] = next
        BY <1>3, <3>1
    <3>6. HandledBefore(j, b + 1)'
        BY <1>1, <1>3, <2>3 DEF HandledBefore, Handled, First
    <3>7. b + 1 \in 1..Length
        BY <2>3, SizesAssumption
    <3>8. InTurn(j, b + 1)'
        BY <1>3, <1>6, <3>1, <3>3, <3>4, <3>5, <3>6 DEF InTurn, ToNode, BlockOf
    <3> QED
        BY <1>2, <3>7, <3>8 DEF TransferInv
  <2>4. CASE ~(b < Length)
    <3>1. activePDUs' = Without(activePDUs, {a.join}) /\ toNode' = toNode
        BY <2>1, <2>2, <2>4 DEF AnswerArrives
    <3>2. activePDUs' = <<>>
        BY <1>4, <1>6, <3>1, WithoutOfOne
    <3> QED
        BY <1>2, <1>3, <3>1, <3>2 DEF TransferInv, Idle
  <2> QED
      BY <2>3, <2>4
<1> QED
    BY <1>3, <1>5, <1>6

(* The blocks of a message in turn, with the URL, are the message. *)
LEMMA FirstProperties ==
    ASSUME NEW j \in Joins, NEW n \in Nat
    PROVE  /\ First(j, n) \in Seq(Joins \X Nat) /\ Len(First(j, n)) = n
           /\ Append(First(j, n), <<j, n + 1>>) = First(j, n + 1)
<1>1. ASSUME NEW k \in Nat
      PROVE  /\ First(j, k) \in Seq(Joins \X Nat) /\ Len(First(j, k)) = k
             /\ \A i \in 1..k : First(j, k)[i] = <<j, i>>
  <2>1. First(j, k) \in [1..k -> Joins \X Nat]
      BY DEF First
  <2> QED
      BY <2>1, ArrayIsSeq DEF First
<1>2. Append(First(j, n), <<j, n + 1>>) \in Seq(Joins \X Nat)
      /\ Len(Append(First(j, n), <<j, n + 1>>)) = n + 1
      /\ \A i \in 1..n : Append(First(j, n), <<j, n + 1>>)[i] = <<j, i>>
      /\ Append(First(j, n), <<j, n + 1>>)[n + 1] = <<j, n + 1>>
  <2>1. <<j, n + 1>> \in Joins \X Nat
      OBVIOUS
  <2>2. First(j, n) \in Seq(Joins \X Nat) /\ Len(First(j, n)) = n
        /\ \A i \in 1..n : First(j, n)[i] = <<j, i>>
      BY <1>1
  <2> QED
      BY <2>1, <2>2, AppendProperties
<1>3. \A i \in 1..n + 1 : Append(First(j, n), <<j, n + 1>>)[i] = First(j, n + 1)[i]
  <2>1. \A i \in 1..n + 1 : i \in 1..n \/ i = n + 1
      OBVIOUS
  <2>2. \A i \in 1..n + 1 : First(j, n + 1)[i] = <<j, i>>
      BY <1>1
  <2> DEFINE s == Append(First(j, n), <<j, n + 1>>)
  <2>3. (\A i \in 1..n : s[i] = <<j, i>>) /\ s[n + 1] = <<j, n + 1>>
      BY <1>2
  <2> HIDE DEF s
  <2>4. \A i \in 1..n + 1 : s[i] = <<j, i>>
      BY ONLY <2>1, <2>3
  <2> QED
      BY <2>2, <2>4 DEF s
<1>4. First(j, n + 1) \in Seq(Joins \X Nat) /\ Len(First(j, n + 1)) = n + 1
    BY <1>1
<1>5. Append(First(j, n), <<j, n + 1>>) = First(j, n + 1)
    BY <1>2, <1>3, <1>4, SeqEqual
<1> QED
    BY <1>1, <1>5

LEMMA RequestArrivesInTurn ==
    ASSUME TypeOK, TransferInv, RequestArrives
    PROVE  TransferInv'
<1> SUFFICES ASSUME ~disturbed' PROVE TransferInv'
    BY DEF TransferInv
<1> DEFINE r         == Head(toNode)
           base      == Assembly(r.num)
           fits      == RoomIn(base)
           assembled == IF fits THEN Append(base, <<r.join, r.block>>) ELSE base
           parsed    == Append(assembled, Url)
<1>1. ~disturbed /\ UNCHANGED <<activePDUs, lastPDU>>
    BY DEF RequestArrives, clientVars
<1>2. toNode # <<>> /\ toNode' = Tail(toNode) /\ toNode \in Seq(Requests)
    BY DEF RequestArrives, TypeOK
<1>3. PICK j \in Joins, b \in 1..Length : InTurn(j, b)
    BY <1>1, <1>2 DEF TransferInv, Idle
<1>4. ToNode(j, b)
  <2>1. Len(<<>>) = 0
      OBVIOUS
  <2> QED
      BY <1>2, <1>3 DEF InTurn, ToClient, Lost
<1>5. r = toNode[1] /\ toNode' = <<>> /\ toClient = <<>>
    BY <1>2, <1>4, OneMessage DEF ToNode
<1>6. r.join = j /\ r.num = b - 1 /\ r.block = b /\ r.more = (b < Length)
    BY <1>4, <1>5 DEF ToNode, BlockOf
<1>7. base = First(j, b - 1)
  <2>1. CASE b = 1
      BY <1>6, <2>1 DEF Assembly, First
  <2>2. CASE b # 1
    <3>1. b > 1 /\ b - 1 # 0
        BY <2>2
    <3> QED
        BY <1>4, <1>6, <3>1 DEF Assembly, ToNode, HandledBefore
  <2> QED
      BY <2>1, <2>2
<1>8. b - 1 \in Nat /\ (b - 1) + 1 = b /\ b \in Nat
    OBVIOUS
<1>9. fits
  <2>1. Len(base) = b - 1
      BY <1>7, <1>8, FirstProperties
  <2> HIDE DEF base
  <2> QED
      BY <2>1, SizesAssumption DEF RoomIn
<1>10. assembled = First(j, b)
    BY <1>6, <1>7, <1>8, <1>9, FirstProperties
<1>11. RoomIn(assembled)
  <2> HIDE DEF assembled
  <2>1. Len(assembled) = b
      BY <1>8, <1>10, FirstProperties
  <2> QED
      BY <2>1, SizesAssumption DEF RoomIn
<1>12. b = Length => r.join \in Found(parsed)
  <2> SUFFICES ASSUME b = Length PROVE j \in Found(parsed)
      BY <1>6
  <2>1. First(j, Length) = Message(j)
      BY DEF First, Message
  <2>2. parsed = Append(Message(j), Url)
      BY <1>10, <2>1
  <2> HIDE DEF parsed
  <2>3. IsPrefix(Append(Message(j), Url), parsed)
    <3> DEFINE m == Append(Message(j), Url)
    <3>1. m \in Seq({<<j, c>> : c \in 1..Length} \cup {Url})
      <4>1. Message(j) \in [1..Length -> {<<j, c>> : c \in 1..Length} \cup {Url}]
          BY DEF Message
      <4>2. Message(j) \in Seq({<<j, c>> : c \in 1..Length} \cup {Url})
          BY <4>1, ArrayIsSeq, SizesAssumption
      <4> QED
          BY <4>2, AppendProperties
    <3>2. Len(m) \in Nat
        BY <3>1, LenProperties
    <3> HIDE DEF m
    <3>3. IsPrefix(m, m)
        BY <3>2 DEF IsPrefix
    <3> QED
        BY <2>2, <3>3 DEF m
  <2> QED
      BY <2>3 DEF Found
<1>13. \E code \in Codes :
           toClient' = Append(toClient, [join |-> r.join, num |-> r.num, age |-> 0,
                                         block1 |-> fits, code |-> code])
    BY DEF RequestArrives, Codes
<1>14. Len(toClient') = 1 /\ AnswerTo(toClient'[1], j, b)
  <2>1. PICK code \in Codes :
           toClient' = Append(<<>>, [join |-> j, num |-> b - 1, age |-> 0,
                                     block1 |-> TRUE, code |-> code])
    <3> HIDE DEF r, base, fits
    <3>1. fits = TRUE
        BY <1>9 DEF fits, RoomIn
    <3> QED
        BY <1>5, <1>6, <1>13, <3>1
  <2> QED
      BY <2>1 DEF AnswerTo
<1>15. Handled(j, b)' /\ parse' # "garbled"
  <2>0. parse # "garbled"
      BY <1>1 DEF TransferInv
  <2>1. CASE b < Length
    <3>1. r.more
        BY <1>6, <2>1
    <3>2. buffer' = assembled /\ parse' = parse
        BY <3>1 DEF RequestArrives
    <3> HIDE DEF assembled
    <3> QED
        BY <1>10, <2>0, <2>1, <3>2 DEF Handled, First
  <2>2. CASE ~(b < Length)
    <3>1. ~r.more /\ b = Length
      <4>1. b = Length
          BY <2>2, SizesAssumption
      <4> HIDE DEF r
      <4>2. ~r.more
          BY <1>6, <2>2
      <4> QED
          BY <4>1, <4>2
    <3>2. joined' = joined \cup {r.join} /\ parse' = "as sent"
        BY <1>11, <1>12, <3>1 DEF RequestArrives
    <3> QED
        BY <1>6, <2>2, <3>2 DEF Handled
  <2> QED
      BY <2>1, <2>2
<1>16. InTurn(j, b)'
  <2>1. ToClient(j, b)'
      BY <1>5, <1>14, <1>15 DEF ToClient, AnswerTo
  <2> QED
      BY <1>1, <1>3, <2>1 DEF InTurn, BlockOf
<1> QED
    BY <1>15, <1>16 DEF TransferInv

LEMMA NetworkInTurn ==
    ASSUME TypeOK, TransferInv,
           Tick \/ RequestLost \/ AnswerLost \/ PairRemoveIndex \/ UNCHANGED vars
    PROVE  TransferInv'
<1> SUFFICES ASSUME ~disturbed' PROVE TransferInv'
    BY DEF TransferInv
<1>0. toNode \in Seq(Requests) /\ toClient \in Seq(Answers)
    BY DEF TypeOK
<1>1. CASE Tick
  <2>1. /\ ~disturbed /\ toNode' = Aged(toNode) /\ toClient' = Aged(toClient)
        /\ UNCHANGED <<activePDUs, lastPDU, buffer, parse, joined>>
      BY <1>1 DEF Tick, nodeVars
  <2>2. ASSUME NEW S, NEW q \in Seq(S)
        PROVE  (q = <<>> => Aged(q) = <<>>) /\ Len(Aged(q)) = Len(q)
    <3>1. Aged(q) \in Seq({[q[i] EXCEPT !.age = @ + 1] : i \in 1..Len(q)})
          /\ Len(Aged(q)) = Len(q)
      <4>1. Aged(q) \in [1..Len(q) -> {[q[i] EXCEPT !.age = @ + 1] : i \in 1..Len(q)}]
          BY DEF Aged
      <4> QED
          BY <4>1, ArrayIsSeq, LenProperties
    <3> QED
        BY <3>1, EmptySeq
  <2>3. Idle => Idle'
      BY <1>0, <2>1, <2>2 DEF Idle
  <2>4. ASSUME NEW j \in Joins, NEW b \in 1..Length, InTurn(j, b) PROVE InTurn(j, b)'
    <3>1. ASSUME ToNode(j, b) PROVE ToNode(j, b)'
      <4>1. toNode'[1] = [toNode[1] EXCEPT !.age = @ + 1]
          BY <2>1, <3>1 DEF Aged, ToNode
      <4>2. toNode[1] \in Requests
          BY <1>0, <3>1 DEF ToNode
      <4>3. BlockOf(toNode'[1], j, b)
          BY <3>1, <4>1, <4>2 DEF ToNode, BlockOf, Requests
      <4> QED
          BY <1>0, <2>1, <2>2, <3>1, <4>3 DEF ToNode, HandledBefore, First, BlockOf
    <3>2. ASSUME ToClient(j, b) PROVE ToClient(j, b)'
      <4>1. toClient'[1] = [toClient[1] EXCEPT !.age = @ + 1]
          BY <2>1, <3>2 DEF Aged, ToClient
      <4>2. toClient[1] \in Answers
          BY <1>0, <3>2 DEF ToClient
      <4>3. AnswerTo(toClient'[1], j, b)
          BY <3>2, <4>1, <4>2 DEF ToClient, AnswerTo, Answers
      <4> QED
          BY <1>0, <2>1, <2>2, <3>2, <4>3 DEF ToClient, Handled, First, AnswerTo
    <3>3. Lost(j, b) => Lost(j, b)'
        BY <1>0, <2>1, <2>2 DEF Lost, HandledBefore, First
    <3> QED
        BY <2>1, <2>4, <3>1, <3>2, <3>3 DEF InTurn, BlockOf
  <2> QED
      BY <2>1, <2>3, <2>4 DEF TransferInv
<1>2. CASE RequestLost
  <2>1. /\ ~disturbed /\ toNode # <<>> /\ toNode' = Tail(toNode)
        /\ UNCHANGED <<activePDUs, lastPDU, toClient, buffer, parse, joined>>
      BY <1>2 DEF RequestLost, clientVars, nodeVars
  <2>2. PICK j \in Joins, b \in 1..Length : InTurn(j, b)
      BY <2>1 DEF TransferInv, Idle
  <2>3. ToNode(j, b)
      BY <2>1, <2>2 DEF InTurn, ToClient, Lost
  <2>4. toNode' = <<>>
      BY <1>0, <2>1, <2>3, OneMessage DEF ToNode
  <2>5. InTurn(j, b)'
      BY <2>1, <2>2, <2>3, <2>4 DEF InTurn, ToNode, Lost, HandledBefore, First, BlockOf
  <2> QED
      BY <2>1, <2>5 DEF TransferInv
<1>3. CASE AnswerLost \/ PairRemoveIndex
    BY <1>3 DEF AnswerLost, PairRemoveIndex
<1>4. CASE UNCHANGED vars
    BY <1>4, StaysInTurn DEF vars, clientVars, netVars, nodeVars
<1> QED
    BY <1>1, <1>2, <1>3, <1>4

LEMMA InitInTurn == Init => NewIsFresh /\ TransferInv
<1> SUFFICES ASSUME Init PROVE NewIsFresh /\ TransferInv
    OBVIOUS
<1>1. Range(activePDUs) = {}
    BY EmptySeq DEF Init, Range
<1>2. \A j \in Joins : BlockOf(lastPDU[j], j, 1)
    BY DEF Init, BlockOf, Request
<1> QED
    BY <1>1, <1>2 DEF Init, NewIsFresh, TransferInv, Idle

LEMMA NextInTurn ==
    TypeOK /\ NewIsFresh /\ TransferInv /\ [Next]_vars => (NewIsFresh /\ TransferInv)'
    BY NewStaysFresh, SendInTurn, TimeoutInTurn, AnswerArrivesInTurn, RequestArrivesInTurn,
       NetworkInTurn DEF Next, System

LEMMA Transfers == Spec => [](TypeOK /\ NewIsFresh /\ TransferInv)
<1>1. Init => TimerRuns
    BY DEF Init, TimerRuns
<1> QED
    BY <1>1, InitTypes, NextTypes, InitInTurn, NextInTurn, PTL DEF Spec

(* The node garbles a message only after one of the four causes, whatever  *)
(* the length of the messages, the timer and the delays: a lost answer, a  *)
(* block sent again while it or its answer is under way, another message,  *)
(* another command.                                                        *)
THEOREM GarbledOnlyIfDisturbed == Spec => []UndisturbedIsWhole
<1>1. TransferInv => UndisturbedIsWhole
    BY DEF TransferInv, UndisturbedIsWhole
<1> QED
    BY <1>1, Transfers, PTL

(* A join the client takes for done was parsed as it was sent: the answer  *)
(* that ends it is the one to its last block, which is out of the client's *)
(* sight, since answers only carry the number that the node was sent.      *)
THEOREM DoneWasJoined == Spec => DoneIsJoined
<1>1. ASSUME TypeOK, TransferInv, [Next]_vars, NEW j \in Joins,
             state[j] = "open", state'[j] = "done", ~disturbed
      PROVE  j \in joined
  <2> DEFINE a    == Head(toClient)
             sent == lastPDU[a.join].block
  <2>0. state \in [Joins -> {"new", "open", "done", "failed"}]
      BY <1>1 DEF TypeOK
  <2>1. AnswerArrives
    <3>1. state' # state
        BY <1>1
    <3>2. ~Timeout
        BY <1>1 DEF Timeout
    <3>3. ~\E k \in Joins : Send(k)
        BY <1>1, <2>0 DEF Send
    <3>4. ~(Tick \/ RequestArrives \/ RequestLost \/ AnswerLost \/ PairRemoveIndex
                 \/ UNCHANGED vars)
        BY <3>1 DEF Tick, RequestArrives, RequestLost, AnswerLost, PairRemoveIndex,
                    vars, clientVars
    <3> QED
        BY <1>1, <3>2, <3>3, <3>4 DEF Next, System
  <2>2. /\ Open(a.join) /\ ~(a.block1 /\ sent < Length)
        /\ state' = [state EXCEPT ![a.join] =
                        IF a.code \in {"2.01", "2.04"} THEN "done" ELSE "failed"]
    <3>1. state' # state
        BY <1>1
    <3> QED
        BY <2>1, <3>1 DEF AnswerArrives, clientVars
  <2>3. PICK k \in Joins, b \in 1..Length :
               /\ activePDUs = <<>> \/ (activePDUs = <<k>> /\ BlockOf(lastPDU[k], k, b))
               /\ AnswerTo(Head(toClient), k, b) /\ Handled(k, b)
      BY <1>1, <2>1, AnswerInTurn
  <2>4. a.join = k /\ a.block1
      BY <2>3 DEF AnswerTo
  <2>5. j = k
      BY <1>1, <2>0, <2>2, <2>4
  <2>6. activePDUs # <<>>
      BY <2>2, OpenIsActive
  <2>7. ~(b < Length)
      BY <2>2, <2>3, <2>4, <2>6 DEF BlockOf
  <2> QED
      BY <2>3, <2>5, <2>7 DEF Handled
<1>2. TypeOK /\ TransferInv /\ [Next]_vars =>
        [\A j \in Joins :
            state[j] = "open" /\ state'[j] = "done" /\ ~disturbed => j \in joined]_vars
    BY <1>1
<1> QED
    BY <1>2, Transfers, PTL DEF Spec, DoneIsJoined
=============================================================================
