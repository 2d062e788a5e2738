----------------------------- MODULE ClientProofs -----------------------------
(***************************************************************************)
(* Proofs about Client, for every value of its constants that              *)
(* ClientAssumption allows: the list of pairs follows the file of the node *)
(* and the lists of sensors follow the database, what the calls that code  *)
(* values wrote is what the calls that read them return, messages are read *)
(* as they were built (MessageProofs), and pairs as they were joined       *)
(* (PairCodingProofs).                                                     *)
(***************************************************************************)
EXTENDS Client, Selections, SequenceTheorems, WellFoundedInduction, TLAPS

-----------------------------------------------------------------------------
(* Induction over the natural numbers and over sequences, with a set for   *)
(* the predicate, and what it says of recursive functions.                 *)

LEMMA LeastNumber ==
    ASSUME NEW T \in SUBSET Nat, T # {}
    PROVE  \E x \in T : \A y \in T : x <= y
<1>1. PICK x \in T : \A y \in T : <<y, x>> \notin OpToRel(<, Nat)
  BY NatLessThanWellFounded, WFMin
<1>2. \A y \in T : ~(y < x)
  BY <1>1 DEF OpToRel
<1>. QED BY <1>2

LEMMA NumbersInduction ==
    ASSUME NEW T, 0 \in T, \A n \in T \cap Nat : n + 1 \in T
    PROVE  Nat \subseteq T
<1>. SUFFICES ASSUME NEW m \in Nat, m \notin T
              PROVE  FALSE
  OBVIOUS
<1>1. PICK x \in Nat \ T : \A y \in Nat \ T : x <= y
  BY LeastNumber, Nat \ T \in SUBSET Nat, m \in Nat \ T
<1>2. x - 1 \in Nat /\ ~(x <= x - 1) /\ (x - 1) + 1 = x
  BY <1>1
<1>. QED BY <1>1, <1>2

(* The function on 0..k that starts at b and goes on by step. *)
IsChain(f, S, b, k, step) ==
    f \in [0..k -> S] /\ f[0] = b /\ \A n \in 1..k : f[n] = step[<<f[n - 1], n>>]

LEMMA RecursionExists ==
    ASSUME NEW S, NEW b \in S, NEW k \in Nat, NEW step \in [S \X (1..k) -> S]
    PROVE  \E f : IsChain(f, S, b, k, step)
<1> DEFINE Starts(f, m) ==
        f \in [0..m -> S] /\ f[0] = b /\ \A n \in 1..m : f[n] = step[<<f[n - 1], n>>]
           Ok == {m \in Nat : m <= k => \E f : Starts(f, m)}
<1>1. 0 \in Ok
  <2>1. Starts([n \in 0..0 |-> b], 0)
    OBVIOUS
  <2>. QED BY <2>1
<1>2. ASSUME NEW m \in Ok \cap Nat
      PROVE  m + 1 \in Ok
  <2>. SUFFICES ASSUME m + 1 <= k
                PROVE  \E f : Starts(f, m + 1)
    OBVIOUS
  <2>1. PICK f : Starts(f, m)
    OBVIOUS
  <2> DEFINE g == [n \in 0..m + 1 |-> IF n = m + 1 THEN step[<<f[m], m + 1>>] ELSE f[n]]
  <2>2. f[m] \in S /\ m + 1 \in 1..k
    BY <2>1
  <2>3. g \in [0..m + 1 -> S] /\ g[0] = b
    BY <2>1, <2>2
  <2>4. ASSUME NEW n \in 1..m + 1
        PROVE  g[n] = step[<<g[n - 1], n>>]
    <3>1. g[n - 1] = f[n - 1]
      OBVIOUS
    <3>2. CASE n = m + 1
      <4>1. g[n] = step[<<f[m], m + 1>>] /\ n - 1 = m
        BY <3>2
      <4>. HIDE DEF g
      <4>. QED BY <3>1, <3>2, <4>1
    <3>3. CASE n # m + 1
      <4>1. n \in 1..m /\ g[n] = f[n]
        BY <3>3
      <4>. HIDE DEF g
      <4>. QED BY <2>1, <3>1, <4>1
    <3>. QED BY <3>2, <3>3
  <2>. HIDE DEF g
  <2>5. Starts(g, m + 1)
    BY <2>3, <2>4
  <2>. QED BY <2>5
<1>3. k \in Ok
  <2>. HIDE DEF Ok
  <2>. QED BY <1>1, <1>2, NumbersInduction
<1>4. PICK f : Starts(f, k)
  BY <1>3
<1>. QED BY <1>4 DEF IsChain

(* A set with the empty sequence that contains, with a sequence, all that  *)
(* are longer by one element, has all sequences.                           *)
LEMMA SequencesInduction ==
    ASSUME NEW T, NEW Q, <<>> \in Q,
           \A s \in Seq(T) : s \in Q => \A e \in T : Append(s, e) \in Q
    PROVE  Seq(T) \subseteq Q
<1> DEFINE Ok == {n \in Nat : \A s \in Seq(T) : Len(s) = n => s \in Q}
<1>1. 0 \in Ok
  <2>1. \A s \in Seq(T) : Len(s) = 0 => s = <<>>
    BY EmptySeq
  <2>. QED BY <2>1
<1>2. ASSUME NEW n \in Ok \cap Nat
      PROVE  n + 1 \in Ok
  <2>. SUFFICES ASSUME NEW s \in Seq(T), Len(s) = n + 1
                PROVE  s \in Q
    OBVIOUS
  <2>1. s # <<>>
    BY EmptySeq
  <2>2. PICK t \in Seq(T), e \in T : s = Append(t, e)
    BY <2>1, SequenceEmptyOrAppend
  <2>3. Len(t) = n
    <3>1. Len(Append(t, e)) = Len(t) + 1 /\ Len(t) \in Nat
      BY AppendProperties, LenProperties
    <3>2. Len(t) + 1 = n + 1
      BY <2>2, <3>1
    <3>. QED BY <3>1, <3>2
  <2>. QED BY <2>2, <2>3
<1>3. Nat \subseteq Ok
  <2>. HIDE DEF Ok
  <2>. QED BY <1>1, <1>2, NumbersInduction
<1>. QED BY <1>3, LenProperties

(* A function that goes on by step as long as it stays in S is that chain. *)
LEMMA ChainFollows ==
    ASSUME NEW S, NEW b \in S, NEW k \in Nat, NEW step \in [S \X (1..k) -> S],
           NEW f, f = [n \in 0..k |-> f[n]], f[0] = b,
           \A n \in 1..k : f[n - 1] \in S => f[n] = step[<<f[n - 1], n>>]
    PROVE  IsChain(f, S, b, k, step)
<1> DEFINE Ok == {m \in Nat : m <= k => f[m] \in S}
<1>1. 0 \in Ok
  OBVIOUS
<1>2. ASSUME NEW m \in Ok \cap Nat
      PROVE  m + 1 \in Ok
  <2>. SUFFICES ASSUME m + 1 <= k
                PROVE  f[m + 1] \in S
    OBVIOUS
  <2>1. m + 1 \in 1..k /\ (m + 1) - 1 = m /\ f[m] \in S
    OBVIOUS
  <2>2. f[m + 1] = step[<<f[m], m + 1>>]
    BY <2>1
  <2>. QED BY <2>1, <2>2
<1>3. \A m \in 0..k : f[m] \in S
  <2>1. Nat \subseteq Ok
    <3>. HIDE DEF Ok
    <3>. QED BY <1>1, <1>2, NumbersInduction
  <2>2. \A m \in 0..k : m \in Nat /\ m <= k
    OBVIOUS
  <2>. QED BY <2>1, <2>2
<1>4. \A n \in 1..k : n - 1 \in 0..k
  OBVIOUS
<1>. QED BY <1>3, <1>4 DEF IsChain

-----------------------------------------------------------------------------
(* The elements of a sequence that are in a set. *)

LEMMA OnlyUpToDef ==
    ASSUME NEW T, NEW s \in Seq(T), NEW S
    PROVE  /\ OnlyUpTo(s, S) \in [0..Len(s) -> Seq(T)]
           /\ OnlyUpTo(s, S)[0] = <<>>
           /\ \A n \in 1..Len(s) :
                 OnlyUpTo(s, S)[n] =
                     IF s[n] \in S THEN Append(OnlyUpTo(s, S)[n - 1], s[n])
                     ELSE OnlyUpTo(s, S)[n - 1]
<1> DEFINE GoOn(f, n) == IF s[n] \in S THEN Append(f[n - 1], s[n]) ELSE f[n - 1]
           Body(f) == [n \in 0..Len(s) |-> IF n = 0 THEN <<>> ELSE GoOn(f, n)]
           step == [x \in Seq(T) \X (1..Len(s)) |->
                       IF s[x[2]] \in S THEN Append(x[1], s[x[2]]) ELSE x[1]]
           only == CHOOSE f : f = Body(f)
<1>1. Len(s) \in Nat /\ <<>> \in Seq(T) /\ step \in [Seq(T) \X (1..Len(s)) -> Seq(T)]
  OBVIOUS
<1>2. ASSUME NEW f, NEW n \in 1..Len(s), f[n - 1] \in Seq(T)
      PROVE  step[<<f[n - 1], n>>] = GoOn(f, n)
  BY <1>2
<1>3. OnlyUpTo(s, S) = only
  BY DEF OnlyUpTo
<1>. HIDE DEF step
<1>4. PICK f : IsChain(f, Seq(T), <<>>, Len(s), step)
  BY <1>1, RecursionExists, Zenon
<1>5. f = Body(f)
  <2>1. f = [n \in 0..Len(s) |-> f[n]] /\ f[0] = <<>>
    BY <1>4 DEF IsChain
  <2>2. ASSUME NEW n \in 1..Len(s)
        PROVE  f[n] = GoOn(f, n)
    <3>1. f[n - 1] \in Seq(T)
      BY <1>4 DEF IsChain
    <3>2. f[n] = step[<<f[n - 1], n>>]
      BY <1>4 DEF IsChain
    <3>. HIDE DEF GoOn
    <3>. QED BY <1>2, <3>1, <3>2
  <2>3. \A n \in 0..Len(s) : n # 0 => n \in 1..Len(s)
    OBVIOUS
  <2>. HIDE DEF GoOn
  <2>4. \A n \in 0..Len(s) : f[n] = IF n = 0 THEN <<>> ELSE GoOn(f, n)
    BY <2>1, <2>2, <2>3
  <2>. QED BY <2>1, <2>4
<1>6. only = Body(only)
  <2>. HIDE DEF Body
  <2>. QED BY <1>5
<1>. HIDE DEF only
<1>7. only[0] = <<>> /\ \A n \in 1..Len(s) : only[n] = GoOn(only, n)
  <2>. HIDE DEF GoOn
  <2>. QED BY <1>6
<1>8. IsChain(only, Seq(T), <<>>, Len(s), step)
  <2>1. only = [n \in 0..Len(s) |-> only[n]]
    BY <1>6
  <2>2. \A n \in 1..Len(s) : only[n - 1] \in Seq(T) => only[n] = step[<<only[n - 1], n>>]
    <3>. HIDE DEF GoOn
    <3>. QED BY <1>2, <1>7
  <2>. QED BY <1>1, <1>7, <2>1, <2>2, ChainFollows, Zenon
<1>9. only \in [0..Len(s) -> Seq(T)]
  BY <1>8 DEF IsChain
<1>. QED BY <1>3, <1>7, <1>9

LEMMA OnlyType ==
    ASSUME NEW T, NEW s \in Seq(T), NEW S
    PROVE  Only(s, S) \in Seq(T)
<1>1. Len(s) \in 0..Len(s)
  BY LenProperties
<1>2. OnlyUpTo(s, S) \in [0..Len(s) -> Seq(T)]
  BY OnlyUpToDef, Zenon
<1>. QED BY <1>1, <1>2 DEF Only

LEMMA OnlyOfEmpty == \A S : Only(<<>>, S) = <<>>
<1>. SUFFICES ASSUME NEW S
              PROVE  Only(<<>>, S) = <<>>
  OBVIOUS
<1> DEFINE s == <<>>
<1>1. s \in Seq({}) /\ Len(s) = 0
  BY EmptySeq
<1>. HIDE DEF s
<1>2. OnlyUpTo(s, S)[0] = <<>>
  <2>1. PICK T : s \in Seq(T)
    BY <1>1
  <2>. QED BY <2>1, OnlyUpToDef
<1>3. Only(s, S) = <<>>
  BY <1>1, <1>2 DEF Only
<1>. QED BY <1>3 DEF s

(* What follows the first n elements does not matter. *)
LEMMA OnlyOfAppend ==
    ASSUME NEW T, NEW s \in Seq(T), NEW e \in T, NEW S
    PROVE  Only(Append(s, e), S) = IF e \in S THEN Append(Only(s, S), e) ELSE Only(s, S)
<1> DEFINE t == Append(s, e)
           len == Len(s)
           f == OnlyUpTo(s, S)
           g == OnlyUpTo(t, S)
           Ok == {m \in Nat : m <= len => f[m] = g[m]}
<1>1. /\ t \in Seq(T) /\ Len(t) = len + 1 /\ len \in Nat
      /\ \A i \in 1..len : t[i] = s[i]
      /\ t[len + 1] = e
  <2>1. len \in Nat
    BY LenProperties
  <2>. QED BY <2>1, AppendProperties
<1>2. f[0] = <<>> /\ g[0] = <<>>
  <2>. HIDE DEF t
  <2>. QED BY <1>1, OnlyUpToDef
<1>3. \A n \in 1..len : f[n] = IF s[n] \in S THEN Append(f[n - 1], s[n]) ELSE f[n - 1]
  BY OnlyUpToDef
<1>. HIDE DEF t, len
<1>4. \A n \in 1..len + 1 : g[n] = IF t[n] \in S THEN Append(g[n - 1], t[n]) ELSE g[n - 1]
  <2>1. \A n \in 1..Len(t) : g[n] = IF t[n] \in S THEN Append(g[n - 1], t[n]) ELSE g[n - 1]
    <3>1. t \in Seq(T)
      BY <1>1
    <3>. QED BY <3>1, OnlyUpToDef
  <2>. QED BY <1>1, <2>1
<1>. HIDE DEF f, g
<1>5. 0 \in Ok
  BY <1>2
<1>6. ASSUME NEW m \in Ok \cap Nat
      PROVE  m + 1 \in Ok
  <2>. SUFFICES ASSUME m + 1 <= len
                PROVE  f[m + 1] = g[m + 1]
    OBVIOUS
  <2>1. m + 1 \in 1..len /\ m + 1 \in 1..len + 1 /\ (m + 1) - 1 = m /\ m <= len
    BY <1>1
  <2>2. f[m] = g[m]
    BY <2>1
  <2>. HIDE DEF Ok
  <2> DEFINE n == m + 1
  <2>3. n \in 1..len /\ n \in 1..len + 1 /\ n - 1 = m
    BY <2>1
  <2>. HIDE DEF n
  <2>4. f[n] = g[n]
    BY <1>1, <1>3, <1>4, <2>2, <2>3
  <2>. QED BY <2>4 DEF n
<1>7. f[len] = g[len]
  <2>1. Nat \subseteq Ok
    <3>. HIDE DEF Ok
    <3>. QED BY <1>5, <1>6, NumbersInduction
  <2>. QED BY <1>1, <2>1
<1>8. g[len + 1] = IF e \in S THEN Append(g[len], e) ELSE g[len]
  <2>1. len + 1 \in 1..len + 1 /\ (len + 1) - 1 = len
    BY <1>1
  <2>. QED BY <1>1, <1>4, <2>1
<1>9. Only(s, S) = f[len] /\ Only(t, S) = g[len + 1]
  BY <1>1 DEF Only, f, g, len
<1>. QED BY <1>7, <1>8, <1>9 DEF t

(* Selecting twice is selecting by both sets. *)
LEMMA OnlyOfOnly ==
    ASSUME NEW T, NEW s \in Seq(T), NEW S, NEW R
    PROVE  Only(Only(s, S), R) = Only(s, S \cap R)
<1> DEFINE Q == {q \in Seq(T) : Only(Only(q, S), R) = Only(q, S \cap R)}
<1>1. <<>> \in Q
  <2>1. <<>> \in Seq(T)
    BY EmptySeq
  <2>. QED BY <2>1, OnlyOfEmpty
<1>2. ASSUME NEW q \in Seq(T), q \in Q, NEW e \in T
      PROVE  Append(q, e) \in Q
  <2> DEFINE o == Only(q, S)
  <2>1. o \in Seq(T) /\ Append(q, e) \in Seq(T)
    BY OnlyType, AppendProperties
  <2>2. Only(Append(q, e), S) = IF e \in S THEN Append(o, e) ELSE o
    BY OnlyOfAppend
  <2>3. Only(Append(q, e), S \cap R) =
            IF e \in S \cap R THEN Append(Only(q, S \cap R), e) ELSE Only(q, S \cap R)
    BY OnlyOfAppend
  <2>4. Only(o, R) = Only(q, S \cap R)
    BY <1>2
  <2>. HIDE DEF o
  <2>5. Only(Append(o, e), R) = IF e \in R THEN Append(Only(o, R), e) ELSE Only(o, R)
    BY <2>1, OnlyOfAppend
  <2>6. Only(Only(Append(q, e), S), R) = Only(Append(q, e), S \cap R)
    <3>1. CASE e \in S
      <4>1. Only(Only(Append(q, e), S), R) = Only(Append(o, e), R)
        BY <2>2, <3>1
      <4>2. e \in S \cap R <=> e \in R
        BY <3>1
      <4>. QED BY <2>3, <2>4, <2>5, <4>1, <4>2
    <3>2. CASE e \notin S
      <4>1. Only(Append(q, e), S) = o /\ e \notin S \cap R
        BY <2>2, <3>2
      <4>. QED BY <2>3, <2>4, <4>1
    <3>. QED BY <3>1, <3>2
  <2>. QED BY <2>1, <2>6
<1>3. Seq(T) \subseteq Q
  <2>. HIDE DEF Q
  <2>. QED BY <1>1, <1>2, SequencesInduction
<1>. QED BY <1>3

(* Only the elements there are in s matter, and those selected are in S. *)
LEMMA OnlySame ==
    ASSUME NEW T, NEW s \in Seq(T), NEW S, NEW R, S \cap T = R \cap T
    PROVE  Only(s, S) = Only(s, R)
<1> DEFINE Q == {q \in Seq(T) : Only(q, S) = Only(q, R)}
<1>1. <<>> \in Q
  <2>1. <<>> \in Seq(T)
    BY EmptySeq
  <2>. QED BY <2>1, OnlyOfEmpty
<1>2. ASSUME NEW q \in Seq(T), q \in Q, NEW e \in T
      PROVE  Append(q, e) \in Q
  <2>1. Append(q, e) \in Seq(T) /\ (e \in S <=> e \in R)
    BY AppendProperties
  <2>2. Only(Append(q, e), S) = IF e \in S THEN Append(Only(q, S), e) ELSE Only(q, S)
    BY OnlyOfAppend
  <2>3. Only(Append(q, e), R) = IF e \in R THEN Append(Only(q, R), e) ELSE Only(q, R)
    BY OnlyOfAppend
  <2>. QED BY <1>2, <2>1, <2>2, <2>3
<1>3. Seq(T) \subseteq Q
  <2>. HIDE DEF Q
  <2>. QED BY <1>1, <1>2, SequencesInduction
<1>. QED BY <1>3

LEMMA OnlySelected ==
    ASSUME NEW T, NEW s \in Seq(T), NEW S
    PROVE  Only(s, S) \in Seq(T \cap S)
<1> DEFINE Q == {q \in Seq(T) : Only(q, S) \in Seq(T \cap S)}
<1>1. <<>> \in Q
  <2>1. <<>> \in Seq(T) /\ <<>> \in Seq(T \cap S)
    BY EmptySeq
  <2>. QED BY <2>1, OnlyOfEmpty
<1>2. ASSUME NEW q \in Seq(T), q \in Q, NEW e \in T
      PROVE  Append(q, e) \in Q
  <2>1. Append(q, e) \in Seq(T) /\ Only(q, S) \in Seq(T \cap S)
    BY <1>2, AppendProperties
  <2>2. Only(Append(q, e), S) = IF e \in S THEN Append(Only(q, S), e) ELSE Only(q, S)
    BY OnlyOfAppend
  <2>3. e \in S => Append(Only(q, S), e) \in Seq(T \cap S)
    BY <2>1, AppendProperties
  <2>. QED BY <2>1, <2>2, <2>3
<1>3. Seq(T) \subseteq Q
  <2>. HIDE DEF Q
  <2>. QED BY <1>1, <1>2, SequencesInduction
<1>. QED BY <1>3

LEMMA OnlyAll ==
    ASSUME NEW T, NEW s \in Seq(T)
    PROVE  Only(s, T) = s
<1> DEFINE Q == {q \in Seq(T) : Only(q, T) = q}
<1>1. <<>> \in Q
  <2>1. <<>> \in Seq(T)
    BY EmptySeq
  <2>. QED BY <2>1, OnlyOfEmpty
<1>2. ASSUME NEW q \in Seq(T), q \in Q, NEW e \in T
      PROVE  Append(q, e) \in Q
  <2>1. Append(q, e) \in Seq(T)
    BY AppendProperties
  <2>2. Only(Append(q, e), T) = IF e \in T THEN Append(Only(q, T), e) ELSE Only(q, T)
    BY OnlyOfAppend
  <2>. QED BY <1>2, <2>1, <2>2
<1>3. Seq(T) \subseteq Q
  <2>. HIDE DEF Q
  <2>. QED BY <1>1, <1>2, SequencesInduction
<1>. QED BY <1>3

LEMMA AppendMoves ==
    ASSUME NEW T, NEW a \in Seq(T), NEW b \in Seq(T), NEW e \in T
    PROVE  a \o Append(b, e) = Append(a \o b, e)
<1>1. a \o b \in Seq(T)
  BY ConcatProperties
<1>2. Append(b, e) = b \o <<e>> /\ Append(a \o b, e) = (a \o b) \o <<e>>
  BY <1>1, AppendIsConcat
<1>3. a \o (b \o <<e>>) = (a \o b) \o <<e>>
  BY ConcatAssociative
<1>. QED BY Zenon, <1>2, <1>3

LEMMA OnlyOfConcat ==
    ASSUME NEW T, NEW s \in Seq(T), NEW t \in Seq(T), NEW S
    PROVE  Only(s \o t, S) = Only(s, S) \o Only(t, S)
<1> DEFINE Q == {q \in Seq(T) : Only(s \o q, S) = Only(s, S) \o Only(q, S)}
           o == Only(s, S)
<1>1. o \in Seq(T)
  BY OnlyType
<1>2. <<>> \in Q
  <2>1. <<>> \in Seq(T)
    BY EmptySeq
  <2>2. s \o <<>> = s /\ o \o <<>> = o
    <3>. HIDE DEF o
    <3>. QED BY <1>1, ConcatEmptySeq
  <2>. QED BY <2>1, <2>2, OnlyOfEmpty
<1>3. ASSUME NEW q \in Seq(T), q \in Q, NEW e \in T
      PROVE  Append(q, e) \in Q
  <2> DEFINE p == Only(q, S)
             sq == s \o q
  <2>1. Append(q, e) \in Seq(T) /\ p \in Seq(T) /\ sq \in Seq(T) /\ <<e>> \in Seq(T)
    BY OnlyType, AppendProperties, ConcatProperties
  <2>2. Only(Append(q, e), S) = IF e \in S THEN Append(p, e) ELSE p
    BY OnlyOfAppend
  <2>3. s \o Append(q, e) = Append(sq, e)
    <3>1. Append(q, e) = q \o <<e>>
      BY AppendIsConcat
    <3>2. s \o (q \o <<e>>) = sq \o <<e>>
      BY <2>1, ConcatAssociative
    <3>. HIDE DEF sq
    <3>3. Append(sq, e) = sq \o <<e>>
      BY <2>1, AppendIsConcat
    <3>. QED BY <3>1, <3>2, <3>3
  <2>4. Only(sq, S) = o \o p
    BY <1>3
  <2>. HIDE DEF o, p, sq
  <2>5. o \o Append(p, e) = Append(o \o p, e)
    BY <1>1, <2>1, AppendMoves
  <2>6. Only(Append(sq, e), S) = IF e \in S THEN Append(Only(sq, S), e) ELSE Only(sq, S)
    BY <2>1, OnlyOfAppend
  <2>7. Only(s \o Append(q, e), S) = o \o Only(Append(q, e), S)
    BY <2>2, <2>3, <2>4, <2>5, <2>6
  <2>. QED BY <2>1, <2>7 DEF o
<1>4. Seq(T) \subseteq Q
  <2>. HIDE DEF Q
  <2>. QED BY <1>2, <1>3, SequencesInduction
<1>. QED BY <1>4

LEMMA StoreOnly == \A s, S : Store!Only(s, S) = Only(s, S)
BY DEF Store!Only, Only, Store!OnlyUpTo, OnlyUpTo
LEMMA ViewOnly == \A s, S : View!Only(s, S) = Only(s, S)
BY DEF View!Only, Only, View!OnlyUpTo, OnlyUpTo

-----------------------------------------------------------------------------
(*                       The sensors and the database                      *)
-----------------------------------------------------------------------------

UriSet == {s.uri : s \in Store!Sensor}
UrisIn(rs) == [i \in 1..Len(rs) |-> rs[i].uri]

(* The sensors whose row was read or inserted. *)
WithRow == {x \in Store!Listed : x.stored}

StoreInv ==
    /\ sensorsTable \in Seq(Store!Sensor)
    /\ sensors \in [Nodes -> Seq(Store!Listed)]
    /\ running /\ read =>
           \A i \in DOMAIN KnownNodes :
               UrisIn(Only(sensors[KnownNodes[i]], WithRow)) =
                   Store!UrisOf(Only(sensorsTable, Store!DeviceRows), KnownNodes[i])

LEMMA UrisInType ==
    ASSUME NEW T, NEW U, \A t \in T : t.uri \in U, NEW rs \in Seq(T)
    PROVE  UrisIn(rs) \in Seq(U) /\ Len(UrisIn(rs)) = Len(rs)
<1>1. Len(rs) \in Nat /\ \A i \in 1..Len(rs) : rs[i] \in T
  BY LenProperties, ElementOfSeq
<1>2. \A i \in 1..Len(rs) : rs[i].uri \in U
  BY <1>1
<1>. QED BY <1>1, <1>2 DEF UrisIn

LEMMA UrisInConcat ==
    ASSUME NEW T, NEW U, \A t \in T : t.uri \in U, NEW x \in Seq(T), NEW y \in Seq(T)
    PROVE  UrisIn(x \o y) = UrisIn(x) \o UrisIn(y)
<1> DEFINE a == UrisIn(x \o y)
           b == UrisIn(x) \o UrisIn(y)
<1>1. /\ x \o y \in Seq(T) /\ Len(x \o y) = Len(x) + Len(y)
      /\ Len(x) \in Nat /\ Len(y) \in Nat
      /\ \A i \in 1..Len(x) + Len(y) :
            (x \o y)[i] = IF i <= Len(x) THEN x[i] ELSE y[i - Len(x)]
  BY ConcatProperties, LenProperties
<1>2. /\ UrisIn(x) \in Seq(U) /\ Len(UrisIn(x)) = Len(x)
      /\ UrisIn(y) \in Seq(U) /\ Len(UrisIn(y)) = Len(y)
  BY UrisInType
<1>3. a \in Seq(U) /\ Len(a) = Len(x) + Len(y)
  BY <1>1, UrisInType
<1>4. /\ b \in Seq(U) /\ Len(b) = Len(x) + Len(y)
      /\ \A i \in 1..Len(x) + Len(y) :
            b[i] = IF i <= Len(x) THEN UrisIn(x)[i] ELSE UrisIn(y)[i - Len(x)]
  <2> DEFINE u == UrisIn(x)
             v == UrisIn(y)
  <2>. HIDE DEF u, v
  <2>1. u \in Seq(U) /\ v \in Seq(U) /\ Len(u) = Len(x) /\ Len(v) = Len(y)
    BY <1>2 DEF u, v
  <2>2. /\ u \o v \in Seq(U) /\ Len(u \o v) = Len(u) + Len(v)
        /\ \A i \in 1..Len(u) + Len(v) :
              (u \o v)[i] = IF i <= Len(u) THEN u[i] ELSE v[i - Len(u)]
    BY <2>1, ConcatProperties
  <2>. QED BY <2>1, <2>2 DEF u, v
<1>5. ASSUME NEW i \in 1..Len(x) + Len(y)
      PROVE  a[i] = b[i]
  <2>1. a[i] = (x \o y)[i].uri
    BY <1>1 DEF UrisIn
  <2>2. CASE i <= Len(x)
    <3>1. i \in 1..Len(x)
      BY <1>1, <2>2
    <3>2. UrisIn(x)[i] = x[i].uri
      BY <3>1 DEF UrisIn
    <3>. HIDE DEF a, b
    <3>. QED BY <1>1, <1>4, <2>1, <2>2, <3>2
  <2>3. CASE ~(i <= Len(x))
    <3> DEFINE l == i - Len(x)
    <3>1. l \in 1..Len(y)
      BY <1>1, <2>3
    <3>2. UrisIn(y)[l] = y[l].uri
      BY <3>1 DEF UrisIn
    <3>3. (x \o y)[i] = y[l]
      BY <1>1, <2>3
    <3>. HIDE DEF a, b
    <3>4. b[i] = UrisIn(y)[l]
      BY <1>4, <2>3
    <3>. QED BY <2>1, <3>2, <3>3, <3>4
  <2>. QED BY <2>2, <2>3
<1>. HIDE DEF a, b
<1>6. a = b
  BY <1>1, <1>3, <1>4, <1>5, SeqEqual
<1>. QED BY <1>6 DEF a, b

LEMMA UriOfRow == \A t \in Store!Sensor : t.uri \in UriSet
BY DEF UriSet

LEMMA UrisOfIs ==
    ASSUME NEW rs \in Seq(Store!Sensor), NEW a
    PROVE  /\ Store!UrisOf(rs, a) = UrisIn(Only(rs, Store!RowsOfNode(a)))
           /\ Store!UrisOf(rs, a) \in Seq(UriSet)
<1> DEFINE own == Only(rs, Store!RowsOfNode(a))
<1>1. own \in Seq(Store!Sensor)
  BY OnlyType
<1>2. DOMAIN own = 1..Len(own)
  BY <1>1, LenProperties
<1>3. Store!UrisOf(rs, a) = [i \in DOMAIN own |-> own[i].uri]
  BY StoreOnly DEF Store!UrisOf
<1>4. Store!UrisOf(rs, a) = UrisIn(own)
  <2>. HIDE DEF own
  <2>. QED BY <1>2, <1>3 DEF UrisIn
<1>5. UrisIn(own) \in Seq(UriSet)
  <2>. HIDE DEF own
  <2>. QED BY <1>1, UriOfRow, UrisInType
<1>. QED BY <1>4, <1>5

LEMMA UrisOfConcat ==
    ASSUME NEW x \in Seq(Store!Sensor), NEW y \in Seq(Store!Sensor), NEW a
    PROVE  Store!UrisOf(x \o y, a) = Store!UrisOf(x, a) \o Store!UrisOf(y, a)
<1> DEFINE S == Store!RowsOfNode(a)
<1>1. x \o y \in Seq(Store!Sensor)
  BY ConcatProperties
<1>2. Only(x, S) \in Seq(Store!Sensor) /\ Only(y, S) \in Seq(Store!Sensor)
  BY OnlyType
<1>3. Only(x \o y, S) = Only(x, S) \o Only(y, S)
  BY OnlyOfConcat
<1>4. /\ Store!UrisOf(x \o y, a) = UrisIn(Only(x \o y, S))
      /\ Store!UrisOf(x, a) = UrisIn(Only(x, S))
      /\ Store!UrisOf(y, a) = UrisIn(Only(y, S))
  BY <1>1, UrisOfIs
<1>. HIDE DEF S
<1>5. UrisIn(Only(x, S) \o Only(y, S)) = UrisIn(Only(x, S)) \o UrisIn(Only(y, S))
  BY <1>2, UriOfRow, UrisInConcat
<1>. QED BY <1>3, <1>4, <1>5

(* The sensors loaded are, for each node that was read, those of the table. *)
LEMMA LoadedIsTable ==
    ASSUME NEW table \in Seq(Store!Sensor), NEW known, NEW i \in DOMAIN known
    PROVE  Store!UrisOf(Store!Loaded(table, known), known[i]) =
               Store!UrisOf(Only(table, Store!DeviceRows), known[i])
<1> DEFINE k == known[i]
           D == Store!DeviceRows
           K == {row \in D : Store!Contained(known, row.addr)}
           N == Store!RowsOfNode(k)
<1>1. Store!Loaded(table, known) = Only(table, K)
  BY StoreOnly DEF Store!Loaded
<1>2. Only(table, K) \in Seq(Store!Sensor) /\ Only(table, D) \in Seq(Store!Sensor)
  BY OnlyType
<1>3. K \cap N = D \cap N
  BY DEF Store!RowsOfNode, Store!Contained
<1>. HIDE DEF D, K, N
<1>4. Only(Only(table, K), N) = Only(Only(table, D), N)
  <2>1. Only(Only(table, K), N) = Only(table, K \cap N)
    BY OnlyOfOnly
  <2>2. Only(Only(table, D), N) = Only(table, D \cap N)
    BY OnlyOfOnly
  <2>. QED BY <1>3, <2>1, <2>2
<1>5. Store!UrisOf(Only(table, K), k) = Store!UrisOf(Only(table, D), k)
  BY <1>2, <1>4, UrisOfIs DEF N
<1>. QED BY <1>1, <1>2, <1>5 DEF D

LEMMA LoadedType ==
    ASSUME NEW table \in Seq(Store!Sensor), NEW known
    PROVE  Store!Loaded(table, known) \in Seq(Store!Sensor)
<1>1. Store!Loaded(table, known) =
          Only(table, {row \in Store!DeviceRows : Store!Contained(known, row.addr)})
  BY StoreOnly DEF Store!Loaded
<1>. QED BY <1>1, OnlyType

(* What is appended with the rows ok, and the uris that have one. *)
LEMMA WithRowsType ==
    ASSUME NEW U, U \subseteq UriSet, NEW uris \in Seq(U), NEW ok \in SUBSET DOMAIN uris
    PROVE  /\ Store!WithRows(uris, ok) \in Seq([uri : U, stored : BOOLEAN])
           /\ Store!WithRows(uris, ok) \in Seq(Store!Listed)
           /\ Len(Store!WithRows(uris, ok)) = Len(uris)
<1>1. Len(uris) \in Nat /\ DOMAIN uris = 1..Len(uris) /\ \A i \in 1..Len(uris) : uris[i] \in U
  BY LenProperties, ElementOfSeq
<1>2. \A i \in 1..Len(uris) : /\ [uri |-> uris[i], stored |-> i \in ok] \in [uri : U, stored : BOOLEAN]
                              /\ [uri |-> uris[i], stored |-> i \in ok] \in Store!Listed
  BY <1>1 DEF Store!Listed, UriSet
<1>3. Store!WithRows(uris, ok) = [i \in 1..Len(uris) |-> [uri |-> uris[i], stored |-> i \in ok]]
  BY <1>1 DEF Store!WithRows
<1>. QED BY <1>1, <1>2, <1>3

LEMMA UriOfListed == \A t \in Store!Listed : t.uri \in UriSet
BY DEF Store!Listed, UriSet

LEMMA StoredOfIs ==
    ASSUME NEW l \in Seq(Store!Listed)
    PROVE  /\ Store!StoredOf(l) = UrisIn(Only(l, WithRow))
           /\ Store!StoredOf(l) \in Seq(UriSet)
<1> DEFINE kept == Only(l, WithRow)
<1>1. kept \in Seq(Store!Listed)
  BY OnlyType
<1>2. DOMAIN kept = 1..Len(kept)
  BY <1>1, LenProperties
<1>3. Store!StoredOf(l) = [i \in DOMAIN kept |-> kept[i].uri]
  BY StoreOnly DEF Store!StoredOf, WithRow
<1>. HIDE DEF kept
<1>4. Store!StoredOf(l) = UrisIn(kept)
  BY <1>2, <1>3 DEF UrisIn
<1>5. UrisIn(kept) \in Seq(UriSet)
  BY <1>1, UriOfListed, UrisInType
<1>. QED BY <1>4, <1>5 DEF kept

LEMMA StoredOfConcat ==
    ASSUME NEW l \in Seq(Store!Listed), NEW m \in Seq(Store!Listed)
    PROVE  Store!StoredOf(l \o m) = Store!StoredOf(l) \o Store!StoredOf(m)
<1>1. l \o m \in Seq(Store!Listed)
  BY ConcatProperties
<1>2. Only(l, WithRow) \in Seq(Store!Listed) /\ Only(m, WithRow) \in Seq(Store!Listed)
  BY OnlyType
<1>3. Only(l \o m, WithRow) = Only(l, WithRow) \o Only(m, WithRow)
  BY OnlyOfConcat
<1>4. UrisIn(Only(l, WithRow) \o Only(m, WithRow))
          = UrisIn(Only(l, WithRow)) \o UrisIn(Only(m, WithRow))
  BY <1>2, UriOfListed, UrisInConcat
<1>. QED BY <1>1, <1>3, <1>4, StoredOfIs

(* When every row was read, the uris that have a row are all of them. *)
LEMMA StoredOfAll ==
    ASSUME NEW uris \in Seq(UriSet)
    PROVE  Store!StoredOf(Store!WithRows(uris, DOMAIN uris)) = uris
<1> DEFINE l == Store!WithRows(uris, DOMAIN uris)
<1>1. l \in Seq(Store!Listed) /\ Len(l) = Len(uris)
  BY WithRowsType
<1>2. Len(uris) \in Nat /\ DOMAIN uris = 1..Len(uris) /\ \A i \in 1..Len(uris) : uris[i] \in UriSet
  BY LenProperties, ElementOfSeq
<1>3. \A i \in 1..Len(uris) : l[i] = [uri |-> uris[i], stored |-> TRUE]
  BY <1>2 DEF Store!WithRows
<1>. HIDE DEF l
<1>4. \A i \in 1..Len(l) : l[i] \in WithRow
  <2>. SUFFICES ASSUME NEW i \in 1..Len(l)
                PROVE  l[i] \in WithRow
    OBVIOUS
  <2>1. i \in 1..Len(uris) /\ uris[i] \in UriSet /\ l[i] = [uri |-> uris[i], stored |-> TRUE]
    BY <1>1, <1>2, <1>3
  <2>2. l[i] \in Store!Listed /\ l[i].stored
    BY <2>1 DEF Store!Listed, UriSet
  <2>. QED BY <2>2 DEF WithRow
<1>5. l \in Seq(WithRow)
  <2>1. l \in [1..Len(l) -> Store!Listed] /\ Len(l) \in Nat
    BY <1>1, LenProperties
  <2>2. l \in [1..Len(l) -> WithRow]
    BY <1>4, <2>1
  <2>. QED BY <2>1, <2>2
<1>6. Only(l, WithRow) = l
  BY <1>5, OnlyAll
<1>7. UrisIn(l) = uris
  <2>1. UrisIn(l) \in Seq(UriSet) /\ Len(UrisIn(l)) = Len(uris)
    BY <1>1, UriOfListed, UrisInType
  <2>2. \A i \in 1..Len(uris) : UrisIn(l)[i] = uris[i]
    <3>. SUFFICES ASSUME NEW i \in 1..Len(uris)
                  PROVE  UrisIn(l)[i] = uris[i]
      OBVIOUS
    <3>1. i \in 1..Len(l)
      BY <1>1
    <3>2. l[i] = [uri |-> uris[i], stored |-> TRUE]
      BY <1>3
    <3>3. l[i].uri = uris[i]
      BY ONLY <3>2
    <3>. QED BY <3>1, <3>3 DEF UrisIn
  <2>. QED BY <2>1, <2>2, SeqEqual
<1>. QED BY <1>1, <1>6, <1>7, StoredOfIs DEF l

(* The rows of one node's devices are all rows of devices, all of this     *)
(* node and of no other.                                                   *)
DeviceUris(a) == {row.uri : row \in Store!DeviceRows \cap Store!RowsOfNode(a)}

LEMMA RowsForAre ==
    ASSUME NEW a \in Nodes, NEW u \in Seq(DeviceUris(a))
    PROVE  /\ Store!RowsFor(a, u) \in Seq(Store!Sensor)
           /\ Only(Store!RowsFor(a, u), Store!DeviceRows) = Store!RowsFor(a, u)
           /\ Store!UrisOf(Store!RowsFor(a, u), a) = u
           /\ \A k \in Nodes : k # a => Store!UrisOf(Store!RowsFor(a, u), k) = <<>>
<1> DEFINE ofNode == Store!RowsFor(a, u)
           D == Store!DeviceRows
           R == Store!RowsOfNode(a)
<1>1. Len(u) \in Nat /\ DOMAIN u = 1..Len(u) /\ \A i \in 1..Len(u) : u[i] \in DeviceUris(a)
  BY LenProperties, ElementOfSeq
<1>2. ofNode = [i \in 1..Len(u) |-> [addr |-> a, uri |-> u[i]]]
  BY <1>1 DEF Store!RowsFor
<1>3. \A i \in 1..Len(u) : [addr |-> a, uri |-> u[i]] \in D \cap R
  BY <1>1 DEF DeviceUris, Store!DeviceRows, Store!RowsOfNode, Store!Sensor
<1>4. D \cap R \subseteq Store!Sensor /\ D \cap R \subseteq D /\ D \cap R \subseteq R
  BY DEF Store!DeviceRows
<1>. HIDE DEF ofNode, D, R
<1>5. ofNode \in Seq(D \cap R) /\ Len(ofNode) = Len(u)
  <2>1. [i \in 1..Len(u) |-> [addr |-> a, uri |-> u[i]]] \in Seq(D \cap R)
    BY <1>1, <1>3, IsASeq
  <2>2. DOMAIN ofNode = 1..Len(u) /\ DOMAIN ofNode = 1..Len(ofNode) /\ Len(ofNode) \in Nat
    BY <1>2, <2>1, LenProperties
  <2>. QED BY <1>1, <1>2, <2>1, <2>2
<1>6. ofNode \in Seq(Store!Sensor) /\ ofNode \in Seq(D) /\ ofNode \in Seq(R)
  BY <1>4, <1>5, SeqMonotonic
<1>7. Only(ofNode, D) = ofNode
  BY <1>6, OnlyAll
<1>8. Store!UrisOf(ofNode, a) = u
  <2>1. Only(ofNode, R) = ofNode
    BY <1>6, OnlyAll
  <2>2. Store!UrisOf(ofNode, a) = UrisIn(ofNode)
    BY <1>6, <2>1, UrisOfIs DEF R
  <2>3. UrisIn(ofNode) = [i \in 1..Len(u) |-> u[i]]
    BY <1>2, <1>5 DEF UrisIn
  <2>. QED BY <1>1, <2>2, <2>3
<1>9. ASSUME NEW k \in Nodes, k # a
      PROVE  Store!UrisOf(ofNode, k) = <<>>
  <2> DEFINE N == Store!RowsOfNode(k)
             own == Only(ofNode, N)
  <2>1. own \in Seq(R \cap N)
    BY <1>6, OnlySelected
  <2>2. R \cap N = {}
    BY <1>9 DEF R, Store!RowsOfNode
  <2>. HIDE DEF N, own
  <2>3. own = <<>>
    <3>1. own \in Seq({})
      BY <2>1, <2>2
    <3>2. Len(own) = 0
      <4>1. Len(own) \in Nat /\ \A i \in 1..Len(own) : own[i] \in {}
        BY <3>1, LenProperties, ElementOfSeq
      <4>2. Len(own) # 0 => 1 \in 1..Len(own)
        BY <4>1
      <4>. QED BY <4>1, <4>2
    <3>. QED BY <3>1, <3>2, EmptySeq
  <2>4. Store!UrisOf(ofNode, k) = UrisIn(own)
    BY <1>6, UrisOfIs DEF own, N
  <2>5. UrisIn(<<>>) = <<>>
    BY DEF UrisIn
  <2>. QED BY <2>3, <2>4, <2>5
<1>. QED BY <1>6, <1>7, <1>8, <1>9 DEF ofNode, D

(* The links of a node that are taken are uris of its devices. *)
LEMMA LinksAreUris ==
    ASSUME Tables, NEW a \in Nodes
    PROVE  Store!Links(a) \in Seq(DeviceUris(a)) /\ DeviceUris(a) \subseteq UriSet
<1> DEFINE pub == Store!RowsFor(a, Published[a])
           D == Store!DeviceRows
           R == Store!RowsOfNode(a)
<1>1. pub \in Seq(R)
  <2>1. Published[a] \in Seq(STRING)
    BY DEF Tables
  <2>2. DOMAIN Published[a] = 1..Len(Published[a]) /\ Len(Published[a]) \in Nat
    BY <2>1, LenProperties
  <2>3. \A i \in 1..Len(Published[a]) : [addr |-> a, uri |-> Published[a][i]] \in R
    BY <2>2 DEF Store!RowsOfNode, Store!Sensor
  <2>4. pub = [i \in 1..Len(Published[a]) |-> [addr |-> a, uri |-> Published[a][i]]]
    BY <2>2 DEF Store!RowsFor
  <2>. HIDE DEF R, pub
  <2>5. [i \in 1..Len(Published[a]) |-> [addr |-> a, uri |-> Published[a][i]]] \in Seq(R)
    BY <2>2, <2>3, IsASeq
  <2>. QED BY <2>4, <2>5
<1>2. R \subseteq Store!Sensor /\ D \cap R \subseteq Store!Sensor
  BY DEF Store!RowsOfNode
<1>3. Store!Links(a) = Store!UrisOf(Only(pub, D), a)
  BY StoreOnly DEF Store!Links
<1>4. \A t \in R \cap D : t.uri \in DeviceUris(a)
  BY DEF DeviceUris
<1>5. \A t \in (R \cap D) \cap R : t.uri \in DeviceUris(a)
  BY <1>4
<1>6. DeviceUris(a) \subseteq UriSet
  BY <1>2 DEF DeviceUris, UriSet
<1>. HIDE DEF pub, R, D
<1>7. Only(pub, D) \in Seq(R \cap D)
  BY <1>1, OnlySelected
<1>8. Only(pub, D) \in Seq(Store!Sensor)
  <2>1. R \cap D \subseteq Store!Sensor
    BY <1>2
  <2>. QED BY <1>7, <2>1, SeqMonotonic
<1>9. Store!UrisOf(Only(pub, D), a) = UrisIn(Only(Only(pub, D), R))
  BY <1>8, UrisOfIs DEF R
<1>10. Only(Only(pub, D), R) \in Seq((R \cap D) \cap R)
  BY <1>7, OnlySelected
<1>11. UrisIn(Only(Only(pub, D), R)) \in Seq(DeviceUris(a))
  BY <1>5, <1>10, UrisInType
<1>. QED BY <1>3, <1>6, <1>9, <1>11

(* What is stored of uris of a node's devices is some of them. *)
LEMMA StoredAmong ==
    ASSUME NEW a \in Nodes, DeviceUris(a) \subseteq UriSet,
           NEW uris \in Seq(DeviceUris(a)), NEW ok \in SUBSET DOMAIN uris
    PROVE  Store!StoredOf(Store!WithRows(uris, ok)) \in Seq(DeviceUris(a))
<1> DEFINE l == Store!WithRows(uris, ok)
           T == [uri : DeviceUris(a), stored : BOOLEAN]
<1>1. l \in Seq(T) /\ l \in Seq(Store!Listed)
  BY WithRowsType
<1>2. \A t \in T : t.uri \in DeviceUris(a)
  OBVIOUS
<1>. HIDE DEF l, T
<1>3. Only(l, WithRow) \in Seq(T)
  BY <1>1, OnlyType
<1>4. UrisIn(Only(l, WithRow)) \in Seq(DeviceUris(a))
  BY <1>2, <1>3, UrisInType
<1>5. Store!StoredOf(l) = UrisIn(Only(l, WithRow))
  BY <1>1, StoredOfIs
<1>. QED BY <1>4, <1>5 DEF l

LEMMA DestinationIsSensor == ASSUME Tables PROVE \A d \in Destinations : d \in Store!Sensor
<1>. SUFFICES ASSUME NEW d \in Destinations
              PROVE  d \in Store!Sensor
  OBVIOUS
<1>1. d \in [addr : Nodes, uri : STRING]
  BY DEF Tables
<1>2. d = [addr |-> d.addr, uri |-> d.uri] /\ d.addr \in Nodes
  BY <1>1
<1>. QED BY <1>2 DEF Store!Sensor

LEMMA InitStoreInv == ASSUME Store!Init PROVE StoreInv
<1>1. sensorsTable = <<>> /\ ~running /\ sensors = [a \in Nodes |-> <<>>]
  BY DEF Store!Init
<1>2. <<>> \in Seq(Store!Sensor) /\ <<>> \in Seq(Store!Listed)
  BY EmptySeq
<1>. QED BY <1>1, <1>2 DEF StoreInv

(* The GUI starts with the tables it could read. *)
LEMMA StartIs ==
    ASSUME Tables, sensorsTable \in Seq(Store!Sensor), Store!Start
    PROVE  \E known \in Seq(Nodes), table \in Seq(Store!Sensor) :
               /\ Store!StartWith(known, Store!Loaded(table, known))
               /\ Store!Loaded(table, known) \in Seq(Store!Sensor)
               /\ read' \in BOOLEAN /\ sensorsTable' = sensorsTable
               /\ read' => known = KnownNodes /\ table = sensorsTable
<1>1. PICK nodesRead \in BOOLEAN, sensorsRead \in BOOLEAN :
          /\ Store!StartWith(IF nodesRead THEN KnownNodes ELSE <<>>,
                 Store!Loaded(IF sensorsRead THEN sensorsTable ELSE <<>>,
                              IF nodesRead THEN KnownNodes ELSE <<>>))
          /\ read' = (nodesRead /\ sensorsRead) /\ sensorsTable' = sensorsTable
  BY DEF Store!Start
<1> DEFINE known == IF nodesRead THEN KnownNodes ELSE <<>>
           table == IF sensorsRead THEN sensorsTable ELSE <<>>
<1>2. known \in Seq(Nodes) /\ table \in Seq(Store!Sensor)
  <2>1. KnownNodes \in Seq(Nodes)
    BY DEF Tables
  <2>2. <<>> \in Seq(Nodes) /\ <<>> \in Seq(Store!Sensor)
    BY EmptySeq
  <2>. QED BY <2>1, <2>2
<1>3. read' => known = KnownNodes /\ table = sensorsTable
  BY <1>1
<1>4. Store!StartWith(known, Store!Loaded(table, known)) /\ read' \in BOOLEAN
  BY <1>1
<1>. HIDE DEF known, table
<1>5. Store!Loaded(table, known) \in Seq(Store!Sensor)
  BY <1>2, LoadedType
<1>. QED BY <1>1, <1>2, <1>3, <1>4, <1>5

LEMMA StepStoreInv ==
    ASSUME Tables, StoreInv, [Store!Next]_(Store!storeVars)
    PROVE  StoreInv'
<1> DEFINE D == Store!DeviceRows
<1>1. /\ sensorsTable \in Seq(Store!Sensor)
      /\ sensors \in [Nodes -> Seq(Store!Listed)]
      /\ running /\ read =>
             \A i \in DOMAIN KnownNodes :
                 UrisIn(Only(sensors[KnownNodes[i]], WithRow)) =
                     Store!UrisOf(Only(sensorsTable, D), KnownNodes[i])
  BY DEF StoreInv
<1>2. \A i \in DOMAIN KnownNodes : KnownNodes[i] \in Nodes
  BY DEF Tables
<1>3. <<>> \in Seq(Store!Listed)
  BY EmptySeq
<1>4. ASSUME UNCHANGED <<sensorsTable, sensors, read>>, running' => running
      PROVE  StoreInv'
  BY <1>1, <1>4 DEF StoreInv
<1>5. ASSUME Store!Forget, sensorsTable' \in Seq(Store!Sensor)
      PROVE  StoreInv'
  <2>1. sensors' = [a \in Nodes |-> <<>>] /\ ~running'
    BY <1>5 DEF Store!Forget
  <2>. QED BY <1>3, <1>5, <2>1 DEF StoreInv
<1>6. CASE Store!Start
  <2>1. PICK known \in Seq(Nodes), table \in Seq(Store!Sensor) :
            /\ Store!StartWith(known, Store!Loaded(table, known))
            /\ Store!Loaded(table, known) \in Seq(Store!Sensor)
            /\ sensorsTable' = sensorsTable
            /\ read' => known = KnownNodes /\ table = sensorsTable
    BY <1>1, <1>6, StartIs
  <2> DEFINE loaded == Store!Loaded(table, known)
             shown(a) == Store!UrisOf(loaded, a)
  <2>2. loaded \in Seq(Store!Sensor) /\ \A a \in Nodes : shown(a) \in Seq(UriSet)
    BY <2>1, UrisOfIs
  <2>3. sensors' = [a \in Nodes |-> Store!WithRows(shown(a), DOMAIN shown(a))]
    BY <2>1 DEF Store!StartWith
  <2>4. ASSUME NEW a \in Nodes
        PROVE  /\ Store!WithRows(shown(a), DOMAIN shown(a)) \in Seq(Store!Listed)
               /\ UrisIn(Only(Store!WithRows(shown(a), DOMAIN shown(a)), WithRow)) = shown(a)
    <3> DEFINE u == shown(a)
    <3>1. u \in Seq(UriSet)
      BY <2>2
    <3>. HIDE DEF u
    <3>2. Store!WithRows(u, DOMAIN u) \in Seq(Store!Listed)
      BY <3>1, WithRowsType
    <3>3. UrisIn(Only(Store!WithRows(u, DOMAIN u), WithRow)) = u
      BY <3>1, <3>2, StoredOfIs, StoredOfAll
    <3>. QED BY <3>2, <3>3 DEF u
  <2>5. ASSUME read', NEW i \in DOMAIN KnownNodes
        PROVE  UrisIn(Only(sensors'[KnownNodes[i]], WithRow)) =
                   Store!UrisOf(Only(sensorsTable, D), KnownNodes[i])
    <3>1. KnownNodes[i] \in Nodes /\ known = KnownNodes /\ table = sensorsTable
      BY <1>2, <2>1, <2>5
    <3>2. shown(KnownNodes[i]) = Store!UrisOf(Only(sensorsTable, D), KnownNodes[i])
      BY <1>1, <3>1, LoadedIsTable
    <3>. HIDE DEF loaded, D
    <3>. QED BY <2>3, <2>4, <3>1, <3>2
  <2>6. sensors' \in [Nodes -> Seq(Store!Listed)]
    <3>. HIDE DEF shown
    <3>. QED BY <2>3, <2>4
  <2>. QED BY <1>1, <2>1, <2>5, <2>6 DEF StoreInv
<1>7. CASE Store!Quit
  BY <1>1, <1>5, <1>7 DEF Store!Quit
<1>8. ASSUME NEW a \in Nodes, Store!parseAppLinkFormat(a)
      PROVE  StoreInv'
  <2> DEFINE L == Store!Links(a)
  <2>1. PICK ok \in SUBSET DOMAIN L :
        /\ sensors' = [sensors EXCEPT ![a] = @ \o Store!WithRows(L, ok)]
        /\ sensorsTable' = sensorsTable \o Store!RowsFor(a, Store!StoredOf(Store!WithRows(L, ok)))
    BY <1>8 DEF Store!parseAppLinkFormat
  <2>2. running /\ read' = read
    BY <1>8 DEF Store!parseAppLinkFormat
  <2> DEFINE m == Store!WithRows(L, ok)
             u == Store!StoredOf(m)
             R == Store!RowsFor(a, u)
  <2>3. L \in Seq(DeviceUris(a)) /\ DeviceUris(a) \subseteq UriSet
    BY LinksAreUris
  <2>. HIDE DEF L
  <2>4. m \in Seq(Store!Listed) /\ u \in Seq(DeviceUris(a))
    BY <2>3, WithRowsType, StoredAmong
  <2>5. sensors' = [sensors EXCEPT ![a] = @ \o m] /\ sensorsTable' = sensorsTable \o R
    BY <2>1
  <2>. HIDE DEF m
  <2>6. UrisIn(Only(m, WithRow)) = u
    BY <2>4, StoredOfIs
  <2>. HIDE DEF u
  <2>7. /\ R \in Seq(Store!Sensor) /\ Only(R, D) = R /\ Store!UrisOf(R, a) = u
        /\ \A k \in Nodes : k # a => Store!UrisOf(R, k) = <<>>
    BY <2>4, RowsForAre
  <2>. HIDE DEF R, D
  <2>8. sensorsTable \o R \in Seq(Store!Sensor)
    BY <1>1, <2>7, ConcatProperties
  <2>9. sensors[a] \in Seq(Store!Listed) /\ sensors[a] \o m \in Seq(Store!Listed)
    <3>1. sensors[a] \in Seq(Store!Listed)
      BY <1>1
    <3>. QED BY <2>4, <3>1, ConcatProperties
  <2>10. sensors' \in [Nodes -> Seq(Store!Listed)]
    BY <1>1, <2>5, <2>9
  <2>11. Only(sensorsTable \o R, D) = Only(sensorsTable, D) \o R
    <3>1. Only(sensorsTable \o R, D) = Only(sensorsTable, D) \o Only(R, D)
      <4>1. sensorsTable \in Seq(Store!Sensor) /\ R \in Seq(Store!Sensor)
        BY <1>1, <2>7
      <4>. QED BY <4>1, OnlyOfConcat
    <3>. QED BY <2>7, <3>1
  <2>12. Only(sensorsTable, D) \in Seq(Store!Sensor)
    BY <1>1, OnlyType
  <2>13. ASSUME read, NEW i \in DOMAIN KnownNodes
         PROVE  UrisIn(Only(sensors'[KnownNodes[i]], WithRow)) =
                    Store!UrisOf(Only(sensorsTable \o R, D), KnownNodes[i])
    <3> DEFINE k == KnownNodes[i]
               shown == Store!UrisOf(Only(sensorsTable, D), k)
    <3>1. k \in Nodes /\ UrisIn(Only(sensors[k], WithRow)) = shown
      BY <1>1, <1>2, <2>2, <2>13
    <3>2. Store!UrisOf(Only(sensorsTable, D) \o R, k) = shown \o Store!UrisOf(R, k)
      BY <2>7, <2>12, UrisOfConcat
    <3>3. CASE k = a
      <4>1. sensors'[k] = sensors[k] \o m
        BY <1>1, <2>5, <3>1, <3>3
      <4>2. UrisIn(Only(sensors[k] \o m, WithRow)) = UrisIn(Only(sensors[k], WithRow)) \o u
        BY <2>4, <2>6, <2>9, <3>3, StoredOfConcat, StoredOfIs, ConcatProperties
      <4>3. Store!UrisOf(R, k) = u
        BY <2>7, <3>3
      <4>. HIDE DEF shown, k
      <4>4. UrisIn(Only(sensors'[k], WithRow)) = shown \o u
        BY <3>1, <4>1, <4>2
      <4>5. Store!UrisOf(Only(sensorsTable, D) \o R, k) = shown \o u
        BY <3>2, <4>3
      <4>. QED BY <2>11, <4>4, <4>5 DEF k
    <3>4. CASE k # a
      <4>1. sensors'[k] = sensors[k]
        BY <1>1, <2>5, <3>1, <3>4
      <4>2. shown \in Seq(UriSet) /\ shown \o <<>> = shown
        <5>1. shown \in Seq(UriSet)
          BY <2>12, UrisOfIs
        <5>. HIDE DEF shown
        <5>. QED BY <5>1, ConcatEmptySeq
      <4>3. Store!UrisOf(R, k) = <<>>
        BY <2>7, <3>1, <3>4
      <4>. HIDE DEF shown, k
      <4>4. Store!UrisOf(Only(sensorsTable, D) \o R, k) = shown
        BY <3>2, <4>2, <4>3
      <4>. QED BY <2>11, <3>1, <4>1, <4>4 DEF k
    <3>. QED BY <3>3, <3>4
  <2>. QED BY <2>2, <2>5, <2>8, <2>10, <2>13 DEF StoreInv, D
<1>9. ASSUME NEW d \in Destinations, Store!UnknownDestination(d)
      PROVE  StoreInv'
  <2>1. Append(sensorsTable, d) \in Seq(Store!Sensor)
    BY <1>1, DestinationIsSensor, AppendProperties
  <2>2. CASE sensorsTable' = Append(sensorsTable, d) /\ Store!Forget
    BY <1>5, <2>1, <2>2
  <2>3. CASE UNCHANGED <<sensorsTable, sensors, read, running>>
    BY <1>4, <2>3
  <2>. QED BY <1>9, <2>2, <2>3 DEF Store!UnknownDestination
<1>10. ASSUME NEW a \in Nodes,
              \/ Store!createNode(a) \/ Store!Reported(a)
              \/ Store!requestLinks(a) \/ Store!nodeNotResponding(a)
       PROVE  StoreInv'
  BY <1>4, <1>10 DEF Store!createNode, Store!Reported, Store!requestLinks,
                     Store!nodeNotResponding
<1>11. CASE UNCHANGED Store!storeVars
  BY <1>4, <1>11 DEF Store!storeVars, Store!volatileVars
<1>. QED
  BY <1>6, <1>7, <1>8, <1>9, <1>10, <1>11 DEF Store!Next

(* While a GUI runs that could read its database, the sensors it shows of  *)
(* a node from the database are the rows the database has of it and, among *)
(* them, those whose insert failed: for any tables and any links, whichever*)
(* inserts and readings fail, over any number of restarts                  *)
(* (sensorsunleashed::updateDB, database::insert).                         *)
THEOREM SensorsAreThoseStored == ASSUME Tables PROVE Store!Spec => []Store!RowsAreShown
<1>1. ASSUME Tables, StoreInv
      PROVE  Store!RowsAreShown
  <2>1. ASSUME NEW i \in DOMAIN KnownNodes
        PROVE  Store!StoredOf(sensors[KnownNodes[i]]) =
                   UrisIn(Only(sensors[KnownNodes[i]], WithRow))
    <3>1. KnownNodes[i] \in Nodes
      BY <1>1 DEF Tables
    <3>2. sensors[KnownNodes[i]] \in Seq(Store!Listed)
      BY <1>1, <3>1 DEF StoreInv
    <3>. QED BY <3>2, StoredOfIs
  <2>. QED BY <1>1, <2>1, StoreOnly DEF StoreInv, Store!RowsAreShown
<1>2. Store!Init => StoreInv
  BY InitStoreInv
<1>3. StoreInv /\ [Store!Next]_(Store!storeVars) => StoreInv'
  BY StepStoreInv
<1>4. StoreInv => Store!RowsAreShown
  BY <1>1
<1>. QED BY <1>2, <1>3, <1>4, PTL DEF Store!Spec

(* The rest of what the lists hold.                                        *)
StoreLists ==
    /\ running \in BOOLEAN /\ read \in BOOLEAN
    /\ nodes \in Seq(Nodes) /\ allsensors \in Seq(Store!Sensor)
    /\ nodesmodel \in Seq([addr : Nodes, seen : BOOLEAN]) /\ links \in [Nodes -> Nat]

LEMMA SeenRow ==
    ASSUME NEW l \in Seq([addr : Nodes, seen : BOOLEAN]), NEW a \in Nodes
    PROVE  Store!UpdatedWith(l, a) \in Seq([addr : Nodes, seen : BOOLEAN])
<1> DEFINE T == [addr : Nodes, seen : BOOLEAN]
<1>1. Append(l, [addr |-> a, seen |-> FALSE]) \in Seq(T)
  BY AppendProperties
<1>2. \A k \in DOMAIN l : [l EXCEPT ![k].seen = TRUE] \in Seq(T)
  <2>. SUFFICES ASSUME NEW k \in DOMAIN l
                PROVE  [l EXCEPT ![k].seen = TRUE] \in Seq(T)
    OBVIOUS
  <2>1. l[k] \in T
    <3>1. k \in 1..Len(l)
      BY LenProperties
    <3>. QED BY <3>1, ElementOfSeq
  <2>2. [l[k] EXCEPT !.seen = TRUE] \in T
    BY <2>1
  <2>. QED BY <2>2, ExceptSeq
<1>3. ASSUME NEW k \in DOMAIN l, l[k].addr = a
      PROVE  \E n \in DOMAIN l : l[n].addr = a /\ \A j \in 1..(n - 1) : l[j].addr # a
  <2> DEFINE S == {n \in 1..Len(l) : l[n].addr = a}
  <2>1. S \in SUBSET Nat /\ k \in S
    BY <1>3, LenProperties
  <2>2. PICK n \in S : \A y \in S : n <= y
    BY <2>1, LeastNumber
  <2>3. n \in DOMAIN l /\ l[n].addr = a
    BY <2>2, LenProperties
  <2>4. ASSUME NEW j \in 1..(n - 1)
        PROVE  l[j].addr # a
    <3>1. j \in 1..Len(l) /\ ~(n <= j)
      BY <2>2, LenProperties
    <3>. QED BY <2>2, <3>1
  <2>. QED BY <2>3, <2>4
<1>4. CASE \E k \in DOMAIN l : l[k].addr = a
  <2> DEFINE first == CHOOSE n \in DOMAIN l : l[n].addr = a /\ \A j \in 1..(n - 1) : l[j].addr # a
  <2>1. first \in DOMAIN l
    BY <1>3, <1>4
  <2>2. Store!UpdatedWith(l, a) = [l EXCEPT ![first].seen = TRUE]
    BY <1>4 DEF Store!UpdatedWith
  <2>. HIDE DEF first
  <2>. QED BY <1>2, <2>1, <2>2
<1>5. CASE ~\E k \in DOMAIN l : l[k].addr = a
  BY <1>1, <1>5, Zenon DEF Store!UpdatedWith
<1>. QED BY <1>4, <1>5

LEMMA StepStoreLists ==
    ASSUME Tables, StoreInv, StoreLists, [Store!Next]_(Store!storeVars)
    PROVE  StoreLists'
<1> DEFINE T == [addr : Nodes, seen : BOOLEAN]
<1>1. /\ running \in BOOLEAN /\ read \in BOOLEAN
      /\ nodes \in Seq(Nodes) /\ allsensors \in Seq(Store!Sensor)
      /\ nodesmodel \in Seq(T) /\ links \in [Nodes -> Nat]
      /\ sensorsTable \in Seq(Store!Sensor)
  BY DEF StoreLists, StoreInv
<1>2. ASSUME Store!Forget
      PROVE  StoreLists'
  BY <1>2, EmptySeq DEF StoreLists, Store!Forget
<1>3. CASE Store!Start
  <2>1. PICK known \in Seq(Nodes), table \in Seq(Store!Sensor) :
            /\ Store!StartWith(known, Store!Loaded(table, known))
            /\ Store!Loaded(table, known) \in Seq(Store!Sensor)
            /\ read' \in BOOLEAN
    BY <1>1, <1>3, StartIs
  <2>2. [i \in DOMAIN known |-> [addr |-> known[i], seen |-> FALSE]] \in Seq(T)
    <3>1. Len(known) \in Nat /\ DOMAIN known = 1..Len(known)
      BY LenProperties
    <3>2. \A i \in 1..Len(known) : [addr |-> known[i], seen |-> FALSE] \in T
      BY <3>1, ElementOfSeq
    <3>. QED BY <3>1, <3>2, IsASeq
  <2>3. [a \in Nodes |-> 0] \in [Nodes -> Nat]
    OBVIOUS
  <2>. QED BY <2>1, <2>2, <2>3 DEF Store!StartWith, StoreLists
<1>4. CASE Store!Quit
  BY <1>2, <1>4 DEF Store!Quit
<1>5. ASSUME NEW a \in Nodes, Store!createNode(a)
      PROVE  StoreLists'
  <2>1. Append(nodes, a) \in Seq(Nodes)
    BY <1>1, AppendProperties
  <2>. QED BY <1>1, <1>5, <2>1 DEF Store!createNode, StoreLists
<1>6. ASSUME NEW a \in Nodes, Store!Reported(a)
      PROVE  StoreLists'
  <2>1. Store!UpdatedWith(nodesmodel, a) \in Seq(T)
    BY <1>1, SeenRow
  <2>. QED BY <1>1, <1>6, <2>1 DEF Store!Reported, StoreLists
<1>7. ASSUME NEW a \in Nodes, Store!requestLinks(a)
      PROVE  StoreLists'
  BY <1>1, <1>7 DEF Store!requestLinks, StoreLists
<1>8. ASSUME NEW a \in Nodes, Store!nodeNotResponding(a)
      PROVE  StoreLists'
  BY <1>1, <1>8 DEF Store!nodeNotResponding, StoreLists
<1>9. ASSUME NEW a \in Nodes, Store!parseAppLinkFormat(a)
      PROVE  StoreLists'
  <2>1. Store!RowsFor(a, Store!Links(a)) \in Seq(Store!Sensor)
    BY LinksAreUris, RowsForAre
  <2>2. allsensors \o Store!RowsFor(a, Store!Links(a)) \in Seq(Store!Sensor)
    BY <1>1, <2>1, ConcatProperties
  <2>. QED BY <1>1, <1>9, <2>2 DEF Store!parseAppLinkFormat, StoreLists
<1>10. ASSUME NEW d \in Destinations, Store!UnknownDestination(d)
       PROVE  StoreLists'
  <2>1. Append(allsensors, d) \in Seq(Store!Sensor)
    BY <1>1, DestinationIsSensor, AppendProperties
  <2>2. CASE Store!Forget
    BY <1>2, <2>2
  <2>3. CASE /\ allsensors' = Append(allsensors, d)
             /\ UNCHANGED <<running, read, nodes, nodesmodel, links>>
    BY <1>1, <2>1, <2>3 DEF StoreLists
  <2>. QED BY <1>10, <2>2, <2>3 DEF Store!UnknownDestination
<1>11. CASE UNCHANGED Store!storeVars
  BY <1>1, <1>11 DEF Store!storeVars, Store!volatileVars, StoreLists
<1>. QED BY <1>3, <1>4, <1>5, <1>6, <1>7, <1>8, <1>9, <1>10, <1>11 DEF Store!Next

(* A sensor is always shown of the node that has it, and a node is listed  *)
(* by its address, whatever the tables hold (sensorsunleashed.cpp).        *)
THEOREM StoreTypes == ASSUME Tables PROVE Store!Spec => []Store!TypeOK
<1>1. Store!Init => StoreInv /\ StoreLists
  <2>1. Store!Init => StoreLists
    <3>1. /\ <<>> \in Seq(Nodes) /\ <<>> \in Seq(Store!Sensor)
          /\ <<>> \in Seq([addr : Nodes, seen : BOOLEAN])
      BY EmptySeq
    <3>2. [a \in Nodes |-> 0] \in [Nodes -> Nat]
      OBVIOUS
    <3>. QED BY <3>1, <3>2 DEF Store!Init, StoreLists
  <2>. QED BY <2>1, InitStoreInv
<1>2. StoreInv /\ StoreLists /\ [Store!Next]_(Store!storeVars) => StoreInv' /\ StoreLists'
  BY StepStoreInv, StepStoreLists
<1>3. StoreInv /\ StoreLists => Store!TypeOK
  <2>. SUFFICES ASSUME StoreInv, StoreLists
                PROVE  Store!TypeOK
    OBVIOUS
  <2>1. \A a \in Nodes : sensors[a] \in Seq(Store!Listed)
    BY DEF StoreInv
  <2>. QED BY <2>1 DEF StoreInv, StoreLists, Store!TypeOK
<1>. QED BY <1>1, <1>2, <1>3, PTL DEF Store!Spec

-----------------------------------------------------------------------------
(*                        The list of pairs and the file                   *)
-----------------------------------------------------------------------------
(* The rows, their numbers and their pairs. *)

Dsts(rs) == [i \in 1..Len(rs) |-> rs[i].dst]
Numbered(rs) == \A i \in 1..Len(rs) : rs[i].id = i - 1
Matches(rs, f) == Len(rs) = Len(f) /\ Numbered(rs) /\ Dsts(rs) = f
Ascending(ids) == \A i, j \in 1..Len(ids) : i < j => ids[i] < ids[j]

(* The rows with none of the numbers, and with none of the first n. *)
LeftUpTo(ids, n) == {r \in View!Row : \A k \in 1..n : ids[k] # r.id}
Left(ids) == LeftUpTo(ids, Len(ids))

LEMMA DstsType ==
    ASSUME NEW rs \in Seq(View!Row)
    PROVE  Dsts(rs) \in Seq(ListedPairs) /\ Len(Dsts(rs)) = Len(rs)
<1>1. Len(rs) \in Nat /\ \A i \in 1..Len(rs) : rs[i] \in View!Row
  BY LenProperties, ElementOfSeq
<1>2. \A i \in 1..Len(rs) : rs[i].dst \in ListedPairs
  BY <1>1 DEF View!Row
<1>. QED BY <1>1, <1>2 DEF Dsts

LEMMA DstsAppend ==
    ASSUME NEW rs \in Seq(View!Row), NEW r \in View!Row
    PROVE  Dsts(Append(rs, r)) = Append(Dsts(rs), r.dst)
<1> DEFINE t == Append(rs, r)
           d == Dsts(rs)
           a == Dsts(t)
           b == Append(d, r.dst)
<1>1. /\ t \in Seq(View!Row) /\ Len(t) = Len(rs) + 1 /\ Len(rs) \in Nat
      /\ \A i \in 1..Len(rs) : t[i] = rs[i]
      /\ t[Len(rs) + 1] = r
  BY AppendProperties, LenProperties
<1>2. r.dst \in ListedPairs
  BY DEF View!Row
<1>3. d \in Seq(ListedPairs) /\ Len(d) = Len(rs) /\ \A i \in 1..Len(rs) : d[i] = rs[i].dst
  BY DstsType DEF Dsts
<1>. HIDE DEF t
<1>4. /\ a \in Seq(ListedPairs) /\ Len(a) = Len(rs) + 1
      /\ \A i \in 1..Len(rs) + 1 : a[i] = t[i].dst
  BY <1>1, DstsType DEF Dsts
<1>. HIDE DEF a, d
<1>5. /\ b \in Seq(ListedPairs) /\ Len(b) = Len(rs) + 1
      /\ \A i \in 1..Len(rs) : b[i] = d[i]
      /\ b[Len(rs) + 1] = r.dst
  BY <1>2, <1>3, AppendProperties
<1>. HIDE DEF b
<1>6. ASSUME NEW i \in 1..Len(rs) + 1
      PROVE  a[i] = b[i]
  <2>1. CASE i = Len(rs) + 1
    BY <1>1, <1>4, <1>5, <2>1
  <2>2. CASE i # Len(rs) + 1
    <3>1. i \in 1..Len(rs)
      BY <1>1, <2>2
    <3>. QED BY <1>1, <1>3, <1>4, <1>5, <3>1
  <2>. QED BY <2>1, <2>2
<1>7. a = b
  BY <1>1, <1>4, <1>5, <1>6, SeqEqual
<1>. QED BY <1>7 DEF a, b, d, t

(* The numbers before the last row are lower. *)
LEMMA NumberedAppend ==
    ASSUME NEW q \in Seq(View!Row), NEW e \in View!Row, Numbered(Append(q, e))
    PROVE  /\ Numbered(q) /\ e.id = Len(q)
           /\ q \in Seq({r \in View!Row : r.id < Len(q)})
<1> DEFINE t == Append(q, e)
<1>1. /\ Len(t) = Len(q) + 1 /\ Len(q) \in Nat
      /\ \A i \in 1..Len(q) : t[i] = q[i]
      /\ t[Len(q) + 1] = e
  BY AppendProperties, LenProperties
<1>2. \A i \in 1..Len(t) : t[i].id = i - 1
  BY DEF Numbered
<1>. HIDE DEF t
<1>3. \A i \in 1..Len(q) : q[i].id = i - 1
  BY <1>1, <1>2
<1>4. e.id = Len(q)
  <2>1. Len(q) + 1 \in 1..Len(t) /\ (Len(q) + 1) - 1 = Len(q)
    BY <1>1
  <2>. QED BY <1>1, <1>2, <2>1
<1>5. \A i \in 1..Len(q) : q[i] \in {r \in View!Row : r.id < Len(q)}
  <2>1. \A i \in 1..Len(q) : q[i] \in View!Row /\ i - 1 < Len(q)
    BY <1>1, ElementOfSeq
  <2>. QED BY <1>3, <2>1
<1>6. q \in Seq({r \in View!Row : r.id < Len(q)})
  <2> DEFINE S == {r \in View!Row : r.id < Len(q)}
  <2>1. q = [i \in 1..Len(q) |-> q[i]]
    BY LenProperties
  <2>. HIDE DEF S
  <2>2. q \in [1..Len(q) -> S]
    BY <1>5, <2>1 DEF S
  <2>. QED BY <1>1, <2>2 DEF S
<1>. QED BY <1>3, <1>4, <1>6 DEF Numbered

(* The rows that are selected keep their order, so their numbers rise. *)
Rising(rs, bound) ==
    /\ \A i \in 1..Len(rs) : rs[i].id < bound
    /\ \A i, j \in 1..Len(rs) : i < j => rs[i].id < rs[j].id

LEMMA RisingAppend ==
    ASSUME NEW q \in Seq(View!Row), NEW e \in View!Row, NEW n \in Nat,
           Rising(q, n), e.id = n
    PROVE  Rising(Append(q, e), n + 1)
<1> DEFINE t == Append(q, e)
<1>1. /\ Len(t) = Len(q) + 1 /\ Len(q) \in Nat
      /\ \A i \in 1..Len(q) : t[i] = q[i]
      /\ t[Len(q) + 1] = e
  BY AppendProperties, LenProperties
<1>. HIDE DEF t
<1>2. \A i \in 1..Len(t) : i \in 1..Len(q) \/ i = Len(q) + 1
  BY <1>1
<1>3. \A i \in 1..Len(q) : q[i].id \in Nat /\ q[i].id < n
  <2>1. \A i \in 1..Len(q) : q[i] \in View!Row
    BY ElementOfSeq
  <2>. QED BY <2>1 DEF Rising, View!Row
<1>4. ASSUME NEW i \in 1..Len(t)
      PROVE  t[i].id < n + 1
  <2>1. CASE i \in 1..Len(q)
    <3>1. t[i].id = q[i].id /\ q[i].id \in Nat /\ q[i].id < n
      BY <1>1, <1>3, <2>1
    <3>. QED BY <3>1
  <2>2. CASE i = Len(q) + 1
    BY <1>1, <2>2
  <2>. QED BY <1>2, <2>1, <2>2
<1>5. ASSUME NEW i \in 1..Len(t), NEW j \in 1..Len(t), i < j
      PROVE  t[i].id < t[j].id
  <2>1. i \in 1..Len(q)
    BY <1>1, <1>5
  <2>2. CASE j \in 1..Len(q)
    <3>1. q[i].id < q[j].id
      BY <1>5, <2>1, <2>2 DEF Rising
    <3>. QED BY <1>1, <2>1, <2>2, <3>1
  <2>3. CASE j = Len(q) + 1
    <3>1. t[i].id = q[i].id /\ t[j].id = n
      BY <1>1, <2>1, <2>3
    <3>. QED BY <1>3, <2>1, <3>1
  <2>. QED BY <1>2, <2>2, <2>3
<1>. QED BY <1>4, <1>5 DEF Rising, t

LEMMA SelectedRise ==
    ASSUME NEW rs \in Seq(View!Row), Numbered(rs), NEW S
    PROVE  Rising(Only(rs, S), Len(rs))
<1> DEFINE Q == {q \in Seq(View!Row) : Numbered(q) => Rising(Only(q, S), Len(q))}
<1>1. <<>> \in Q
  <2>1. <<>> \in Seq(View!Row) /\ Len(<<>>) = 0
    BY EmptySeq
  <2>2. Rising(<<>>, 0)
    BY <2>1 DEF Rising
  <2>. QED BY <2>1, <2>2, OnlyOfEmpty
<1>2. ASSUME NEW q \in Seq(View!Row), q \in Q, NEW e \in View!Row
      PROVE  Append(q, e) \in Q
  <2> DEFINE o == Only(q, S)
             n == Len(q)
  <2>1. Append(q, e) \in Seq(View!Row) /\ o \in Seq(View!Row) /\ n \in Nat
    BY OnlyType, AppendProperties, LenProperties
  <2>2. Len(Append(q, e)) = n + 1
    BY AppendProperties
  <2>3. Only(Append(q, e), S) = IF e \in S THEN Append(o, e) ELSE o
    BY OnlyOfAppend
  <2>4. ASSUME Numbered(Append(q, e))
        PROVE  Rising(Only(Append(q, e), S), n + 1)
    <3>1. Numbered(q) /\ e.id = n
      BY <2>4, NumberedAppend
    <3>2. Rising(o, n)
      BY <1>2, <3>1
    <3>. HIDE DEF o, n
    <3>3. Rising(Append(o, e), n + 1)
      BY <2>1, <3>1, <3>2, RisingAppend
    <3>4. Rising(o, n + 1)
      <4>1. \A i \in 1..Len(o) : o[i].id \in Nat /\ o[i].id < n
        <5>1. \A i \in 1..Len(o) : o[i] \in View!Row
          BY <2>1, ElementOfSeq
        <5>. QED BY <3>2, <5>1 DEF Rising, View!Row
      <4>2. \A i \in 1..Len(o) : o[i].id < n + 1
        BY <2>1, <4>1
      <4>. QED BY <3>2, <4>2 DEF Rising
    <3>. QED BY <2>3, <3>3, <3>4
  <2>. QED BY <2>1, <2>2, <2>4
<1>3. Seq(View!Row) \subseteq Q
  <2>. HIDE DEF Q
  <2>. QED BY <1>1, <1>2, SequencesInduction
<1>. QED BY <1>3

-----------------------------------------------------------------------------
(* Taking rows away by their numbers (removePairingsAck). *)

(* What RemoveAt returns. *)
LEMMA RemoveAtFacts ==
    ASSUME NEW S, NEW s \in Seq(S), NEW k \in 1..Len(s)
    PROVE  /\ View!RemoveAt(s, k) \in Seq(S)
           /\ Len(View!RemoveAt(s, k)) = Len(s) - 1
           /\ \A i \in 1..Len(s) - 1 :
                 View!RemoveAt(s, k)[i] = IF i < k THEN s[i] ELSE s[i + 1]
<1> DEFINE a == SubSeq(s, 1, k - 1)
           b == SubSeq(s, k + 1, Len(s))
<1>1. /\ a \in Seq(S)
      /\ Len(a) = k - 1
      /\ \A i \in 1..k - 1 : a[i] = s[i]
  <2>1. \A i \in 1..k - 1 : s[i] \in S
    OBVIOUS
  <2>2. k - 1 \in Int /\ 1 \in Int
    OBVIOUS
  <2>. QED BY <2>1, <2>2, SubSeqProperties
<1>2. /\ b \in Seq(S)
      /\ Len(b) = Len(s) - k
      /\ \A i \in 1..Len(s) - k : b[i] = s[k + i]
  <2>1. \A i \in k + 1..Len(s) : s[i] \in S
    OBVIOUS
  <2>2. k + 1 \in Int /\ Len(s) \in Int
    OBVIOUS
  <2>. QED BY <2>1, <2>2, SubSeqProperties
<1>3. /\ a \o b \in Seq(S)
      /\ Len(a \o b) = Len(s) - 1
      /\ \A i \in 1..Len(s) - 1 :
            (a \o b)[i] = IF i <= k - 1 THEN a[i] ELSE b[i - (k - 1)]
  <2>. HIDE DEF a, b
  <2>1. Len(a) + Len(b) = Len(s) - 1 /\ Len(a) = k - 1
    BY <1>1, <1>2
  <2>2. /\ a \o b \in Seq(S)
        /\ Len(a \o b) = Len(a) + Len(b)
        /\ \A i \in 1..Len(a) + Len(b) :
              (a \o b)[i] = IF i <= Len(a) THEN a[i] ELSE b[i - Len(a)]
    BY <1>1, <1>2, ConcatProperties
  <2>. QED BY <2>1, <2>2, Zenon
<1>4. ASSUME NEW i \in 1..Len(s) - 1
      PROVE  (a \o b)[i] = IF i < k THEN s[i] ELSE s[i + 1]
  <2>. HIDE DEF a, b
  <2>1. CASE i < k
    BY <2>1, <1>1, <1>3
  <2>2. CASE ~(i < k)
    BY <2>2, <1>2, <1>3
  <2>. QED BY <2>1, <2>2
<1>. QED BY <1>3, <1>4 DEF View!RemoveAt

(* The first row with a number. *)
FirstAt(rs, id, i) ==
    i \in 1..Len(rs) /\ rs[i].id = id /\ \A j \in 1..i - 1 : rs[j].id # id

LEMMA FirstWithoutIs ==
    ASSUME NEW rs \in Seq(View!Row), NEW id
    PROVE  /\ \A i : FirstAt(rs, id, i) => View!FirstWithout(rs, id) = View!RemoveAt(rs, i)
           /\ (\A i \in 1..Len(rs) : rs[i].id # id) => View!FirstWithout(rs, id) = rs
           /\ (\E i \in 1..Len(rs) : rs[i].id = id) => \E i : FirstAt(rs, id, i)
<1>1. DOMAIN rs = 1..Len(rs) /\ Len(rs) \in Nat
  BY LenProperties
<1>2. ASSUME NEW i, FirstAt(rs, id, i)
      PROVE  View!FirstWithout(rs, id) = View!RemoveAt(rs, i)
  <2>1. i \in 1..Len(rs) /\ rs[i].id = id /\ \A j \in 1..i - 1 : rs[j].id # id
    BY <1>2 DEF FirstAt
  <2> DEFINE First(k) == rs[k].id = id /\ \A j \in 1..k - 1 : rs[j].id # id
             p == CHOOSE k \in 1..Len(rs) : First(k)
  <2>2. p \in 1..Len(rs) /\ First(p)
    <3>1. First(i)
      BY <2>1
    <3>. HIDE DEF First
    <3>. QED BY <2>1, <3>1
  <2>3. View!FirstWithout(rs, id) = View!RemoveAt(rs, p)
    BY <1>1, <2>1 DEF View!FirstWithout
  <2>. HIDE DEF p
  <2>4. p = i
    <3>1. ~(p < i)
      <4>1. p < i => p \in 1..i - 1
        BY <2>1, <2>2
      <4>. QED BY <2>1, <2>2, <4>1
    <3>2. ~(i < p)
      <4>1. i < p => i \in 1..p - 1
        BY <2>1, <2>2
      <4>. QED BY <2>1, <2>2, <4>1
    <3>3. p \in Nat /\ i \in Nat
      BY <2>1, <2>2
    <3>. QED BY <3>1, <3>2, <3>3
  <2>. QED BY <2>3, <2>4
<1>3. ASSUME \A i \in 1..Len(rs) : rs[i].id # id
      PROVE  View!FirstWithout(rs, id) = rs
  BY <1>1, <1>3 DEF View!FirstWithout
<1>4. ASSUME NEW k \in 1..Len(rs), rs[k].id = id
      PROVE  \E i : FirstAt(rs, id, i)
  <2> DEFINE P == {m \in 1..Len(rs) : rs[m].id = id}
  <2>1. P \in SUBSET Nat /\ P # {}
    BY <1>1, <1>4
  <2>2. PICK i \in P : \A m \in P : i <= m
    <3>. HIDE DEF P
    <3>. QED BY <2>1, LeastNumber
  <2>3. ASSUME NEW j \in 1..i - 1
        PROVE  rs[j].id # id
    <3>1. j \in 1..Len(rs) /\ ~(i <= j)
      BY <1>1, <2>2
    <3>. QED BY <2>2, <3>1
  <2>4. FirstAt(rs, id, i)
    BY <2>2, <2>3 DEF FirstAt
  <2>. QED BY <2>4
<1>. QED BY <1>2, <1>3, <1>4

LEMMA FirstWithoutType ==
    ASSUME NEW rs \in Seq(View!Row), NEW id
    PROVE  View!FirstWithout(rs, id) \in Seq(View!Row)
<1>1. CASE \E i \in 1..Len(rs) : rs[i].id = id
  <2>1. PICK i : FirstAt(rs, id, i)
    BY <1>1, FirstWithoutIs
  <2>2. View!FirstWithout(rs, id) = View!RemoveAt(rs, i)
    BY <2>1, FirstWithoutIs
  <2>3. i \in 1..Len(rs)
    BY <2>1 DEF FirstAt
  <2>4. View!RemoveAt(rs, i) \in Seq(View!Row)
    BY <2>3, RemoveAtFacts
  <2>. QED BY <2>2, <2>4
<1>2. CASE \A i \in 1..Len(rs) : rs[i].id # id
  BY <1>2, FirstWithoutIs
<1>. QED BY <1>1, <1>2

LEMMA RemoveAtAppend ==
    ASSUME NEW T, NEW s \in Seq(T), NEW e \in T
    PROVE  /\ \A k \in 1..Len(s) : View!RemoveAt(Append(s, e), k) = Append(View!RemoveAt(s, k), e)
           /\ View!RemoveAt(Append(s, e), Len(s) + 1) = s
<1> DEFINE t == Append(s, e)
           n == Len(s)
<1>1. /\ t \in Seq(T) /\ Len(t) = n + 1 /\ n \in Nat
      /\ \A i \in 1..n : t[i] = s[i]
      /\ t[n + 1] = e
  <2>1. n \in Nat
    BY LenProperties
  <2>. QED BY <2>1, AppendProperties
<1>. HIDE DEF t
<1>2. ASSUME NEW k \in 1..n
      PROVE  View!RemoveAt(t, k) = Append(View!RemoveAt(s, k), e)
  <2> DEFINE a == View!RemoveAt(t, k)
             r == View!RemoveAt(s, k)
             b == Append(r, e)
  <2>1. /\ r \in Seq(T) /\ Len(r) = n - 1
        /\ \A i \in 1..n - 1 : r[i] = IF i < k THEN s[i] ELSE s[i + 1]
    BY RemoveAtFacts
  <2>2. /\ a \in Seq(T) /\ Len(a) = n
        /\ \A i \in 1..n : a[i] = IF i < k THEN t[i] ELSE t[i + 1]
    <3>1. k \in 1..Len(t) /\ Len(t) - 1 = n
      BY <1>1
    <3>2. /\ a \in Seq(T) /\ Len(a) = Len(t) - 1
          /\ \A i \in 1..Len(t) - 1 : a[i] = IF i < k THEN t[i] ELSE t[i + 1]
      BY <1>1, <3>1, RemoveAtFacts
    <3>. QED BY <3>1, <3>2
  <2>. HIDE DEF a, r
  <2>3. /\ b \in Seq(T) /\ Len(b) = Len(r) + 1
        /\ \A i \in 1..Len(r) : b[i] = r[i]
        /\ b[Len(r) + 1] = e
    BY <2>1, AppendProperties
  <2>. HIDE DEF b, n
  <2>4. Len(r) + 1 = n
    BY <1>1, <2>1
  <2>5. ASSUME NEW i \in 1..n
        PROVE  a[i] = b[i]
    <3>1. CASE i = n
      <4>1. a[i] = t[n + 1]
        BY <1>1, <1>2, <2>2, <3>1
      <4>2. b[i] = e
        BY <2>3, <2>4, <3>1
      <4>. QED BY <1>1, <4>1, <4>2
    <3>2. CASE i # n
      <4>1. i \in 1..n - 1 /\ i \in 1..Len(r) /\ i + 1 \in 1..n
        BY <1>1, <2>1, <3>2
      <4>2. b[i] = IF i < k THEN s[i] ELSE s[i + 1]
        BY <2>1, <2>3, <4>1
      <4>3. t[i] = s[i] /\ t[i + 1] = s[i + 1]
        BY <1>1, <4>1
      <4>. QED BY <2>2, <4>2, <4>3
    <3>. QED BY <3>1, <3>2
  <2>6. a = b
    BY <2>2, <2>3, <2>4, <2>5, SeqEqual
  <2>. QED BY <2>6 DEF a, b, r
<1>3. View!RemoveAt(t, n + 1) = s
  <2> DEFINE a == View!RemoveAt(t, n + 1)
             m == n + 1
  <2>1. m \in 1..Len(t) /\ Len(t) - 1 = n
    BY <1>1
  <2>2. /\ a \in Seq(T) /\ Len(a) = Len(t) - 1
        /\ \A i \in 1..Len(t) - 1 : a[i] = IF i < m THEN t[i] ELSE t[i + 1]
    <3>. HIDE DEF m
    <3>1. View!RemoveAt(t, m) = a
      BY DEF m
    <3>. QED BY <1>1, <2>1, <3>1, RemoveAtFacts
  <2>. HIDE DEF a
  <2>3. \A i \in 1..n : a[i] = s[i]
    <3>1. \A i \in 1..n : i < m
      BY <1>1
    <3>. HIDE DEF m
    <3>. QED BY <1>1, <2>1, <2>2, <3>1
  <2>. HIDE DEF m
  <2>4. Len(a) = Len(s)
    BY <2>1, <2>2 DEF n
  <2>5. a = s
    BY <2>2, <2>3, <2>4, SeqEqual DEF n
  <2>. QED BY <2>5 DEF a
<1>. QED BY <1>2, <1>3 DEF t, n

LEMMA FirstWithoutAppend ==
    ASSUME NEW q \in Seq(View!Row), NEW e \in View!Row, NEW id
    PROVE  /\ e.id # id =>
                 View!FirstWithout(Append(q, e), id) = Append(View!FirstWithout(q, id), e)
           /\ (e.id = id /\ \A i \in 1..Len(q) : q[i].id # id) =>
                 View!FirstWithout(Append(q, e), id) = q
<1> DEFINE t == Append(q, e)
           n == Len(q)
<1>1. /\ t \in Seq(View!Row) /\ Len(t) = n + 1 /\ n \in Nat
      /\ \A i \in 1..n : t[i] = q[i]
      /\ t[n + 1] = e
  <2>1. n \in Nat
    BY LenProperties
  <2>. QED BY <2>1, AppendProperties
<1>2. /\ \A k \in 1..n : View!RemoveAt(t, k) = Append(View!RemoveAt(q, k), e)
      /\ View!RemoveAt(t, n + 1) = q
  BY RemoveAtAppend
<1>. HIDE DEF t
<1>3. ASSUME e.id # id
      PROVE  View!FirstWithout(t, id) = Append(View!FirstWithout(q, id), e)
  <2>1. CASE \E i \in 1..n : q[i].id = id
    <3>1. PICK i : FirstAt(q, id, i)
      BY <2>1, FirstWithoutIs
    <3>2. i \in 1..n /\ q[i].id = id /\ \A j \in 1..i - 1 : q[j].id # id
      BY <3>1 DEF FirstAt
    <3>3. FirstAt(t, id, i)
      <4>1. i \in 1..Len(t) /\ \A j \in 1..i - 1 : j \in 1..n
        BY <1>1, <3>2
      <4>. QED BY <1>1, <3>2, <4>1 DEF FirstAt
    <3>4. View!FirstWithout(q, id) = View!RemoveAt(q, i)
      BY <3>1, FirstWithoutIs
    <3>5. View!FirstWithout(t, id) = View!RemoveAt(t, i)
      BY <1>1, <3>3, FirstWithoutIs
    <3>. QED BY <1>2, <3>2, <3>4, <3>5
  <2>2. CASE \A i \in 1..n : q[i].id # id
    <3>1. \A i \in 1..Len(t) : i \in 1..n \/ i = n + 1
      BY <1>1
    <3>2. \A i \in 1..Len(t) : t[i].id # id
      BY <1>1, <1>3, <2>2, <3>1
    <3>3. View!FirstWithout(t, id) = t
      BY <1>1, <3>2, FirstWithoutIs
    <3>4. View!FirstWithout(q, id) = q
      BY <2>2, FirstWithoutIs
    <3>. QED BY <3>3, <3>4 DEF t
  <2>. QED BY <2>1, <2>2
<1>4. ASSUME e.id = id, \A i \in 1..n : q[i].id # id
      PROVE  View!FirstWithout(t, id) = q
  <2> DEFINE m == n + 1
  <2>1. m \in 1..Len(t) /\ \A j \in 1..m - 1 : j \in 1..n
    BY <1>1
  <2>2. View!RemoveAt(t, m) = q /\ t[m] = e
    BY <1>1, <1>2
  <2>. HIDE DEF m
  <2>3. FirstAt(t, id, m)
    BY <1>1, <1>4, <2>1, <2>2 DEF FirstAt
  <2>4. View!FirstWithout(t, id) = View!RemoveAt(t, m)
    BY <1>1, <2>3, FirstWithoutIs
  <2>. QED BY <2>2, <2>4
<1>. QED BY <1>3, <1>4 DEF t, n

(* In rows that were numbered as they were read, a number is the row's. *)
LEMMA FirstWithoutOnly ==
    ASSUME NEW rs \in Seq(View!Row), Numbered(rs), NEW S, NEW id
    PROVE  View!FirstWithout(Only(rs, S), id) = Only(rs, S \ {r \in View!Row : r.id = id})
<1> DEFINE W == S \ {r \in View!Row : r.id = id}
           Q == {q \in Seq(View!Row) :
                    Numbered(q) => View!FirstWithout(Only(q, S), id) = Only(q, W)}
<1>1. <<>> \in Q
  <2> DEFINE s == <<>>
  <2>1. s \in Seq(View!Row) /\ Len(s) = 0 /\ Only(s, S) = s /\ Only(s, W) = s
    BY EmptySeq, OnlyOfEmpty
  <2>. HIDE DEF s, W
  <2>2. \A i \in 1..Len(s) : s[i].id # id
    BY <2>1
  <2>3. View!FirstWithout(s, id) = s
    BY <2>1, <2>2, FirstWithoutIs
  <2>4. s \in Q
    BY <2>1, <2>3
  <2>. QED BY <2>4 DEF s
<1>2. ASSUME NEW q \in Seq(View!Row), q \in Q, NEW e \in View!Row
      PROVE  Append(q, e) \in Q
  <2> DEFINE o == Only(q, S)
             w == Only(q, W)
             Low == {r \in View!Row : r.id < Len(q)}
  <2>1. Append(q, e) \in Seq(View!Row) /\ o \in Seq(View!Row)
    BY OnlyType, AppendProperties
  <2>2. Only(Append(q, e), S) = IF e \in S THEN Append(o, e) ELSE o
    BY OnlyOfAppend
  <2>3. Only(Append(q, e), W) = IF e \in W THEN Append(w, e) ELSE w
    <3>. HIDE DEF W
    <3>. QED BY OnlyOfAppend
  <2>4. ASSUME Numbered(Append(q, e))
        PROVE  View!FirstWithout(Only(Append(q, e), S), id) = Only(Append(q, e), W)
    <3>1. Numbered(q) /\ e.id = Len(q) /\ q \in Seq(Low)
      BY <2>4, NumberedAppend
    <3>2. View!FirstWithout(o, id) = w
      BY <1>2, <3>1
    <3>3. CASE e \notin S
      <4>1. e \notin W
        BY <3>3
      <4>. QED BY <2>2, <2>3, <3>2, <3>3, <4>1
    <3>4. CASE e \in S /\ e.id # id
      <4>1. e \in W
        BY <3>4
      <4>. HIDE DEF o, w, W
      <4>2. View!FirstWithout(Append(o, e), id) = Append(View!FirstWithout(o, id), e)
        BY <2>1, <3>4, FirstWithoutAppend
      <4>. QED BY <2>2, <2>3, <3>2, <3>4, <4>1, <4>2
    <3>5. CASE e \in S /\ e.id = id
      <4>1. e \notin W
        BY <3>5
      <4>2. S \cap Low = W \cap Low
        <5>1. \A r \in Low : r.id # id
          <6>1. \A r \in Low : r.id \in Nat /\ r.id < Len(q)
            BY DEF View!Row
          <6>2. Len(q) \in Nat
            BY LenProperties
          <6>. QED BY <3>1, <3>5, <6>1, <6>2
        <5>. QED BY <5>1
      <4>3. w = o
        <5>. HIDE DEF W, Low
        <5>. QED BY <3>1, <4>2, OnlySame
      <4>4. o \in Seq(Low)
        <5>. HIDE DEF Low
        <5>. QED BY <3>1, OnlyType
      <4>. HIDE DEF o, w, W
      <4>5. \A i \in 1..Len(o) : o[i].id # id
        <5>1. \A i \in 1..Len(o) : o[i] \in Low
          <6>. HIDE DEF Low
          <6>. QED BY <4>4, ElementOfSeq
        <5>2. \A r \in Low : r.id \in Nat /\ r.id < Len(q)
          BY DEF View!Row
        <5>3. Len(q) \in Nat
          BY LenProperties
        <5>. QED BY <3>1, <3>5, <5>1, <5>2, <5>3
      <4>6. View!FirstWithout(Append(o, e), id) = o
        BY <2>1, <3>5, <4>5, FirstWithoutAppend
      <4>. QED BY <2>2, <2>3, <3>5, <4>1, <4>3, <4>6
    <3>. QED BY <3>3, <3>4, <3>5
  <2>. QED BY <2>1, <2>4
<1>3. Seq(View!Row) \subseteq Q
  <2>. HIDE DEF Q
  <2>. QED BY <1>1, <1>2, SequencesInduction
<1>4. rs \in Q
  BY <1>3
<1>. QED BY <1>4

(* The rows the acknowledgement leaves, row by row. *)
LEMMA AckedDef ==
    ASSUME rows \in Seq(View!Row), lastcmd \in Seq(Nat)
    PROVE  \E f \in [0..Len(lastcmd) -> Seq(View!Row)] :
              /\ f[0] = rows
              /\ \A n \in 1..Len(lastcmd) : f[n] = View!FirstWithout(f[n - 1], lastcmd[n])
              /\ View!Acked = f[Len(lastcmd)]
<1> DEFINE k == Len(lastcmd)
           S == Seq(View!Row)
           GoOn(f, n) == View!FirstWithout(f[n - 1], lastcmd[n])
           Body(f) == [n \in 0..k |-> IF n = 0 THEN rows ELSE GoOn(f, n)]
           step == [x \in S \X (1..k) |-> View!FirstWithout(x[1], lastcmd[x[2]])]
           left == CHOOSE f : f = Body(f)
<1>1. k \in Nat /\ rows \in S
  BY LenProperties
<1>2. step \in [S \X (1..k) -> S]
  <2>1. \A x \in S \X (1..k) : x[1] \in S
    OBVIOUS
  <2>2. \A q \in S : \A id : View!FirstWithout(q, id) \in S
    BY FirstWithoutType
  <2>. QED BY <2>1, <2>2
<1>3. ASSUME NEW f, NEW n \in 1..k, f[n - 1] \in S
      PROVE  step[<<f[n - 1], n>>] = GoOn(f, n)
  BY <1>3
<1>4. View!Acked = left[k]
  BY DEF View!Acked
<1>. HIDE DEF step, k, S
<1>5. PICK f : IsChain(f, S, rows, k, step)
  BY <1>1, <1>2, RecursionExists, Zenon
<1>6. f = Body(f)
  <2>1. f = [n \in 0..k |-> f[n]] /\ f[0] = rows
    BY <1>5 DEF IsChain
  <2>2. ASSUME NEW n \in 1..k
        PROVE  f[n] = GoOn(f, n)
    <3>1. f[n - 1] \in S
      BY <1>1, <1>5 DEF IsChain
    <3>2. f[n] = step[<<f[n - 1], n>>]
      BY <1>5 DEF IsChain
    <3>. HIDE DEF GoOn
    <3>. QED BY <1>3, <3>1, <3>2
  <2>3. \A n \in 0..k : n # 0 => n \in 1..k
    BY <1>1
  <2>. HIDE DEF GoOn
  <2>4. \A n \in 0..k : f[n] = IF n = 0 THEN rows ELSE GoOn(f, n)
    BY <2>1, <2>2, <2>3
  <2>. QED BY <2>1, <2>4
<1>7. left = Body(left)
  <2>. HIDE DEF Body
  <2>. QED BY <1>6
<1>. HIDE DEF left
<1>8. left[0] = rows /\ \A n \in 1..k : left[n] = GoOn(left, n)
  <2>1. 0 \in 0..k /\ \A n \in 1..k : n \in 0..k /\ n # 0
    BY <1>1
  <2>2. \A n \in 0..k : left[n] = IF n = 0 THEN rows ELSE GoOn(left, n)
    <3>. HIDE DEF GoOn
    <3>. QED BY <1>7
  <2>. HIDE DEF GoOn
  <2>. QED BY <2>1, <2>2
<1>9. IsChain(left, S, rows, k, step)
  <2>1. left = [n \in 0..k |-> left[n]]
    <3>. HIDE DEF GoOn
    <3>. QED BY <1>7
  <2>2. \A n \in 1..k : left[n - 1] \in S => left[n] = step[<<left[n - 1], n>>]
    <3>. HIDE DEF GoOn
    <3>. QED BY <1>3, <1>8
  <2>. QED BY <1>1, <1>2, <1>8, <2>1, <2>2, ChainFollows, Zenon
<1>10. left \in [0..k -> S]
  BY <1>9 DEF IsChain
<1>. QED BY <1>4, <1>8, <1>10 DEF k, S

LEMMA AckedType ==
    ASSUME rows \in Seq(View!Row), lastcmd \in Seq(Nat)
    PROVE  View!Acked \in Seq(View!Row)
<1>1. Len(lastcmd) \in 0..Len(lastcmd)
  BY LenProperties
<1>. QED BY <1>1, AckedDef

(* Those with none of the numbers of the command are left. *)
LEMMA AckedIs ==
    ASSUME rows \in Seq(View!Row), Numbered(rows), lastcmd \in Seq(Nat)
    PROVE  View!Acked = Only(rows, Left(lastcmd))
<1> DEFINE k == Len(lastcmd)
<1>1. PICK f \in [0..k -> Seq(View!Row)] :
          /\ f[0] = rows
          /\ \A n \in 1..k : f[n] = View!FirstWithout(f[n - 1], lastcmd[n])
          /\ View!Acked = f[k]
  BY AckedDef
<1> DEFINE Ok == {n \in Nat : n <= k => f[n] = Only(rows, LeftUpTo(lastcmd, n))}
<1>2. k \in Nat
  BY LenProperties
<1>. HIDE DEF k
<1>3. 0 \in Ok
  <2>1. LeftUpTo(lastcmd, 0) = View!Row
    BY DEF LeftUpTo
  <2>2. Only(rows, View!Row) = rows
    BY OnlyAll
  <2>. QED BY <1>1, <2>1, <2>2
<1>4. ASSUME NEW n \in Ok \cap Nat
      PROVE  n + 1 \in Ok
  <2>. SUFFICES ASSUME n + 1 <= k
                PROVE  f[n + 1] = Only(rows, LeftUpTo(lastcmd, n + 1))
    OBVIOUS
  <2> DEFINE m == n + 1
             id == lastcmd[m]
             S == LeftUpTo(lastcmd, n)
  <2>1. m \in 1..k /\ m - 1 = n /\ n <= k
    BY <1>2
  <2>2. f[n] = Only(rows, S)
    BY <2>1
  <2>3. LeftUpTo(lastcmd, m) = S \ {r \in View!Row : r.id = id}
    <3>1. \A i \in 1..m : i \in 1..n \/ i = m
      OBVIOUS
    <3>2. \A i \in 1..n : i \in 1..m
      OBVIOUS
    <3>3. m \in 1..m
      OBVIOUS
    <3>. HIDE DEF m
    <3>. QED BY <3>1, <3>2, <3>3 DEF LeftUpTo
  <2>. HIDE DEF Ok, m, S
  <2>4. f[m] = View!FirstWithout(f[n], id)
    BY <1>1, <2>1
  <2>. HIDE DEF id
  <2>5. View!FirstWithout(Only(rows, S), id) = Only(rows, S \ {r \in View!Row : r.id = id})
    BY FirstWithoutOnly
  <2>6. f[m] = Only(rows, LeftUpTo(lastcmd, m))
    BY <2>2, <2>3, <2>4, <2>5
  <2>. QED BY <2>6 DEF m
<1>5. Nat \subseteq Ok
  <2>. HIDE DEF Ok
  <2>. QED BY <1>3, <1>4, NumbersInduction
<1>6. f[k] = Only(rows, LeftUpTo(lastcmd, k))
  BY <1>2, <1>5
<1>. QED BY <1>1, <1>6 DEF k, Left

-----------------------------------------------------------------------------
(* What the node copies when it removes records (pairing_remove). *)

Copying == [i : Nat, kept : Seq(ListedPairs)]
CopyOn(s, n, f, ids) ==
    IF s.i <= Len(ids) /\ ids[s.i] = n - 1
    THEN [s EXCEPT !.i = @ + 1]
    ELSE [s EXCEPT !.kept = Append(@, f[n])]

LEMMA KeptDef ==
    ASSUME NEW f \in Seq(ListedPairs), NEW ids
    PROVE  \E g \in [0..Len(f) -> Copying] :
              /\ g[0] = [i |-> 1, kept |-> <<>>]
              /\ \A n \in 1..Len(f) : g[n] = CopyOn(g[n - 1], n, f, ids)
              /\ View!Kept(f, ids) = g[Len(f)].kept
<1> DEFINE k == Len(f)
           b == [i |-> 1, kept |-> <<>>]
           GoOn(g, n) == CopyOn(g[n - 1], n, f, ids)
           Body(g) == [n \in 0..k |-> IF n = 0 THEN b ELSE GoOn(g, n)]
           step == [x \in Copying \X (1..k) |-> CopyOn(x[1], x[2], f, ids)]
           copy == CHOOSE g : g = Body(g)
<1>1. k \in Nat /\ b \in Copying
  BY LenProperties, EmptySeq DEF Copying
<1>2. step \in [Copying \X (1..k) -> Copying]
  <2>1. ASSUME NEW s \in Copying, NEW n \in 1..k
        PROVE  CopyOn(s, n, f, ids) \in Copying
    <3>1. s.i + 1 \in Nat
      BY DEF Copying
    <3>2. Append(s.kept, f[n]) \in Seq(ListedPairs)
      <4>1. f[n] \in ListedPairs /\ s.kept \in Seq(ListedPairs)
        BY ElementOfSeq DEF Copying
      <4>. QED BY <4>1, AppendProperties
    <3>3. [s EXCEPT !.i = s.i + 1] \in Copying
      BY <3>1 DEF Copying
    <3>4. [s EXCEPT !.kept = Append(s.kept, f[n])] \in Copying
      BY <3>2 DEF Copying
    <3>. QED BY <3>3, <3>4 DEF CopyOn
  <2>. HIDE DEF k
  <2>. QED BY <2>1
<1>3. ASSUME NEW g, NEW n \in 1..k, g[n - 1] \in Copying
      PROVE  step[<<g[n - 1], n>>] = GoOn(g, n)
  BY <1>3
<1>4. View!Kept(f, ids) = copy[k].kept
  BY DEF View!Kept, CopyOn
<1>. HIDE DEF step, k, b
<1>5. PICK g : IsChain(g, Copying, b, k, step)
  BY <1>1, <1>2, RecursionExists, Zenon
<1>6. g = Body(g)
  <2>1. g = [n \in 0..k |-> g[n]] /\ g[0] = b
    BY <1>5 DEF IsChain
  <2>2. ASSUME NEW n \in 1..k
        PROVE  g[n] = GoOn(g, n)
    <3>1. g[n - 1] \in Copying
      BY <1>1, <1>5 DEF IsChain
    <3>2. g[n] = step[<<g[n - 1], n>>]
      BY <1>5 DEF IsChain
    <3>. HIDE DEF GoOn
    <3>. QED BY <1>3, <3>1, <3>2
  <2>3. \A n \in 0..k : n # 0 => n \in 1..k
    BY <1>1
  <2>. HIDE DEF GoOn
  <2>4. \A n \in 0..k : g[n] = IF n = 0 THEN b ELSE GoOn(g, n)
    BY <2>1, <2>2, <2>3
  <2>. QED BY <2>1, <2>4
<1>7. copy = Body(copy)
  <2>. HIDE DEF Body
  <2>. QED BY <1>6
<1>. HIDE DEF copy
<1>8. copy[0] = b /\ \A n \in 1..k : copy[n] = GoOn(copy, n)
  <2>1. 0 \in 0..k /\ \A n \in 1..k : n \in 0..k /\ n # 0
    BY <1>1
  <2>2. \A n \in 0..k : copy[n] = IF n = 0 THEN b ELSE GoOn(copy, n)
    <3>. HIDE DEF GoOn
    <3>. QED BY <1>7
  <2>. HIDE DEF GoOn
  <2>. QED BY <2>1, <2>2
<1>9. IsChain(copy, Copying, b, k, step)
  <2>1. copy = [n \in 0..k |-> copy[n]]
    <3>. HIDE DEF GoOn
    <3>. QED BY <1>7
  <2>2. \A n \in 1..k : copy[n - 1] \in Copying => copy[n] = step[<<copy[n - 1], n>>]
    <3>. HIDE DEF GoOn
    <3>. QED BY <1>3, <1>8
  <2>. QED BY <1>1, <1>2, <1>8, <2>1, <2>2, ChainFollows, Zenon
<1>10. copy \in [0..k -> Copying]
  BY <1>9 DEF IsChain
<1>. QED BY <1>4, <1>8, <1>10 DEF k, b

LEMMA KeptType ==
    ASSUME NEW f \in Seq(ListedPairs), NEW ids
    PROVE  View!Kept(f, ids) \in Seq(ListedPairs)
<1>1. Len(f) \in 0..Len(f)
  BY LenProperties
<1>. QED BY <1>1, KeptDef DEF Copying

LEMMA KeptOfNothing ==
    ASSUME NEW f \in Seq(ListedPairs), Len(f) = 0, NEW ids
    PROVE  View!Kept(f, ids) = <<>>
<1>1. PICK g \in [0..Len(f) -> Copying] :
          /\ g[0] = [i |-> 1, kept |-> <<>>]
          /\ \A n \in 1..Len(f) : g[n] = CopyOn(g[n - 1], n, f, ids)
          /\ View!Kept(f, ids) = g[Len(f)].kept
  BY KeptDef
<1>2. g[0].kept = <<>>
  BY <1>1
<1>. QED BY <1>1, <1>2

(* Places that ascend are all met: the node copies the records of just the *)
(* rows that have none of them.                                            *)
LEMMA KeptIs ==
    ASSUME NEW rs \in Seq(View!Row), NEW f \in Seq(ListedPairs), Matches(rs, f),
           NEW ids \in Seq(Nat), Ascending(ids)
    PROVE  View!Kept(f, ids) = Dsts(Only(rs, Left(ids)))
<1> DEFINE k == Len(f)
           S == Left(ids)
           o == OnlyUpTo(rs, S)
<1>1. PICK g \in [0..k -> Copying] :
          /\ g[0] = [i |-> 1, kept |-> <<>>]
          /\ \A n \in 1..k : g[n] = CopyOn(g[n - 1], n, f, ids)
          /\ View!Kept(f, ids) = g[k].kept
  BY KeptDef
<1>2. /\ k \in Nat /\ Len(rs) = k /\ Len(ids) \in Nat
      /\ \A n \in 1..k : rs[n].id = n - 1 /\ rs[n].dst = f[n] /\ rs[n] \in View!Row
      /\ \A j \in 1..Len(ids) : ids[j] \in Nat
  <2>1. Len(rs) = k /\ k \in Nat
    BY LenProperties DEF Matches
  <2>2. \A n \in 1..k : rs[n].id = n - 1
    BY <2>1 DEF Matches, Numbered
  <2>3. \A n \in 1..k : rs[n].dst = f[n]
    BY <2>1 DEF Matches, Dsts
  <2>4. \A n \in 1..k : rs[n] \in View!Row
    BY <2>1, ElementOfSeq
  <2>5. Len(ids) \in Nat /\ \A j \in 1..Len(ids) : ids[j] \in Nat
    BY LenProperties, ElementOfSeq
  <2>. QED BY <2>1, <2>2, <2>3, <2>4, <2>5
<1>3. /\ o \in [0..k -> Seq(View!Row)]
      /\ o[0] = <<>>
      /\ \A n \in 1..k : o[n] = IF rs[n] \in S THEN Append(o[n - 1], rs[n]) ELSE o[n - 1]
  <2>1. Len(rs) = k
    BY <1>2
  <2>. HIDE DEF o, S, k
  <2>2. OnlyUpTo(rs, S) \in [0..Len(rs) -> Seq(View!Row)] /\ OnlyUpTo(rs, S)[0] = <<>>
    BY OnlyUpToDef
  <2>3. \A n \in 1..Len(rs) :
              OnlyUpTo(rs, S)[n] =
                  IF rs[n] \in S THEN Append(OnlyUpTo(rs, S)[n - 1], rs[n])
                  ELSE OnlyUpTo(rs, S)[n - 1]
    BY OnlyUpToDef
  <2>. QED BY <2>1, <2>2, <2>3 DEF o
<1>4. \A r \in View!Row : r \in S <=> \A j \in 1..Len(ids) : ids[j] # r.id
  BY DEF Left, LeftUpTo
<1>. HIDE DEF k, S, o
<1> DEFINE Met(n) == /\ g[n].kept = Dsts(o[n])
                     /\ g[n].i \in 1..Len(ids) + 1
                     /\ \A j \in 1..Len(ids) : j < g[n].i <=> ids[j] < n
           Ok == {n \in Nat : n <= k => Met(n)}
<1>5. 0 \in Ok
  <2>1. Dsts(<<>>) = <<>>
    <3> DEFINE e == <<>>
    <3>1. e \in Seq(View!Row) /\ Len(e) = 0
      BY EmptySeq
    <3>. HIDE DEF e
    <3>2. Dsts(e) \in Seq(ListedPairs) /\ Len(Dsts(e)) = 0
      BY <3>1, DstsType
    <3>3. Dsts(e) = <<>>
      BY <3>2, EmptySeq
    <3>. QED BY <3>3 DEF e
  <2>2. g[0].kept = <<>> /\ g[0].i = 1
    BY <1>1
  <2>3. \A j \in 1..Len(ids) : ~(j < 1) /\ ~(ids[j] < 0)
    BY <1>2
  <2>4. 1 \in 1..Len(ids) + 1
    BY <1>2
  <2>. QED BY <1>3, <2>1, <2>2, <2>3, <2>4
<1>6. ASSUME NEW n \in Ok \cap Nat
      PROVE  n + 1 \in Ok
  <2>. SUFFICES ASSUME n + 1 <= k
                PROVE  Met(n + 1)
    OBVIOUS
  <2> DEFINE m == n + 1
             r == rs[m]
             s == g[n]
             i == s.i
  <2>1. Met(n)
    BY <1>2
  <2>2. m \in 1..k /\ m - 1 = n /\ n \in 0..k
    BY <1>2
  <2>3. /\ s.kept = Dsts(o[n])
        /\ i \in 1..Len(ids) + 1
        /\ \A j \in 1..Len(ids) : j < i <=> ids[j] < n
    BY <2>1
  <2>. HIDE DEF Ok, Met, m
  <2>4. r.id = n /\ r.dst = f[m] /\ r \in View!Row
    BY <1>2, <2>2
  <2>5. s \in Copying
    BY <1>1, <2>2
  <2>6. g[m] = CopyOn(s, m, f, ids)
    BY <1>1, <2>2
  <2>7. o[m] = IF r \in S THEN Append(o[n], r) ELSE o[n]
    BY <1>3, <2>2
  <2>8. o[n] \in Seq(View!Row)
    BY <1>3, <2>2
  <2>. HIDE DEF r, s
  <2>9. CASE i <= Len(ids) /\ ids[i] = n
    <3>1. g[m] = [s EXCEPT !.i = s.i + 1]
      BY <2>2, <2>6, <2>9 DEF CopyOn
    <3>2. g[m].kept = s.kept /\ g[m].i = i + 1
      BY <2>5, <3>1 DEF Copying
    <3>3. i \in 1..Len(ids)
      BY <1>2, <2>3, <2>9
    <3>4. r \notin S
      BY <1>4, <2>4, <2>9, <3>3
    <3>5. \A j \in 1..Len(ids) : ids[j] = n <=> j = i
      <4>1. ASSUME NEW j \in 1..Len(ids), ids[j] = n, j # i
            PROVE  FALSE
        <5>1. j < i \/ i < j
          BY <3>3, <4>1
        <5>2. ids[j] < ids[i] \/ ids[i] < ids[j]
          BY <3>3, <5>1 DEF Ascending
        <5>. QED BY <2>9, <4>1, <5>2
      <4>. QED BY <2>9, <4>1
    <3>6. \A j \in 1..Len(ids) : j < i + 1 <=> ids[j] < m
      <4>1. \A j \in 1..Len(ids) : j < i + 1 <=> (j < i \/ j = i)
        BY <3>3
      <4>2. \A j \in 1..Len(ids) : ids[j] < m <=> (ids[j] < n \/ ids[j] = n)
        BY <1>2 DEF m
      <4>. QED BY <2>3, <3>5, <4>1, <4>2
    <3>7. i + 1 \in 1..Len(ids) + 1
      BY <1>2, <3>3
    <3>8. o[m] = o[n]
      BY <2>7, <3>4
    <3>. HIDE DEF i
    <3>9. Met(m)
      BY <2>3, <3>2, <3>6, <3>7, <3>8 DEF Met
    <3>. QED BY <3>9 DEF m
  <2>10. CASE ~(i <= Len(ids) /\ ids[i] = n)
    <3>1. g[m] = [s EXCEPT !.kept = Append(s.kept, f[m])]
      BY <2>2, <2>6, <2>10 DEF CopyOn
    <3>2. g[m].kept = Append(s.kept, f[m]) /\ g[m].i = i
      BY <2>5, <3>1 DEF Copying
    <3>3. \A j \in 1..Len(ids) : ids[j] # n
      <4>1. ASSUME NEW j \in 1..Len(ids), ids[j] = n
            PROVE  FALSE
        <5>1. ~(j < i)
          BY <2>3, <4>1
        <5>2. i \in 1..Len(ids) /\ i <= j
          <6>1. i \in Nat /\ 1 <= i
            BY <1>2, <2>3
          <6>2. j \in Nat /\ j <= Len(ids) /\ ~(j < i)
            BY <1>2, <5>1
          <6>. HIDE DEF i
          <6>. QED BY <1>2, <6>1, <6>2
        <5>3. i < j
          BY <2>10, <4>1, <5>2
        <5>4. ids[i] < n
          BY <4>1, <5>2, <5>3 DEF Ascending
        <5>5. i < i
          BY <2>3, <5>2, <5>4
        <5>. QED BY <5>2, <5>5
      <4>. QED BY <4>1
    <3>4. r \in S
      BY <1>4, <2>4, <3>3
    <3>5. \A j \in 1..Len(ids) : j < i <=> ids[j] < m
      <4>1. \A j \in 1..Len(ids) : ids[j] < m <=> (ids[j] < n \/ ids[j] = n)
        BY <1>2 DEF m
      <4>. QED BY <2>3, <3>3, <4>1
    <3>6. Dsts(Append(o[n], r)) = Append(Dsts(o[n]), r.dst)
      BY <2>4, <2>8, DstsAppend
    <3>7. g[m].kept = Dsts(o[m])
      BY <2>3, <2>4, <2>7, <3>2, <3>4, <3>6
    <3>. HIDE DEF i
    <3>8. Met(m)
      BY <2>3, <3>2, <3>5, <3>7 DEF Met
    <3>. QED BY <3>8 DEF m
  <2>. QED BY <2>9, <2>10
<1>7. Nat \subseteq Ok
  <2>. HIDE DEF Ok
  <2>. QED BY <1>5, <1>6, NumbersInduction
<1>8. g[k].kept = Dsts(o[k])
  BY <1>2, <1>7
<1>9. o[k] = Only(rs, S)
  BY <1>2 DEF o, Only
<1>. QED BY <1>1, <1>8, <1>9 DEF S

-----------------------------------------------------------------------------
(* The invariant of the list of pairs.                                     *)
(*                                                                         *)
(* Together: as long as nothing overlapped, one message at most is under   *)
(* way, and its request is the only open one.  LastRead: the newest answer *)
(* to a reading has the file as it is, unless a rival changed it.  Follows *)
(* says what rows and file have in common, by what is under way: a list    *)
(* that was just read numbers the records of the file, after one removal   *)
(* only the order is the same, and between the removal at the node and its *)
(* acknowledgement the file is what the node kept of the rows.  Nothing is *)
(* said while a request is open whose message was lost.                    *)

Answers(ask) ==
    [token : DOMAIN ask, code : {"2.05", "4.00", "2.04", "3.04"}, list : Seq(ListedPairs)]
ViewTyped == View!TypeOK /\ toClient \in Seq(Answers(asked))

Single == \A t, u \in open : t = u
Together ==
    ~apart =>
        /\ Single
        /\ toNode # <<>> => Len(toNode) = 1 /\ Head(toNode) \in open /\ toClient = <<>>
        /\ toClient # <<>> =>
              Len(toClient) = 1 /\ Head(toClient).token \in open /\ toNode = <<>>

LastRead ==
    (toClient # <<>> /\ ~rival) =>
        LET a == toClient[Len(toClient)]
        IN (asked[a.token].req = "pairings" /\ a.list # <<>>) => a.list = file /\ removals = 0

InStep ==
    rows # <<>> => /\ removals = 0 => Numbered(rows) /\ Dsts(rows) = file
                   /\ removals = 1 => Dsts(rows) = file
(* A request to remove names the rows of the last command. *)
AskedRight(t) ==
    (asked[t].req = "removeIndex" /\ removals = 0 /\ rows # <<>>) =>
        asked[t].ids = lastcmd /\ Ascending(lastcmd)
AnsweredRight(a) ==
    /\ (asked[a.token].req = "pairings" /\ a.list = <<>>) => InStep
    /\ asked[a.token].req # "pairings" => removals # 0
    /\ (asked[a.token].req = "removeAll" /\ a.code # "2.04") => InStep
    /\ (asked[a.token].req = "removeIndex" /\ removals = 1 /\ rows # <<>>) =>
          Numbered(rows) /\ Ascending(lastcmd) /\ file = View!Kept(Dsts(rows), lastcmd)
Follows ==
    (~apart /\ ~rival) =>
        /\ (toClient = <<>> /\ (open = {} \/ toNode # <<>>)) => InStep
        /\ toNode # <<>> => AskedRight(Head(toNode))
        /\ toClient # <<>> => AnsweredRight(Head(toClient))

ViewInv == ViewTyped /\ Together /\ LastRead /\ Follows

LEMMA SeqInLarger ==
    ASSUME NEW S, NEW T, S \subseteq T, NEW s \in Seq(S)
    PROVE  s \in Seq(T)
<1>1. Len(s) \in Nat /\ s = [i \in 1..Len(s) |-> s[i]] /\ \A i \in 1..Len(s) : s[i] \in T
  BY LenProperties, ElementOfSeq
<1>2. s \in [1..Len(s) -> T]
  BY <1>1
<1>. QED BY <1>1, <1>2

(* A fresh list numbers its pairs. *)
LEMMA RowsOfIs ==
    ASSUME NEW l \in Seq(ListedPairs)
    PROVE  /\ View!RowsOf(l) \in Seq(View!Row)
           /\ Numbered(View!RowsOf(l)) /\ Dsts(View!RowsOf(l)) = l
<1> DEFINE rs == View!RowsOf(l)
           n == Len(l)
           row(i) == [dst |-> l[i], id |-> i - 1, selected |-> 0]
<1>1. DOMAIN l = 1..n /\ n \in Nat /\ \A i \in 1..n : l[i] \in ListedPairs
  BY LenProperties, ElementOfSeq
<1>2. rs = [i \in 1..n |-> row(i)]
  BY <1>1 DEF View!RowsOf
<1>3. \A i \in 1..n : row(i) \in View!Row /\ row(i).id = i - 1 /\ row(i).dst = l[i]
  BY <1>1 DEF View!Row
<1>. HIDE DEF rs, n, row
<1>4. rs \in [1..n -> View!Row]
  BY <1>2, <1>3
<1>5. rs \in Seq(View!Row) /\ Len(rs) = n
  BY <1>1, <1>4
<1>6. \A i \in 1..n : rs[i].id = i - 1 /\ rs[i].dst = l[i]
  BY <1>2, <1>3
<1>7. Numbered(rs)
  BY <1>5, <1>6 DEF Numbered
<1>8. Dsts(rs) = l
  <2>1. Dsts(rs) \in Seq(ListedPairs) /\ Len(Dsts(rs)) = Len(l)
    BY <1>5, DstsType DEF n
  <2>2. \A i \in 1..Len(l) : Dsts(rs)[i] = l[i]
    BY <1>5, <1>6 DEF Dsts, n
  <2>. QED BY <2>1, <2>2, SeqEqual
<1>. QED BY <1>5, <1>7, <1>8 DEF rs

(* The ids of the marked rows ascend. *)
LEMMA MarkedIs ==
    ASSUME rows \in Seq(View!Row)
    PROVE  View!Marked \in Seq(Nat) /\ (Numbered(rows) => Ascending(View!Marked))
<1> DEFINE S == {r \in View!Row : r.selected = 1}
           o == Only(rows, S)
<1>1. o \in Seq(View!Row)
  BY OnlyType
<1>2. View!Marked = [i \in DOMAIN o |-> o[i].id]
  BY ViewOnly DEF View!Marked
<1>3. Numbered(rows) => Rising(o, Len(rows))
  BY SelectedRise
<1>. HIDE DEF o
<1>4. DOMAIN o = 1..Len(o) /\ Len(o) \in Nat /\ \A i \in 1..Len(o) : o[i].id \in Nat
  <2>1. \A i \in 1..Len(o) : o[i] \in View!Row
    BY <1>1, ElementOfSeq
  <2>. QED BY <1>1, <2>1, LenProperties DEF View!Row
<1> DEFINE ids == View!Marked
<1>5. ids = [i \in 1..Len(o) |-> o[i].id]
  BY <1>2, <1>4
<1>. HIDE DEF ids
<1>6. ids \in Seq(Nat) /\ Len(ids) = Len(o)
  BY <1>4, <1>5
<1>7. Rising(o, Len(rows)) => Ascending(ids)
  BY <1>5, <1>6 DEF Rising, Ascending
<1>. QED BY <1>3, <1>6, <1>7 DEF ids

(* Marking a row changes neither its number nor its pair. *)
LEMMA SelectedIs ==
    ASSUME rows \in Seq(View!Row), NEW r \in DOMAIN rows, View!setSelected(r)
    PROVE  /\ rows' \in Seq(View!Row) /\ (rows' = <<>> <=> rows = <<>>)
           /\ Dsts(rows') = Dsts(rows) /\ (Numbered(rows) => Numbered(rows'))
<1> DEFINE next == rows'
           n == Len(rows)
<1>1. DOMAIN rows = 1..n /\ n \in Nat /\ \A i \in 1..n : rows[i] \in View!Row
  BY LenProperties, ElementOfSeq
<1>2. next = [rows EXCEPT ![r].selected = 1 - rows[r].selected]
  BY DEF View!setSelected
<1>. HIDE DEF next, n
<1>3. 1 - rows[r].selected \in {0, 1}
  <2>1. rows[r].selected \in {0, 1}
    BY <1>1 DEF View!Row
  <2>. QED BY <2>1
<1>4. \A i \in 1..n : next[i] \in View!Row /\ next[i].id = rows[i].id /\ next[i].dst = rows[i].dst
  BY <1>1, <1>2, <1>3 DEF View!Row
<1>5. next \in [1..n -> View!Row]
  <2>1. DOMAIN next = 1..n /\ next = [i \in 1..n |-> next[i]]
    BY <1>1, <1>2
  <2>. QED BY <1>4, <2>1
<1>6. next \in Seq(View!Row) /\ Len(next) = n
  BY <1>1, <1>5
<1>7. r \in 1..n /\ next # <<>> /\ rows # <<>>
  <2>1. r \in 1..n
    BY <1>1
  <2>2. n # 0
    BY <1>1, <2>1
  <2>. QED BY <1>6, <2>1, <2>2, EmptySeq DEF n
<1>8. Dsts(next) = Dsts(rows)
  BY <1>4, <1>6 DEF Dsts, n
<1>9. Numbered(rows) => Numbered(next)
  BY <1>4, <1>6 DEF Numbered, n
<1>. QED BY <1>6, <1>7, <1>8, <1>9 DEF next

-----------------------------------------------------------------------------
(* The types. *)

LEMMA InitViewTyped == ASSUME Lists, View!Init PROVE ViewTyped
<1>1. rows \in Seq(View!Row) /\ lastcmd \in Seq(Nat) /\ asked \in Seq(View!Requests)
  BY EmptySeq DEF View!Init
<1>2. toNode \in Seq(DOMAIN asked) /\ toClient \in Seq(Answers(asked))
  BY EmptySeq DEF View!Init
<1>3. \A i \in DOMAIN toClient : toClient[i].token \in DOMAIN asked
  <2>1. DOMAIN toClient = {}
    BY DEF View!Init
  <2>. QED BY <2>1
<1>4. MaxRequests \in Nat /\ MaxOthers \in Nat /\ MaxCopies \in Nat
  BY DEF Lists
<1>5. copies \in [1..MaxRequests -> 0..MaxCopies] /\ others \in 0..MaxOthers
  BY <1>4 DEF View!Init
<1>6. file \in Seq(ListedPairs) /\ exists \in BOOLEAN /\ (file # <<>> => exists)
  BY DEF View!Init, Lists
<1>7. Len(asked) <= MaxRequests
  <2>1. Len(asked) = 0
    BY EmptySeq DEF View!Init
  <2>. QED BY <1>4, <2>1
<1>8. /\ open \subseteq DOMAIN asked
      /\ rival \in BOOLEAN /\ removals \in Nat /\ apart \in BOOLEAN
  BY DEF View!Init
<1>9. View!TypeOK
  BY <1>1, <1>2, <1>3, <1>5, <1>6, <1>7, <1>8 DEF View!TypeOK
<1>. QED BY <1>2, <1>9 DEF ViewTyped

LEMMA AskTyped ==
    ASSUME Lists, ViewTyped, NEW req \in {"pairings", "removeAll", "removeIndex"},
           NEW ids \in Seq(Nat), View!Ask(req, ids), rows' = rows, lastcmd' \in Seq(Nat)
    PROVE  ViewTyped'
<1> DEFINE e == [req |-> req, ids |-> ids]
           next == asked'
           n == Len(asked)
<1>1. asked \in Seq(View!Requests) /\ n \in Nat /\ n < MaxRequests /\ next = Append(asked, e)
  BY LenProperties DEF ViewTyped, View!TypeOK, View!Ask
<1>2. e \in View!Requests
  BY DEF View!Requests
<1>. HIDE DEF e
<1>3. next \in Seq(View!Requests) /\ Len(next) = n + 1
  BY <1>1, <1>2, AppendProperties
<1>. HIDE DEF next, n
<1>4. DOMAIN next = 1..n + 1 /\ DOMAIN asked = 1..n
  BY <1>1, <1>3 DEF n
<1>5. DOMAIN asked \subseteq DOMAIN next /\ n + 1 \in DOMAIN next
  BY <1>1, <1>4
<1>6. open' \subseteq DOMAIN next
  <2>1. open' = open \cup {n + 1}
    BY <1>3 DEF View!Ask, next
  <2>2. open \subseteq DOMAIN asked
    BY DEF ViewTyped, View!TypeOK
  <2>. QED BY <1>5, <2>1, <2>2
<1>7. toNode' \in Seq(DOMAIN next)
  <2>1. toNode' = Append(toNode, n + 1)
    BY <1>3 DEF View!Ask, next
  <2>2. toNode \in Seq(DOMAIN asked)
    BY DEF ViewTyped, View!TypeOK
  <2>3. toNode \in Seq(DOMAIN next)
    BY <1>5, <2>2, SeqInLarger
  <2>. QED BY <1>5, <2>1, <2>3, AppendProperties
<1>8. toClient' = toClient /\ toClient \in Seq(Answers(next))
  <2>1. toClient' = toClient /\ toClient \in Seq(Answers(asked))
    BY DEF View!Ask, ViewTyped
  <2>2. Answers(asked) \subseteq Answers(next)
    BY <1>5 DEF Answers
  <2>. QED BY <2>1, <2>2, SeqInLarger
<1>9. \A i \in DOMAIN toClient : toClient[i].token \in DOMAIN next
  BY <1>5 DEF ViewTyped, View!TypeOK
<1>10. Len(next) <= MaxRequests
  <2>1. MaxRequests \in Nat
    BY DEF Lists
  <2>. QED BY <1>1, <1>3, <2>1
<1>11. /\ UNCHANGED <<file, exists, copies, others, rival, removals>>
       /\ apart' \in BOOLEAN
  BY DEF View!Ask, View!nodeVars
<1>12. View!TypeOK'
  BY <1>3, <1>6, <1>7, <1>8, <1>9, <1>10, <1>11 DEF ViewTyped, View!TypeOK, next
<1>. QED BY <1>8, <1>12 DEF ViewTyped, next

LEMMA HandleTyped ==
    ASSUME ViewTyped, toNode # <<>>, NEW c \in {"2.05", "4.00", "2.04", "3.04"},
           NEW l \in Seq(ListedPairs), NEW f \in Seq(ListedPairs), NEW there \in BOOLEAN,
           f # <<>> => there, View!Handle(Head(toNode), c, l, f, there),
           rival' \in BOOLEAN, removals' \in Nat
    PROVE  ViewTyped'
<1> DEFINE D == DOMAIN asked
           t == Head(toNode)
           a == View!Answer(t, c, l)
           next == toClient'
<1>1. toNode \in Seq(D) /\ toClient \in Seq(Answers(asked)) /\ asked' = asked
  BY DEF ViewTyped, View!TypeOK, View!Handle
<1>2. toNode' = Tail(toNode) /\ next = Append(toClient, a)
  BY DEF View!Handle
<1>. HIDE DEF D
<1>3. t \in D /\ Tail(toNode) \in Seq(D)
  BY <1>1, HeadTailProperties
<1>. HIDE DEF t
<1>4. a \in Answers(asked)
  BY <1>3 DEF View!Answer, Answers, D
<1>. HIDE DEF a, next
<1>5. next \in Seq(Answers(asked))
  BY <1>1, <1>2, <1>4, AppendProperties
<1>6. \A i \in DOMAIN next : next[i].token \in D
  <2>1. \A i \in DOMAIN next : next[i] \in Answers(asked)
    BY <1>5
  <2>. QED BY <2>1 DEF Answers, D
<1>7. /\ file' = f /\ exists' = there
      /\ UNCHANGED <<rows, lastcmd, asked, open, copies, others, apart>>
  BY DEF View!Handle, View!viewVars
<1>8. View!TypeOK'
  BY <1>2, <1>3, <1>6, <1>7 DEF ViewTyped, View!TypeOK, D, next
<1>. QED BY <1>5, <1>7, <1>8 DEF ViewTyped, next

LEMMA ParseTyped ==
    ASSUME ViewTyped, View!parseData
    PROVE  ViewTyped'
<1> DEFINE a == Head(toClient)
           req == asked[a.token].req
<1>1. toClient \in Seq(Answers(asked)) /\ toClient # <<>> /\ toClient' = Tail(toClient)
  BY DEF ViewTyped, View!parseData
<1>2. a \in Answers(asked) /\ Tail(toClient) \in Seq(Answers(asked))
  BY <1>1, HeadTailProperties
<1>3. rows \in Seq(View!Row) /\ lastcmd \in Seq(Nat) /\ asked \in Seq(View!Requests)
  BY DEF ViewTyped, View!TypeOK
<1>. HIDE DEF a
<1>4. a.token \in DOMAIN asked /\ a.list \in Seq(ListedPairs)
  BY <1>2 DEF Answers
<1>5. req \in {"pairings", "removeAll", "removeIndex"}
  <2>1. asked[a.token] \in View!Requests
    BY <1>3, <1>4
  <2>. QED BY <2>1 DEF View!Requests
<1>. HIDE DEF req
<1>6. View!NewRows(req, a.code, a.list) \in Seq(View!Row)
  <2>1. View!RowsOf(a.list) \in Seq(View!Row)
    BY <1>4, RowsOfIs
  <2>2. View!Acked \in Seq(View!Row)
    BY <1>3, AckedType
  <2>3. <<>> \in Seq(View!Row)
    BY EmptySeq
  <2>4. CASE req = "pairings"
    BY <1>3, <2>1, <2>4 DEF View!NewRows
  <2>5. CASE req = "removeAll"
    BY <1>3, <2>3, <2>5 DEF View!NewRows
  <2>6. CASE req = "removeIndex"
    BY <2>2, <2>6 DEF View!NewRows
  <2>. QED BY <1>5, <2>4, <2>5, <2>6
<1>7. rows' \in Seq(View!Row) /\ open' \subseteq open
  <2>1. \/ rows' = View!NewRows(req, a.code, a.list) /\ open' = open \ {a.token}
        \/ rows' = rows /\ open' = open
    BY DEF View!parseData, a, req
  <2>. QED BY <1>3, <1>6, <2>1
<1>8. UNCHANGED <<file, exists, lastcmd, asked, copies, toNode, others, rival, removals>>
  BY DEF View!parseData, View!nodeVars
<1>9. apart' \in BOOLEAN
  <2>1. apart' = FALSE \/ apart' = apart
    BY DEF View!parseData
  <2>. QED BY <2>1 DEF ViewTyped, View!TypeOK
<1> DEFINE next == toClient'
<1>10. next \in Seq(Answers(asked))
  BY <1>1, <1>2
<1>. HIDE DEF next
<1>11. \A i \in DOMAIN next : next[i].token \in DOMAIN asked
  <2>1. \A i \in DOMAIN next : next[i] \in Answers(asked)
    BY <1>10
  <2>. QED BY <2>1 DEF Answers
<1>12. open' \subseteq DOMAIN asked
  BY <1>7 DEF ViewTyped, View!TypeOK
<1>13. View!TypeOK'
  BY <1>7, <1>8, <1>9, <1>11, <1>12 DEF ViewTyped, View!TypeOK, next
<1>. QED BY <1>8, <1>10, <1>13 DEF ViewTyped, next

LEMMA StepViewTyped == ASSUME Lists, ViewTyped, [View!Next]_(View!viewFileVars) PROVE ViewTyped'
<1>1. /\ file \in Seq(ListedPairs) /\ exists \in BOOLEAN /\ (file # <<>> => exists)
      /\ rows \in Seq(View!Row) /\ lastcmd \in Seq(Nat) /\ rival \in BOOLEAN
      /\ <<>> \in Seq(Nat) /\ <<>> \in Seq(ListedPairs) /\ <<>> \in Seq(View!Row)
  BY EmptySeq DEF ViewTyped, View!TypeOK
<1>2. removals \in Nat /\ removals + 1 \in Nat /\ 0 \in Nat
  BY DEF ViewTyped, View!TypeOK
<1>3. CASE View!getpairingslist \/ View!clearpairingslist
  <2>1. rows' = rows /\ lastcmd' \in Seq(Nat)
    BY <1>1, <1>3 DEF View!getpairingslist, View!clearpairingslist, View!viewVars
  <2>2. View!Ask("pairings", <<>>) \/ View!Ask("removeAll", <<>>)
    BY <1>3 DEF View!getpairingslist, View!clearpairingslist
  <2>. QED BY <1>1, <2>1, <2>2, AskTyped
<1>4. CASE View!removePairings
  <2>1. View!Marked \in Seq(Nat)
    BY <1>1, MarkedIs
  <2>2. rows' = rows /\ lastcmd' \in Seq(Nat)
    BY <1>4, <2>1 DEF View!removePairings
  <2>3. View!Ask("removeAll", <<>>) \/ View!Ask("removeIndex", View!Marked)
    BY <1>4 DEF View!removePairings
  <2>. QED BY <1>1, <2>1, <2>2, <2>3, AskTyped
<1>5. ASSUME NEW r \in DOMAIN rows, View!setSelected(r)
      PROVE  ViewTyped'
  <2>1. rows' \in Seq(View!Row)
    BY <1>1, <1>5, SelectedIs
  <2>2. UNCHANGED <<file, exists, lastcmd, asked, open, copies, toNode, toClient,
                    others, rival, removals, apart>>
    BY <1>5 DEF View!setSelected, View!nodeVars, View!requestVars, View!pastVars
  <2>. QED BY <2>1, <2>2 DEF ViewTyped, View!TypeOK
<1>6. CASE View!NodeReads
  <2>1. rival' \in BOOLEAN /\ removals' \in Nat /\ toNode # <<>>
    BY <1>1, <1>2, <1>6 DEF View!NodeReads
  <2>2. \/ View!Handle(Head(toNode), "2.05", file, file, exists)
        \/ View!Handle(Head(toNode), "4.00", file, file, exists)
    BY <1>6 DEF View!NodeReads
  <2>. QED BY <1>1, <2>1, <2>2, HandleTyped
<1>7. CASE View!NodeRemovesAll
  <2>1. rival' \in BOOLEAN /\ removals' \in Nat /\ toNode # <<>>
    BY <1>1, <1>2, <1>7 DEF View!NodeRemovesAll
  <2>2. \/ View!Handle(Head(toNode), "2.04", <<>>, <<>>, FALSE)
        \/ View!Handle(Head(toNode), "4.00", <<>>, <<>>, FALSE)
    BY <1>7 DEF View!NodeRemovesAll
  <2>. QED BY <1>1, <2>1, <2>2, HandleTyped
<1>8. CASE View!NodeRemoves
  <2> DEFINE kept == View!Kept(file, asked[Head(toNode)].ids)
  <2>1. rival' \in BOOLEAN /\ removals' \in Nat /\ toNode # <<>>
    BY <1>1, <1>2, <1>8 DEF View!NodeRemoves
  <2>2. \/ View!Handle(Head(toNode), "2.05", <<>>, kept, exists)
        \/ View!Handle(Head(toNode), "3.04", <<>>, kept, exists)
        \/ View!Handle(Head(toNode), "2.04", <<>>, kept, exists)
    BY <1>8 DEF View!NodeRemoves
  <2>3. kept \in Seq(ListedPairs) /\ (kept # <<>> => exists)
    <3>1. kept \in Seq(ListedPairs)
      BY <1>1, KeptType
    <3>2. file = <<>> => kept = <<>>
      <4>1. file = <<>> => Len(file) = 0
        BY EmptySeq
      <4>. QED BY <1>1, <4>1, KeptOfNothing
    <3>. HIDE DEF kept
    <3>. QED BY <1>1, <3>1, <3>2
  <2>. HIDE DEF kept
  <2>. QED BY <1>1, <2>1, <2>2, <2>3, HandleTyped
<1>9. ASSUME NEW p \in ListedPairs, View!Joined(p)
      PROVE  ViewTyped'
  <2> DEFINE next == file'
  <2>1. next = Append(file, p) /\ exists' = TRUE /\ rival' = TRUE
    BY <1>9 DEF View!Joined
  <2>. HIDE DEF next
  <2>2. next \in Seq(ListedPairs)
    BY <1>1, <2>1, AppendProperties
  <2>3. others' \in 0..MaxOthers
    <3>1. others \in 0..MaxOthers /\ others < MaxOthers /\ others' = others + 1
      BY <1>9 DEF View!Joined, ViewTyped, View!TypeOK
    <3>2. MaxOthers \in Nat
      BY DEF Lists
    <3>. QED BY <3>1, <3>2
  <2>4. UNCHANGED <<rows, lastcmd, asked, open, copies, toNode, toClient, removals, apart>>
    BY <1>9 DEF View!Joined, View!viewVars, View!requestVars
  <2>. QED BY <2>1, <2>2, <2>3, <2>4 DEF ViewTyped, View!TypeOK, next
<1>10. CASE View!Emptied
  <2>1. file' = <<>> /\ exists' = FALSE /\ rival' = TRUE
    BY <1>10 DEF View!Emptied
  <2>2. file' \in Seq(ListedPairs) /\ ~(file' # <<>>)
    BY <1>1, <2>1
  <2>3. others' \in 0..MaxOthers
    <3>1. others \in 0..MaxOthers /\ others < MaxOthers /\ others' = others + 1
      BY <1>10 DEF View!Emptied, ViewTyped, View!TypeOK
    <3>2. MaxOthers \in Nat
      BY DEF Lists
    <3>. QED BY <3>1, <3>2
  <2>4. UNCHANGED <<rows, lastcmd, asked, open, copies, toNode, toClient, removals, apart>>
    BY <1>10 DEF View!Emptied, View!viewVars, View!requestVars
  <2>. QED BY <2>1, <2>2, <2>3, <2>4 DEF ViewTyped, View!TypeOK
<1>11. CASE View!parseData
  BY <1>11, ParseTyped
<1>12. ASSUME NEW t \in open, View!Resend(t) \/ View!GiveUp(t)
       PROVE  ViewTyped'
  <2>1. /\ UNCHANGED <<file, exists, rows, lastcmd, asked, toClient, others, rival, removals>>
        /\ apart' = TRUE
    BY <1>12 DEF View!Resend, View!GiveUp, View!nodeVars, View!viewVars
  <2>2. t \in DOMAIN asked /\ open \subseteq DOMAIN asked
    BY DEF ViewTyped, View!TypeOK
  <2>3. open' \subseteq open
    BY <1>12 DEF View!Resend, View!GiveUp
  <2>4. toNode' \in Seq(DOMAIN asked)
    <3> DEFINE D == DOMAIN asked
    <3>1. toNode \in Seq(D)
      BY DEF ViewTyped, View!TypeOK
    <3>2. toNode' = toNode \/ toNode' = Append(toNode, t)
      BY <1>12 DEF View!Resend, View!GiveUp
    <3>3. t \in D
      BY <2>2
    <3>. HIDE DEF D
    <3>4. Append(toNode, t) \in Seq(D)
      BY <3>1, <3>3, AppendProperties
    <3>. QED BY <3>1, <3>2, <3>4 DEF D
  <2>5. copies' \in [1..MaxRequests -> 0..MaxCopies]
    <3>1. copies \in [1..MaxRequests -> 0..MaxCopies]
      BY DEF ViewTyped, View!TypeOK
    <3>2. t \in 1..MaxRequests
      <4>1. t \in 1..Len(asked) /\ Len(asked) \in Nat /\ Len(asked) <= MaxRequests
        BY <2>2, LenProperties DEF ViewTyped, View!TypeOK
      <4>2. MaxRequests \in Nat
        BY DEF Lists
      <4>. QED BY <4>1, <4>2
    <3>3. \/ copies' = copies
          \/ copies[t] < MaxCopies /\ copies' = [copies EXCEPT ![t] = copies[t] + 1]
      BY <1>12 DEF View!Resend, View!GiveUp
    <3>4. copies[t] < MaxCopies => copies[t] + 1 \in 0..MaxCopies
      <4>1. MaxCopies \in Nat
        BY DEF Lists
      <4>. QED BY <3>1, <3>2, <4>1
    <3>. QED BY <3>1, <3>3, <3>4
  <2>. QED BY <2>1, <2>2, <2>3, <2>4, <2>5 DEF ViewTyped, View!TypeOK
<1>13. CASE View!RequestLost
  <2>1. toNode' \in Seq(DOMAIN asked)
    <3> DEFINE D == DOMAIN asked
    <3>1. toNode \in Seq(D) /\ toNode # <<>> /\ toNode' = Tail(toNode)
      BY <1>13 DEF ViewTyped, View!TypeOK, View!RequestLost
    <3>. HIDE DEF D
    <3>2. Tail(toNode) \in Seq(D)
      BY <3>1, HeadTailProperties
    <3>. QED BY <3>1, <3>2 DEF D
  <2>2. UNCHANGED <<file, exists, rows, lastcmd, asked, open, copies, toClient, others,
                    rival, removals, apart>>
    BY <1>13 DEF View!RequestLost, View!nodeVars, View!viewVars, View!pastVars
  <2>. QED BY <2>1, <2>2 DEF ViewTyped, View!TypeOK
<1>14. CASE View!AnswerLost
  <2> DEFINE A == Answers(asked)
             next == toClient'
  <2>1. toClient \in Seq(A) /\ toClient # <<>> /\ next = Tail(toClient)
    BY <1>14 DEF ViewTyped, View!AnswerLost
  <2>. HIDE DEF A, next
  <2>2. next \in Seq(A)
    BY <2>1, HeadTailProperties
  <2>3. \A i \in DOMAIN next : next[i].token \in DOMAIN asked
    <3>1. \A i \in DOMAIN next : next[i] \in A
      BY <2>2
    <3>. QED BY <3>1 DEF A, Answers
  <2>4. UNCHANGED <<file, exists, rows, lastcmd, asked, open, copies, toNode, others,
                    rival, removals, apart>>
    BY <1>14 DEF View!AnswerLost, View!nodeVars, View!viewVars, View!pastVars
  <2>5. View!TypeOK'
    BY <2>3, <2>4 DEF ViewTyped, View!TypeOK, next
  <2>. QED BY <2>2, <2>4, <2>5 DEF ViewTyped, A, next
<1>15. CASE UNCHANGED View!viewFileVars
  BY <1>15 DEF ViewTyped, View!TypeOK, View!viewFileVars, View!nodeVars, View!viewVars,
               View!requestVars, View!pastVars
<1>. QED
  BY <1>3, <1>4, <1>5, <1>6, <1>7, <1>8, <1>9, <1>10, <1>11, <1>12, <1>13, <1>14, <1>15
  DEF View!Next

-----------------------------------------------------------------------------
(* Messages at the ends of the channels. *)

LEMMA OneMessage ==
    ASSUME NEW S, NEW s \in Seq(S), Len(s) = 1
    PROVE  s # <<>> /\ Tail(s) = <<>> /\ Head(s) = s[1]
<1>1. s # <<>>
  BY EmptySeq
<1> DEFINE t == Tail(s)
<1>2. t \in Seq(S) /\ Len(t) = 0
  BY <1>1, HeadTailProperties
<1>3. Head(s) = s[1]
  BY <1>1
<1>. HIDE DEF t
<1>4. t = <<>>
  BY <1>2, EmptySeq
<1>. QED BY <1>1, <1>3, <1>4 DEF t

LEMMA OneMessageSent == \A e : LET s == Append(<<>>, e)
                               IN s # <<>> /\ Len(s) = 1 /\ Head(s) = e
<1>. SUFFICES ASSUME NEW e
              PROVE  LET s == Append(<<>>, e)
                     IN s # <<>> /\ Len(s) = 1 /\ Head(s) = e
  OBVIOUS
<1> DEFINE n == <<>>
           s == Append(n, e)
<1>1. n \in Seq({e}) /\ Len(n) = 0 /\ e \in {e}
  BY EmptySeq
<1>. HIDE DEF n
<1>2. s \in Seq({e}) /\ Len(s) = 1 /\ s[1] = e
  BY <1>1, AppendProperties
<1>. HIDE DEF s
<1>3. s # <<>> /\ Head(s) = s[1]
  BY <1>2, OneMessage
<1>4. s # <<>> /\ Len(s) = 1 /\ Head(s) = e
  BY <1>2, <1>3
<1>. QED BY <1>4 DEF s, n

LEMMA LastOfTail ==
    ASSUME NEW S, NEW s \in Seq(S), s # <<>>, Tail(s) # <<>>
    PROVE  Tail(s)[Len(Tail(s))] = s[Len(s)]
<1> DEFINE t == Tail(s)
<1>1. /\ t \in Seq(S) /\ Len(t) = Len(s) - 1
      /\ \A i \in 1..Len(t) : t[i] = s[i + 1]
  BY HeadTailProperties
<1>2. t # <<>>
  OBVIOUS
<1>. HIDE DEF t
<1>3. Len(t) \in 1..Len(t) /\ Len(t) + 1 = Len(s)
  <2>1. Len(t) \in Nat /\ Len(t) # 0 /\ Len(s) \in Nat
    BY <1>1, <1>2, EmptySeq, LenProperties
  <2>. QED BY <1>1, <2>1
<1>4. t[Len(t)] = s[Len(t) + 1]
  BY <1>1, <1>3
<1>. QED BY <1>3, <1>4 DEF t

LEMMA LastOfAppend ==
    ASSUME NEW S, NEW s \in Seq(S), NEW e \in S
    PROVE  Append(s, e) # <<>> /\ Append(s, e)[Len(Append(s, e))] = e
<1> DEFINE t == Append(s, e)
<1>1. t \in Seq(S) /\ Len(t) = Len(s) + 1 /\ t[Len(s) + 1] = e /\ Len(s) \in Nat
  BY AppendProperties, LenProperties
<1>. HIDE DEF t
<1>2. t # <<>>
  BY <1>1, EmptySeq
<1>3. t[Len(t)] = e
  BY <1>1
<1>. QED BY <1>2, <1>3 DEF t

(* While nothing overlaps a message is alone, and the only one waited for. *)
LEMMA AloneUnderWay ==
    ASSUME ViewTyped, Together, ~apart
    PROVE  /\ Single
           /\ toNode # <<>> => /\ Tail(toNode) = <<>> /\ toClient = <<>>
                               /\ Head(toNode) \in open
           /\ toClient # <<>> => /\ Tail(toClient) = <<>> /\ toNode = <<>>
                                 /\ Head(toClient).token \in open
                                 /\ Head(toClient) = toClient[Len(toClient)]
<1>1. toNode \in Seq(DOMAIN asked) /\ toClient \in Seq(Answers(asked))
  BY DEF ViewTyped, View!TypeOK
<1>2. ASSUME Len(toNode) = 1
      PROVE  Tail(toNode) = <<>>
  BY <1>1, <1>2, OneMessage
<1>3. ASSUME Len(toClient) = 1
      PROVE  Tail(toClient) = <<>> /\ Head(toClient) = toClient[Len(toClient)]
  <2>1. Tail(toClient) = <<>> /\ Head(toClient) = toClient[1]
    BY <1>1, <1>3, OneMessage
  <2>. QED BY <1>3, <2>1
<1>. QED BY <1>2, <1>3 DEF Together

-----------------------------------------------------------------------------
(* The steps. *)

LEMMA AskKeeps ==
    ASSUME ViewInv, NEW req \in {"pairings", "removeAll", "removeIndex"},
           NEW ids \in Seq(Nat), View!Ask(req, ids), rows' = rows,
           req = "removeIndex" => lastcmd' = ids /\ (Numbered(rows) => Ascending(ids))
    PROVE  Together' /\ LastRead' /\ Follows'
<1> DEFINE e == [req |-> req, ids |-> ids]
<1>n. PICK n : n = Len(asked')
  OBVIOUS
<1>1. /\ open' = open \cup {n} /\ toNode' = Append(toNode, n)
      /\ apart' = (apart \/ ~View!Quiet)
      /\ UNCHANGED <<file, toClient, rival, removals>>
  BY <1>n DEF View!Ask, View!nodeVars
<1>2. asked'[n] = e /\ \A t \in DOMAIN asked : asked'[t] = asked[t]
  <2> DEFINE next == asked'
  <2>1. asked \in Seq(View!Requests) /\ next = Append(asked, e)
    BY DEF ViewInv, ViewTyped, View!TypeOK, View!Ask
  <2>2. e \in View!Requests
    BY DEF View!Requests
  <2>. HIDE DEF next, e
  <2>3. /\ Len(next) = Len(asked) + 1 /\ next[Len(asked) + 1] = e
        /\ \A t \in 1..Len(asked) : next[t] = asked[t]
        /\ DOMAIN asked = 1..Len(asked)
    BY <2>1, <2>2, AppendProperties, LenProperties
  <2>. QED BY <1>n, <2>3 DEF next
<1>. HIDE DEF e
<1>3. LastRead'
  <2> DEFINE a == toClient[Len(toClient)]
  <2>1. toClient # <<>> => asked'[a.token] = asked[a.token]
    <3>1. toClient \in Seq(Answers(asked))
      BY DEF ViewInv, ViewTyped
    <3>2. toClient # <<>> => a \in Answers(asked)
      <4>1. toClient # <<>> => Len(toClient) \in 1..Len(toClient)
        BY <3>1, EmptySeq, LenProperties
      <4>. QED BY <3>1, <4>1, ElementOfSeq
    <3>. HIDE DEF a
    <3>3. toClient # <<>> => a.token \in DOMAIN asked
      BY <3>2 DEF Answers
    <3>. QED BY <1>2, <3>3
  <2>. QED BY <1>1, <2>1 DEF ViewInv, LastRead
<1>4. CASE apart'
  BY <1>3, <1>4 DEF Together, Follows
<1>5. CASE ~apart'
  <2>1. ~apart /\ open = {} /\ toNode = <<>> /\ toClient = <<>>
    BY <1>1, <1>5 DEF View!Quiet
  <2>2. open' = {n} /\ toClient' = <<>>
    BY <1>1, <2>1
  <2>3. toNode' # <<>> /\ Len(toNode') = 1 /\ Head(toNode') = n
    BY <1>1, <2>1, OneMessageSent
  <2>4. Together'
    BY <2>2, <2>3 DEF Together, Single
  <2>5. ~rival => InStep
    BY <2>1 DEF ViewInv, Follows
  <2>6. ~rival' => InStep'
    BY <1>1, <2>5 DEF InStep
  <2>7. ~rival' => AskedRight(n)'
    <3>1. asked'[n].req = req /\ asked'[n].ids = ids
      BY <1>2 DEF e
    <3>2. (~rival /\ removals = 0 /\ rows # <<>>) => Numbered(rows)
      BY <2>5 DEF InStep
    <3>. QED BY <1>1, <3>1, <3>2 DEF AskedRight
  <2>8. Follows'
    <3>1. toClient' = <<>>
      BY <2>2
    <3>2. Head(toNode') = n /\ (~rival' => AskedRight(n)')
      BY <2>3, <2>7
    <3>3. ~rival' => AskedRight(Head(toNode))'
      BY <3>2 DEF AskedRight
    <3>. QED BY <2>6, <3>1, <3>3 DEF Follows
  <2>. QED BY <1>3, <2>4, <2>8
<1>. QED BY <1>4, <1>5 DEF View!Ask

(* What every request the node handles does to the channels. *)
LEMMA HandleKeeps ==
    ASSUME ViewInv, toNode # <<>>, NEW t, t = Head(toNode),
           NEW c, NEW l, NEW f, NEW there, View!Handle(t, c, l, f, there),
           NEW a, a = View!Answer(t, c, l)
    PROVE  /\ Together'
           /\ (asked[t].req = "pairings" /\ l # <<>> /\ ~rival' => l = file' /\ removals' = 0)
              => LastRead'
           /\ (~apart /\ ~rival' => AnsweredRight(a)') => Follows'
<1>1. /\ toNode' = Tail(toNode) /\ toClient' = Append(toClient, a)
      /\ UNCHANGED <<rows, asked, open, apart>>
  BY DEF View!Handle, View!viewVars
<1>2. a.token = t /\ a.list = l
  BY DEF View!Answer
<1>3. ~apart => /\ Single /\ toNode' = <<>> /\ t \in open
                /\ toClient' # <<>> /\ Len(toClient') = 1 /\ Head(toClient') = a
  <2>1. ~apart => Single /\ Tail(toNode) = <<>> /\ toClient = <<>> /\ t \in open
    BY AloneUnderWay DEF ViewInv
  <2>. QED BY <1>1, <2>1, OneMessageSent
<1>4. Together'
  BY <1>1, <1>2, <1>3 DEF Together, Single
<1>5. ASSUME asked[t].req = "pairings" /\ l # <<>> /\ ~rival' => l = file' /\ removals' = 0
      PROVE  LastRead'
  <2> DEFINE next == toClient'
  <2>1. next # <<>> /\ next[Len(next)] = a
    <3> DEFINE S == Answers(asked) \cup {a}
    <3>1. toClient \in Seq(S)
      <4>1. toClient \in Seq(Answers(asked)) /\ Answers(asked) \subseteq S
        BY DEF ViewInv, ViewTyped
      <4>. QED BY <4>1, SeqInLarger
    <3>2. a \in S
      OBVIOUS
    <3>. HIDE DEF S, next
    <3>3. next = Append(toClient, a)
      BY <1>1 DEF next
    <3>. QED BY <3>1, <3>2, <3>3, LastOfAppend
  <2>. QED BY <1>1, <1>2, <1>5, <2>1 DEF LastRead
<1>6. ASSUME ~apart /\ ~rival' => AnsweredRight(a)'
      PROVE  Follows'
  <2>1. ~apart => toNode' = <<>> /\ toClient' # <<>> /\ Head(toClient') = a
    BY <1>3
  <2>2. (~apart' /\ ~rival') => AnsweredRight(Head(toClient))'
    <3>1. (~apart /\ ~rival') => AnsweredRight(a)'
      BY <1>6
    <3>2. ~apart' => ~apart /\ Head(toClient') = a
      BY <1>1, <2>1
    <3>. QED BY <3>1, <3>2 DEF AnsweredRight
  <2>. QED BY <1>1, <2>1, <2>2 DEF Follows
<1>. QED BY <1>4, <1>5, <1>6

LEMMA ReadsKeeps == ASSUME ViewInv, View!NodeReads PROVE Together' /\ LastRead' /\ Follows'
<1>1. PICK t : t = Head(toNode)
  OBVIOUS
<1>2. PICK c, l : c = (IF exists THEN "2.05" ELSE "4.00") /\ l = file
  OBVIOUS
<1>3. PICK a : a = View!Answer(t, c, l)
  OBVIOUS
<1>4. /\ toNode # <<>> /\ asked[t].req = "pairings" /\ View!Handle(t, c, l, l, exists)
      /\ file # <<>> => rival' = FALSE /\ removals' = 0
      /\ file = <<>> => UNCHANGED <<rival, removals>>
  BY <1>1, <1>2 DEF View!NodeReads
<1>5. UNCHANGED <<file, rows, asked>>
  BY <1>2, <1>4 DEF View!Handle, View!viewVars
<1>6. l = file' /\ (l # <<>> => removals' = 0)
  BY <1>2, <1>4, <1>5
<1>7. a.token = t /\ a.list = l
  BY <1>3 DEF View!Answer
<1>8. ASSUME ~apart, ~rival'
      PROVE  AnsweredRight(a)'
  <2>1. CASE file # <<>>
    BY <1>2, <1>4, <1>5, <1>7, <2>1 DEF AnsweredRight
  <2>2. CASE file = <<>>
    <3>1. ~rival /\ toClient = <<>>
      BY <1>4, <1>8, <2>2, AloneUnderWay DEF ViewInv
    <3>2. InStep
      BY <1>4, <1>8, <3>1 DEF ViewInv, Follows
    <3>3. InStep'
      BY <1>4, <1>5, <2>2, <3>2 DEF InStep
    <3>. QED BY <1>4, <1>5, <1>7, <3>3 DEF AnsweredRight
  <2>. QED BY <2>1, <2>2
<1>. QED BY <1>1, <1>3, <1>4, <1>6, <1>8, HandleKeeps

LEMMA RemovesAllKeeps ==
    ASSUME ViewInv, View!NodeRemovesAll
    PROVE  Together' /\ LastRead' /\ Follows'
<1>1. PICK t : t = Head(toNode)
  OBVIOUS
<1>2. PICK c, l : c = (IF exists THEN "2.04" ELSE "4.00") /\ l = <<>>
  OBVIOUS
<1>3. PICK a : a = View!Answer(t, c, l)
  OBVIOUS
<1>4. /\ toNode # <<>> /\ asked[t].req = "removeAll" /\ View!Handle(t, c, l, l, FALSE)
      /\ removals' = removals + 1 /\ UNCHANGED rival
  BY <1>1, <1>2 DEF View!NodeRemovesAll
<1>5. file' = <<>> /\ UNCHANGED <<rows, asked>>
  BY <1>2, <1>4 DEF View!Handle, View!viewVars
<1>6. a.token = t /\ a.list = l /\ a.code = c
  BY <1>3 DEF View!Answer
<1>7. removals \in Nat
  BY DEF ViewInv, ViewTyped, View!TypeOK
<1>8. ASSUME ~apart, ~rival'
      PROVE  AnsweredRight(a)'
  <2>1. removals' # 0
    BY <1>4, <1>7
  <2>2. InStep
    <3>1. ~rival /\ toClient = <<>>
      BY <1>4, <1>8, AloneUnderWay DEF ViewInv
    <3>. QED BY <1>4, <1>8, <3>1 DEF ViewInv, Follows
  <2>3. (c # "2.04") => InStep'
    <3>. SUFFICES ASSUME c # "2.04", rows # <<>>, removals' = 1
                  PROVE  Dsts(rows) = file'
      BY <1>5, <2>1 DEF InStep
    <3>1. file = <<>>
      <4>1. ~exists
        BY <1>2
      <4>. QED BY <4>1 DEF ViewInv, ViewTyped, View!TypeOK
    <3>2. removals = 0
      BY <1>4, <1>7
    <3>. QED BY <1>5, <2>2, <3>1, <3>2 DEF InStep
  <2>. QED BY <1>4, <1>5, <1>6, <2>1, <2>3 DEF AnsweredRight
<1>. QED BY <1>1, <1>3, <1>4, <1>8, HandleKeeps

LEMMA RemovesKeeps ==
    ASSUME ViewInv, View!NodeRemoves
    PROVE  Together' /\ LastRead' /\ Follows'
<1>1. PICK t : t = Head(toNode)
  OBVIOUS
<1>2. PICK c, l, f : /\ c = (IF ~exists THEN "2.05" ELSE IF file = <<>> THEN "3.04" ELSE "2.04")
                     /\ l = <<>> /\ f = View!Kept(file, asked[t].ids)
  OBVIOUS
<1>3. PICK a : a = View!Answer(t, c, l)
  OBVIOUS
<1>4. /\ toNode # <<>> /\ asked[t].req = "removeIndex" /\ View!Handle(t, c, l, f, exists)
      /\ removals' = removals + 1 /\ UNCHANGED rival
  BY <1>1, <1>2 DEF View!NodeRemoves
<1>5. file' = f /\ UNCHANGED <<rows, lastcmd, asked>>
  BY <1>4 DEF View!Handle, View!viewVars
<1>6. a.token = t
  BY <1>3 DEF View!Answer
<1>7. removals \in Nat
  BY DEF ViewInv, ViewTyped, View!TypeOK
<1>8. ASSUME ~apart, ~rival'
      PROVE  AnsweredRight(a)'
  <2>1. removals' # 0
    BY <1>4, <1>7
  <2>2. InStep /\ AskedRight(t)
    <3>1. ~rival /\ toClient = <<>>
      BY <1>4, <1>8, AloneUnderWay DEF ViewInv
    <3>. QED BY <1>1, <1>4, <1>8, <3>1 DEF ViewInv, Follows, AskedRight
  <2>3. ASSUME removals' = 1, rows # <<>>
        PROVE  Numbered(rows) /\ Ascending(lastcmd) /\ f = View!Kept(Dsts(rows), lastcmd)
    <3>1. removals = 0
      BY <1>4, <1>7, <2>3
    <3>2. Numbered(rows) /\ Dsts(rows) = file
      BY <2>2, <2>3, <3>1 DEF InStep
    <3>3. asked[t].ids = lastcmd /\ Ascending(lastcmd)
      BY <1>4, <2>2, <2>3, <3>1 DEF AskedRight
    <3>. QED BY <1>2, <3>2, <3>3
  <2>4. asked'[a.token].req = "removeIndex"
    BY <1>4, <1>5, <1>6
  <2>5. (removals' = 1 /\ rows' # <<>>) =>
            Numbered(rows') /\ Ascending(lastcmd') /\ file' = View!Kept(Dsts(rows'), lastcmd')
    BY <1>5, <2>3
  <2>6. View!Kept(Dsts(rows), lastcmd)' = View!Kept(Dsts(rows'), lastcmd')
    BY DEF View!Kept, Dsts
  <2>. QED BY <2>1, <2>4, <2>5, <2>6 DEF AnsweredRight
<1>. QED BY <1>1, <1>3, <1>4, <1>8, HandleKeeps

LEMMA ParseKeeps == ASSUME ViewInv, View!parseData PROVE Together' /\ LastRead' /\ Follows'
<1>1. PICK a : a = Head(toClient)
  OBVIOUS
<1>2. PICK req : req = asked[a.token].req
  OBVIOUS
<1>3. /\ toClient # <<>> /\ toClient' = Tail(toClient)
      /\ UNCHANGED <<file, exists, lastcmd, asked, toNode, rival, removals>>
  BY DEF View!parseData, View!nodeVars
<1>4. a.token \in open => rows' = View!NewRows(req, a.code, a.list) /\ open' = open \ {a.token}
  BY <1>1, <1>2 DEF View!parseData
<1>5. toClient \in Seq(Answers(asked)) /\ rows \in Seq(View!Row) /\ lastcmd \in Seq(Nat)
      /\ asked \in Seq(View!Requests)
  BY DEF ViewInv, ViewTyped, View!TypeOK
<1>6. a.token \in DOMAIN asked /\ a.list \in Seq(ListedPairs)
  <2>1. a \in Answers(asked)
    <3>. HIDE DEF Answers
    <3>. QED BY <1>1, <1>3, <1>5, HeadTailProperties
  <2>. QED BY <2>1 DEF Answers
<1>7. LastRead'
  <2>1. toClient' # <<>> => toClient'[Len(toClient')] = toClient[Len(toClient)]
    BY <1>3, <1>5, LastOfTail
  <2>. QED BY <1>3, <2>1 DEF ViewInv, LastRead
<1>8. CASE apart'
  BY <1>7, <1>8 DEF Together, Follows
<1>9. CASE ~apart'
  <2> DEFINE fresh == req = "pairings" /\ a.list # <<>>
  <2>1. /\ a.token \in open /\ open' = {} /\ toNode = <<>> /\ toClient' = <<>>
        /\ a = toClient[Len(toClient)]
        /\ fresh \/ ~apart
    <3>1. CASE apart
      <4>1. /\ req = "pairings" /\ a.token \in open /\ a.list # <<>>
            /\ open = {a.token} /\ toNode = <<>> /\ Len(toClient) = 1
        BY <1>1, <1>2, <1>9, <3>1 DEF View!parseData
      <4>2. Tail(toClient) = <<>> /\ a = toClient[Len(toClient)]
        <5>1. Tail(toClient) = <<>> /\ Head(toClient) = toClient[1]
          BY <1>5, <4>1, OneMessage
        <5>. QED BY <1>1, <4>1, <5>1
      <4>. QED BY <1>3, <1>4, <4>1, <4>2
    <3>2. CASE ~apart
      <4>1. /\ Single /\ Tail(toClient) = <<>> /\ toNode = <<>> /\ a.token \in open
            /\ a = toClient[Len(toClient)]
        BY <1>1, <1>3, <3>2, AloneUnderWay DEF ViewInv
      <4>2. open \ {a.token} = {}
        BY <4>1 DEF Single
      <4>. QED BY <1>3, <1>4, <3>2, <4>1, <4>2
    <3>. QED BY <3>1, <3>2
  <2>2. Together'
    BY <1>3, <2>1 DEF Together, Single
  <2>3. rows' = View!NewRows(req, a.code, a.list)
    BY <1>4, <2>1
  <2>4. ASSUME ~rival
        PROVE  InStep'
    <3>1. CASE fresh
      <4>1. rows' = View!RowsOf(a.list)
        BY <2>3, <3>1 DEF View!NewRows
      <4>2. a.list = file /\ removals = 0
        BY <1>2, <1>3, <2>1, <2>4, <3>1 DEF ViewInv, LastRead
      <4>3. Numbered(rows') /\ Dsts(rows') = file
        BY <1>6, <4>1, <4>2, RowsOfIs
      <4>. QED BY <1>3, <4>2, <4>3 DEF InStep
    <3>2. CASE ~fresh
      <4>1. ~apart /\ AnsweredRight(a)
        BY <1>1, <1>3, <2>1, <2>4, <3>2 DEF ViewInv, Follows
      <4>2. CASE req = "pairings"
        <5>1. rows' = rows
          BY <2>3, <3>2, <4>2 DEF View!NewRows
        <5>2. InStep
          BY <1>2, <3>2, <4>1, <4>2 DEF AnsweredRight
        <5>. QED BY <1>3, <5>1, <5>2 DEF InStep
      <4>3. CASE req = "removeAll"
        <5>1. CASE a.code = "2.04"
          <6>1. rows' = <<>>
            BY <2>3, <4>3, <5>1 DEF View!NewRows
          <6>. QED BY <6>1 DEF InStep
        <5>2. CASE a.code # "2.04"
          <6>1. rows' = rows
            BY <2>3, <4>3, <5>2 DEF View!NewRows
          <6>2. InStep
            BY <1>2, <4>1, <4>3, <5>2 DEF AnsweredRight
          <6>. QED BY <1>3, <6>1, <6>2 DEF InStep
        <5>. QED BY <5>1, <5>2
      <4>4. CASE req = "removeIndex"
        <5>1. rows' = View!Acked
          BY <2>3, <4>4 DEF View!NewRows
        <5>2. removals # 0
          BY <1>2, <4>1, <4>4 DEF AnsweredRight
        <5>3. ASSUME removals = 1, rows # <<>>
              PROVE  Dsts(View!Acked) = file
          <6>1. Numbered(rows) /\ Ascending(lastcmd) /\ file = View!Kept(Dsts(rows), lastcmd)
            BY <1>2, <4>1, <4>4, <5>3 DEF AnsweredRight
          <6>2. Dsts(rows) \in Seq(ListedPairs) /\ Matches(rows, Dsts(rows))
            BY <1>5, <6>1, DstsType DEF Matches
          <6>3. View!Kept(Dsts(rows), lastcmd) = Dsts(Only(rows, Left(lastcmd)))
            BY <1>5, <6>1, <6>2, KeptIs
          <6>4. View!Acked = Only(rows, Left(lastcmd))
            BY <1>5, <6>1, AckedIs
          <6>. QED BY <6>1, <6>3, <6>4
        <5>4. rows = <<>> => View!Acked = <<>>
          <6>. SUFFICES ASSUME rows = <<>>
                        PROVE  View!Acked = <<>>
            OBVIOUS
          <6>1. Len(rows) = 0
            BY EmptySeq
          <6>2. Numbered(rows)
            BY <6>1 DEF Numbered
          <6>3. View!Acked = Only(rows, Left(lastcmd))
            BY <1>5, <6>2, AckedIs
          <6>. QED BY <6>3, OnlyOfEmpty
        <5>. QED BY <1>3, <5>1, <5>2, <5>3, <5>4 DEF InStep
      <4>5. req \in {"pairings", "removeAll", "removeIndex"}
        <5>1. asked[a.token] \in View!Requests
          BY <1>5, <1>6
        <5>. QED BY <1>2, <5>1 DEF View!Requests
      <4>. QED BY <4>2, <4>3, <4>4, <4>5
    <3>. QED BY <3>1, <3>2
  <2>5. Follows'
    BY <1>3, <2>1, <2>4 DEF Follows
  <2>. QED BY <1>7, <2>2, <2>5
<1>. QED BY <1>8, <1>9

LEMMA InitViewInv == ASSUME Lists, View!Init PROVE ViewInv
<1>1. ViewTyped
  BY InitViewTyped
<1>. QED BY <1>1 DEF View!Init, ViewInv, Together, Single, LastRead, Follows

(* As long as rows that show the same pairs under the same numbers stay, so *)
(* does what the messages under way say of them.                            *)
LEMMA FollowsRemains ==
    ASSUME Follows, rows' = <<>> <=> rows = <<>>, Dsts(rows') = Dsts(rows),
           Numbered(rows) => Numbered(rows'),
           UNCHANGED <<file, lastcmd, asked, open, toNode, toClient, rival, removals, apart>>
    PROVE  Follows'
<1>1. /\ rows' = <<>> <=> rows = <<>>
      /\ Dsts(rows') = Dsts(rows) /\ (Numbered(rows) => Numbered(rows'))
  OBVIOUS
<1>2. UNCHANGED <<file, lastcmd, asked, open, toNode, toClient, rival, removals, apart>>
  OBVIOUS
<1>3. InStep => InStep'
  BY <1>1, <1>2 DEF InStep
<1>4. \A t : AskedRight(t) => AskedRight(t)'
  BY <1>1, <1>2 DEF AskedRight
<1>5. View!Kept(Dsts(rows), lastcmd)' = View!Kept(Dsts(rows), lastcmd)
  <2>1. View!Kept(Dsts(rows), lastcmd)' = View!Kept(Dsts(rows'), lastcmd')
    BY DEF View!Kept, Dsts
  <2>. QED BY <1>1, <1>2, <2>1
<1>6. \A a : AnsweredRight(a) => AnsweredRight(a)'
  BY <1>1, <1>2, <1>3, <1>5 DEF AnsweredRight
<1>7. Follows'
  <2>. SUFFICES ASSUME ~apart, ~rival
                PROVE  /\ (toClient = <<>> /\ (open = {} \/ toNode # <<>>)) => InStep'
                       /\ toNode # <<>> => AskedRight(Head(toNode))'
                       /\ toClient # <<>> => AnsweredRight(Head(toClient))'
    BY <1>2 DEF Follows
  <2>1. (toClient = <<>> /\ (open = {} \/ toNode # <<>>)) => InStep'
    BY <1>3 DEF Follows
  <2>2. toNode # <<>> => AskedRight(Head(toNode))'
    <3>1. PICK t : t = Head(toNode)
      OBVIOUS
    <3>2. toNode # <<>> => AskedRight(t)'
      BY <1>4, <3>1 DEF Follows
    <3>3. Head(toNode') = t
      BY <1>2, <3>1
    <3>. QED BY <3>2, <3>3 DEF AskedRight
  <2>3. toClient # <<>> => AnsweredRight(Head(toClient))'
    <3>1. PICK a : a = Head(toClient)
      OBVIOUS
    <3>2. toClient # <<>> => AnsweredRight(a)'
      BY <1>6, <3>1 DEF Follows
    <3>3. Head(toClient') = a
      BY <1>2, <3>1
    <3>. QED BY <3>2, <3>3 DEF AnsweredRight
  <2>. QED BY <2>1, <2>2, <2>3
<1>. QED BY <1>7

LEMMA StepViewInv == ASSUME Lists, ViewInv, [View!Next]_(View!viewFileVars) PROVE ViewInv'
<1>1. ViewTyped'
  BY StepViewTyped DEF ViewInv
<1>. SUFFICES Together' /\ LastRead' /\ Follows'
  BY <1>1 DEF ViewInv
<1>2. rows \in Seq(View!Row) /\ <<>> \in Seq(Nat)
  BY EmptySeq DEF ViewInv, ViewTyped, View!TypeOK
<1>3. CASE View!getpairingslist \/ View!clearpairingslist
  <2>1. rows' = rows
    BY <1>3 DEF View!getpairingslist, View!clearpairingslist, View!viewVars
  <2>2. View!Ask("pairings", <<>>) \/ View!Ask("removeAll", <<>>)
    BY <1>3 DEF View!getpairingslist, View!clearpairingslist
  <2>. QED BY <1>2, <2>1, <2>2, AskKeeps
<1>4. CASE View!removePairings
  <2>1. View!Marked \in Seq(Nat) /\ (Numbered(rows) => Ascending(View!Marked))
    BY <1>2, MarkedIs
  <2>2. rows' = rows /\ lastcmd' = View!Marked
    BY <1>4 DEF View!removePairings
  <2>3. View!Ask("removeAll", <<>>) \/ View!Ask("removeIndex", View!Marked)
    BY <1>4 DEF View!removePairings
  <2>. QED BY <1>2, <2>1, <2>2, <2>3, AskKeeps
<1>5. ASSUME NEW r \in DOMAIN rows, View!setSelected(r)
      PROVE  Together' /\ LastRead' /\ Follows'
  <2>1. /\ rows' = <<>> <=> rows = <<>>
        /\ Dsts(rows') = Dsts(rows) /\ (Numbered(rows) => Numbered(rows'))
    BY <1>2, <1>5, SelectedIs
  <2>2. UNCHANGED <<file, lastcmd, asked, open, toNode, toClient, rival, removals, apart>>
    BY <1>5 DEF View!setSelected, View!nodeVars, View!requestVars, View!pastVars
  <2>3. Together' /\ LastRead'
    BY <2>2 DEF ViewInv, Together, Single, LastRead
  <2>4. Follows'
    BY <2>1, <2>2, FollowsRemains DEF ViewInv
  <2>. QED BY <2>3, <2>4
<1>6. CASE View!NodeReads
  BY <1>6, ReadsKeeps
<1>7. CASE View!NodeRemovesAll
  BY <1>7, RemovesAllKeeps
<1>8. CASE View!NodeRemoves
  BY <1>8, RemovesKeeps
<1>9. CASE (\E p \in ListedPairs : View!Joined(p)) \/ View!Emptied
  <2>1. rival' /\ UNCHANGED <<open, toNode, toClient, apart>>
    BY <1>9 DEF View!Joined, View!Emptied, View!requestVars
  <2>. QED BY <2>1 DEF ViewInv, Together, Single, LastRead, Follows
<1>10. CASE View!parseData
  BY <1>10, ParseKeeps
<1>11. ASSUME NEW t \in open, View!Resend(t) \/ View!GiveUp(t)
       PROVE  Together' /\ LastRead' /\ Follows'
  <2>1. apart' /\ UNCHANGED <<file, asked, toClient, rival, removals>>
    BY <1>11 DEF View!Resend, View!GiveUp, View!nodeVars
  <2>. QED BY <2>1 DEF ViewInv, Together, LastRead, Follows
<1>12. CASE View!RequestLost
  <2>1. /\ toNode # <<>> /\ toNode' = Tail(toNode)
        /\ UNCHANGED <<file, asked, open, toClient, rival, removals, apart>>
    BY <1>12 DEF View!RequestLost, View!nodeVars, View!pastVars
  <2>2. LastRead'
    BY <2>1 DEF ViewInv, LastRead
  <2>3. ~apart => Single /\ toNode' = <<>> /\ toClient = <<>> /\ open # {}
    BY <2>1, AloneUnderWay DEF ViewInv
  <2>4. Together' /\ Follows'
    BY <2>1, <2>3 DEF Together, Single, Follows
  <2>. QED BY <2>2, <2>4
<1>13. CASE View!AnswerLost
  <2>1. /\ toClient # <<>> /\ toClient' = Tail(toClient)
        /\ UNCHANGED <<file, asked, open, toNode, rival, removals, apart>>
    BY <1>13 DEF View!AnswerLost, View!nodeVars, View!pastVars
  <2>2. LastRead'
    <3>1. toClient' # <<>> => toClient'[Len(toClient')] = toClient[Len(toClient)]
      <4>1. toClient \in Seq(Answers(asked))
        BY DEF ViewInv, ViewTyped
      <4>. QED BY <2>1, <4>1, LastOfTail
    <3>. QED BY <2>1, <3>1 DEF ViewInv, LastRead
  <2>3. ~apart => Single /\ toClient' = <<>> /\ toNode = <<>> /\ open # {}
    BY <2>1, AloneUnderWay DEF ViewInv
  <2>4. Together' /\ Follows'
    BY <2>1, <2>3 DEF Together, Single, Follows
  <2>. QED BY <2>2, <2>4
<1>14. CASE UNCHANGED View!viewFileVars
  <2>1. UNCHANGED <<file, rows, lastcmd, asked, open, toNode, toClient, rival, removals, apart>>
    BY <1>14 DEF View!viewFileVars, View!nodeVars, View!viewVars, View!requestVars,
                 View!pastVars
  <2>2. Dsts(rows') = Dsts(rows) /\ (Numbered(rows) => Numbered(rows'))
    BY <2>1
  <2>3. Together' /\ LastRead'
    BY <2>1 DEF ViewInv, Together, Single, LastRead
  <2>4. Follows'
    BY <2>1, <2>2, FollowsRemains DEF ViewInv
  <2>. QED BY <2>3, <2>4
<1>. QED
  BY <1>3, <1>4, <1>5, <1>6, <1>7, <1>8, <1>9, <1>10, <1>11, <1>12, <1>13, <1>14
  DEF View!Next

(* Once nothing is under way the list of pairs shows the file of the node, *)
(* for any pairs, any first file and any number of requests, losses and    *)
(* repetitions: as long as no other client changed the file and nothing    *)
(* overlapped since it was read, and at most one removal was made.         *)
THEOREM ListFollowsFile == ASSUME Lists PROVE View!Spec => []View!ViewFollowsFile
<1>1. ViewInv => View!ViewFollowsFile
  <2>. SUFFICES ASSUME ViewInv, View!Quiet, rows # <<>>, ~rival, ~apart, removals <= 1
                PROVE  View!Shown = file
    BY DEF View!ViewFollowsFile
  <2>1. InStep
    BY DEF ViewInv, Follows, View!Quiet
  <2>2. removals = 0 \/ removals = 1
    <3>1. removals \in Nat
      BY DEF ViewInv, ViewTyped, View!TypeOK
    <3>. QED BY <3>1
  <2>3. Dsts(rows) = file
    BY <2>1, <2>2 DEF InStep
  <2>4. DOMAIN rows = 1..Len(rows)
    BY LenProperties DEF ViewInv, ViewTyped, View!TypeOK
  <2>. QED BY <2>3, <2>4 DEF View!Shown, Dsts
<1>2. View!Init => ViewInv
  BY InitViewInv
<1>3. ViewInv /\ [View!Next]_(View!viewFileVars) => ViewInv'
  BY StepViewInv
<1>. QED BY <1>1, <1>2, <1>3, PTL DEF View!Spec

-----------------------------------------------------------------------------
(*                     MessagePack: what is written is read                *)
-----------------------------------------------------------------------------
(* Digits of a number.                                                     *)

LEMMA PowerDef ==
    ASSUME Base \in Nat
    PROVE  /\ Mp!Power \in [0..8 -> Nat] /\ Mp!Power[0] = 1
           /\ \A n \in 1..8 : Mp!Power[n] = Base * Mp!Power[n - 1]
<1> DEFINE GoOn(f, n) == Base * f[n - 1]
           Body(f) == [n \in 0..8 |-> IF n = 0 THEN 1 ELSE GoOn(f, n)]
           step == [x \in Nat \X (1..8) |-> Base * x[1]]
           power == CHOOSE f : f = Body(f)
<1>1. 8 \in Nat /\ 1 \in Nat /\ step \in [Nat \X (1..8) -> Nat]
  OBVIOUS
<1>2. ASSUME NEW f, NEW n \in 1..8, f[n - 1] \in Nat
      PROVE  step[<<f[n - 1], n>>] = GoOn(f, n)
  BY <1>2
<1>3. Mp!Power = power
  BY DEF Mp!Power
<1>. HIDE DEF step
<1>4. PICK f : IsChain(f, Nat, 1, 8, step)
  BY <1>1, RecursionExists, Zenon
<1>5. f = Body(f)
  <2>1. f = [n \in 0..8 |-> f[n]] /\ f[0] = 1
    BY <1>4 DEF IsChain
  <2>2. ASSUME NEW n \in 1..8
        PROVE  f[n] = GoOn(f, n)
    <3>1. f[n - 1] \in Nat
      BY <1>4 DEF IsChain
    <3>2. f[n] = step[<<f[n - 1], n>>]
      BY <1>4 DEF IsChain
    <3>. HIDE DEF GoOn
    <3>. QED BY <1>2, <3>1, <3>2
  <2>3. \A n \in 0..8 : n # 0 => n \in 1..8
    OBVIOUS
  <2>. HIDE DEF GoOn
  <2>4. \A n \in 0..8 : f[n] = IF n = 0 THEN 1 ELSE GoOn(f, n)
    BY <2>1, <2>2, <2>3
  <2>. QED BY <2>1, <2>4
<1>6. power = Body(power)
  <2>. HIDE DEF Body
  <2>. QED BY <1>5
<1>. HIDE DEF power
<1>7. power[0] = 1 /\ \A n \in 1..8 : power[n] = GoOn(power, n)
  <2>. HIDE DEF GoOn
  <2>. QED BY <1>6
<1>8. IsChain(power, Nat, 1, 8, step)
  <2>1. power = [n \in 0..8 |-> power[n]]
    BY <1>6
  <2>2. \A n \in 1..8 : power[n - 1] \in Nat => power[n] = step[<<power[n - 1], n>>]
    <3>. HIDE DEF GoOn
    <3>. QED BY <1>2, <1>7
  <2>. QED BY <1>1, <1>7, <2>1, <2>2, ChainFollows, Zenon
<1>9. power \in [0..8 -> Nat]
  BY <1>8 DEF IsChain
<1>. QED BY <1>3, <1>7, <1>9

LEMMA DivisionIsUnique ==
    ASSUME NEW v \in Nat \ {0}, NEW q1 \in Int, NEW q2 \in Int,
           NEW r1 \in 0..v - 1, NEW r2 \in 0..v - 1,
           v * q1 + r1 = v * q2 + r2
    PROVE  q1 = q2 /\ r1 = r2
<1>1. v * (q1 - q2) = r2 - r1
  OBVIOUS
<1>2. CASE q1 - q2 >= 1
  <2>1. v * (q1 - q2) >= v
    BY <1>2
  <2>. QED BY <1>1, <2>1
<1>3. CASE q2 - q1 >= 1
  <2>1. v * (q2 - q1) >= v
    BY <1>3
  <2>2. v * (q2 - q1) = r1 - r2
    BY <1>1
  <2>. QED BY <2>1, <2>2
<1>. QED BY <1>1, <1>2, <1>3

LEMMA DivisionOf ==
    ASSUME NEW v \in Nat \ {0}, NEW x \in Int
    PROVE  /\ x % v \in 0..v - 1 /\ x \div v \in Int
           /\ x = v * (x \div v) + (x % v)
OBVIOUS

(* Dividing twice is dividing once, and the two remainders are one.        *)
LEMMA DividedTwice ==
    ASSUME NEW b \in Nat \ {0}, NEW m \in Nat \ {0}, NEW x \in Int
    PROVE  /\ (x \div b) \div m = x \div (b * m)
           /\ ((x \div b) % m) * b + (x % b) = x % (b * m)
<1>1. PICK q \in Int, r \in 0..b - 1 : q = x \div b /\ r = x % b /\ x = b * q + r
  BY DivisionOf
<1>2. PICK k \in Int, s \in 0..m - 1 : k = q \div m /\ s = q % m /\ q = m * k + s
  BY <1>1, DivisionOf
<1>3. b * m \in Nat \ {0}
  OBVIOUS
<1>4. PICK j \in Int, t \in 0..b * m - 1 : j = x \div (b * m) /\ t = x % (b * m)
                                           /\ x = (b * m) * j + t
  <2>1. PICK n \in Nat \ {0} : n = b * m
    BY <1>3
  <2>2. x % n \in 0..n - 1 /\ x \div n \in Int /\ x = n * (x \div n) + (x % n)
    BY DivisionOf
  <2>. QED BY <2>1, <2>2
<1>5. s * b + r \in 0..b * m - 1
  <2>1. s * b <= (m - 1) * b
    OBVIOUS
  <2>2. (m - 1) * b = b * m - b
    OBVIOUS
  <2>3. s * b \in Nat
    OBVIOUS
  <2>. QED BY <1>3, <2>1, <2>2, <2>3
<1>6. x = (b * m) * k + (s * b + r)
  <2>1. b * (m * k + s) = (b * m) * k + s * b
    OBVIOUS
  <2>2. x = b * (m * k + s) + r
    BY <1>1, <1>2
  <2>3. \A y, z \in Int : x = y + r /\ y = z + s * b => x = z + (s * b + r)
    OBVIOUS
  <2>4. b * (m * k + s) \in Int /\ (b * m) * k \in Int
    OBVIOUS
  <2>. QED BY <2>1, <2>2, <2>3, <2>4
<1>7. j = k /\ t = s * b + r
  <2>1. PICK n \in Nat \ {0}, y \in Int : n = b * m /\ y = s * b + r /\ y \in 0..n - 1
    BY <1>3, <1>5
  <2>2. t \in 0..n - 1 /\ n * j + t = n * k + y
    BY <1>4, <1>6, <2>1
  <2>3. j = k /\ t = y
    BY <2>1, <2>2, DivisionIsUnique
  <2>. QED BY <2>1, <2>3
<1>. QED BY <1>1, <1>2, <1>4, <1>7

LEMMA PowerIs ==
    ASSUME Digits
    PROVE  /\ \A n \in 0..8 : Mp!Power[n] \in Nat \ {0}
           /\ Mp!Power[0] = 1 /\ Mp!Power[1] = Base /\ Base \in Nat \ {0}
           /\ \A n \in 1..8 : Mp!Power[n] = Base * Mp!Power[n - 1]
<1>1. Base \in Nat \ {0}
  BY DEF Digits
<1>2. /\ Mp!Power \in [0..8 -> Nat] /\ Mp!Power[0] = 1
      /\ \A n \in 1..8 : Mp!Power[n] = Base * Mp!Power[n - 1]
  BY <1>1, PowerDef
<1> DEFINE Ok == {n \in Nat : n <= 8 => Mp!Power[n] \in Nat \ {0}}
<1>3. 0 \in Ok
  BY <1>2
<1>4. ASSUME NEW n \in Ok \cap Nat
      PROVE  n + 1 \in Ok
  <2>. SUFFICES ASSUME n + 1 <= 8
                PROVE  Mp!Power[n + 1] \in Nat \ {0}
    OBVIOUS
  <2>1. n + 1 \in 1..8 /\ (n + 1) - 1 = n /\ Mp!Power[n] \in Nat \ {0}
    OBVIOUS
  <2>2. Mp!Power[n + 1] = Base * Mp!Power[n]
    BY <1>2, <2>1
  <2>3. \A x \in Nat \ {0} : Base * x \in Nat \ {0}
    BY <1>1
  <2>. QED BY <2>1, <2>2, <2>3
<1>5. Nat \subseteq Ok
  <2>. HIDE DEF Ok
  <2>. QED BY <1>3, <1>4, NumbersInduction
<1>6. Mp!Power[1] = Base
  <2>1. Mp!Power[1] = Base * Mp!Power[1 - 1]
    BY <1>2
  <2>. QED BY <1>1, <1>2, <2>1
<1>. QED BY <1>1, <1>2, <1>5, <1>6

(* What a number of n bytes reads as, a byte at a time.                    *)
LEMMA NumberUpToDef ==
    ASSUME NEW p \in Int, NEW k \in 0..8, Base \in Nat,
           \A i \in 1..k : buf[p + i - 1].byte \in Int
    PROVE  /\ Mp!numberUpTo(p, k)[0] = 0
           /\ \A n \in 1..k : /\ Mp!numberUpTo(p, k)[n - 1] \in Int
                              /\ Mp!numberUpTo(p, k)[n]
                                    = Mp!numberUpTo(p, k)[n - 1] * Base + buf[p + n - 1].byte
<1> DEFINE GoOn(f, n) == f[n - 1] * Base + buf[p + n - 1].byte
           Body(f) == [n \in 0..k |-> IF n = 0 THEN 0 ELSE GoOn(f, n)]
           step == [x \in Int \X (1..k) |-> x[1] * Base + buf[p + x[2] - 1].byte]
           number == CHOOSE f : f = Body(f)
<1>1. k \in Nat /\ 0 \in Int
  OBVIOUS
<1>10. step \in [Int \X (1..k) -> Int]
  <2>1. \A a, b \in Int : a * Base + b \in Int
    OBVIOUS
  <2>. QED BY <2>1
<1>2. ASSUME NEW f, NEW n \in 1..k, f[n - 1] \in Int
      PROVE  step[<<f[n - 1], n>>] = GoOn(f, n)
  BY <1>2
<1>3. Mp!numberUpTo(p, k) = number
  BY DEF Mp!numberUpTo
<1>. HIDE DEF step
<1>4. PICK f : IsChain(f, Int, 0, k, step)
  BY <1>1, <1>10, RecursionExists, Zenon
<1>5. f = Body(f)
  <2>1. f = [n \in 0..k |-> f[n]] /\ f[0] = 0
    BY <1>4 DEF IsChain
  <2>2. ASSUME NEW n \in 1..k
        PROVE  f[n] = GoOn(f, n)
    <3>1. f[n - 1] \in Int
      BY <1>4 DEF IsChain
    <3>2. f[n] = step[<<f[n - 1], n>>]
      BY <1>4 DEF IsChain
    <3>. HIDE DEF GoOn
    <3>. QED BY <1>2, <3>1, <3>2
  <2>3. \A n \in 0..k : n # 0 => n \in 1..k
    OBVIOUS
  <2>. HIDE DEF GoOn
  <2>4. \A n \in 0..k : f[n] = IF n = 0 THEN 0 ELSE GoOn(f, n)
    BY <2>1, <2>2, <2>3
  <2>. QED BY <2>1, <2>4
<1>6. number = Body(number)
  <2>. HIDE DEF Body
  <2>. QED BY <1>5
<1>. HIDE DEF number
<1>7. number[0] = 0 /\ \A n \in 1..k : number[n] = GoOn(number, n)
  <2>. HIDE DEF GoOn
  <2>. QED BY <1>6
<1>8. IsChain(number, Int, 0, k, step)
  <2>1. number = [n \in 0..k |-> number[n]]
    BY <1>6
  <2>2. \A n \in 1..k : number[n - 1] \in Int => number[n] = step[<<number[n - 1], n>>]
    <3>. HIDE DEF GoOn
    <3>. QED BY <1>2, <1>7
  <2>. QED BY <1>1, <1>10, <1>7, <2>1, <2>2, ChainFollows, Zenon
<1>9. \A n \in 1..k : number[n - 1] \in Int
  BY <1>8 DEF IsChain
<1>. QED BY <1>3, <1>7, <1>9

(* The bytes of v, the last one first, read as v in n bytes.               *)
LEMMA NumberIs ==
    ASSUME Digits, NEW p \in Int, NEW k \in 1..8, NEW v \in Int,
           \A i \in 1..k : buf[p + i - 1].byte = (v \div Mp!Power[k - i]) % Base
    PROVE  Mp!Number(p, k) = v % Mp!Power[k]
<1>1. /\ \A n \in 0..8 : Mp!Power[n] \in Nat \ {0}
      /\ Mp!Power[0] = 1 /\ Base \in Nat \ {0}
      /\ \A n \in 1..8 : Mp!Power[n] = Base * Mp!Power[n - 1]
  BY PowerIs
<1>2. \A n \in 0..k : n \in 0..8 /\ k - n \in 0..8
  OBVIOUS
<1>3. \A i \in 1..k : buf[p + i - 1].byte \in Int
  <2>. SUFFICES ASSUME NEW i \in 1..k
                PROVE  buf[p + i - 1].byte \in Int
    OBVIOUS
  <2>0. k - i \in 0..8
    OBVIOUS
  <2>1. Mp!Power[k - i] \in Nat \ {0}
    BY <1>1, <2>0
  <2>2. v \div Mp!Power[k - i] \in Int
    BY <2>1, DivisionOf
  <2>3. (v \div Mp!Power[k - i]) % Base \in 0..Base - 1
    BY <1>1, <2>2, DivisionOf
  <2>. QED BY <1>1, <2>3
<1> DEFINE number == Mp!numberUpTo(p, k)
           Ok == {n \in Nat : n <= k => number[n] = (v \div Mp!Power[k - n]) % Mp!Power[n]}
<1>4. /\ number[0] = 0
      /\ \A n \in 1..k : number[n] = number[n - 1] * Base + buf[p + n - 1].byte
  <2>1. k \in 0..8 /\ Base \in Nat
    BY <1>1
  <2>. HIDE DEF Ok
  <2>. QED BY <1>3, <2>1, NumberUpToDef
<1>. HIDE DEF number
<1>5. 0 \in Ok
  <2>1. Mp!Power[k - 0] \in Nat \ {0}
    BY <1>1, <1>2
  <2>2. v \div Mp!Power[k - 0] \in Int
    BY <2>1, DivisionOf
  <2>3. \A x \in Int : x % 1 = 0
    OBVIOUS
  <2>4. (v \div Mp!Power[k - 0]) % Mp!Power[0] = 0
    BY <1>1, <2>2, <2>3
  <2>. QED BY <1>4, <2>4
<1>6. ASSUME NEW n \in Ok \cap Nat
      PROVE  n + 1 \in Ok
  <2>. SUFFICES ASSUME n + 1 <= k
                PROVE  number[n + 1] = (v \div Mp!Power[k - (n + 1)]) % Mp!Power[n + 1]
    OBVIOUS
  <2>1. /\ n \in 0..8 /\ n + 1 \in 1..8 /\ (n + 1) - 1 = n /\ k - n \in 1..8
        /\ k - (n + 1) \in 0..8 /\ (k - n) - 1 = k - (n + 1) /\ n + 1 \in 1..k
    BY <1>2
  <2>2. number[n] = (v \div Mp!Power[k - n]) % Mp!Power[n]
    OBVIOUS
  <2>. HIDE DEF Ok
  <2>3. PICK m \in Nat \ {0}, d \in Nat \ {0} : m = Mp!Power[n] /\ d = Mp!Power[k - (n + 1)]
    BY <1>1, <2>1
  <2>4. Mp!Power[n + 1] = Base * m /\ Mp!Power[k - n] = Base * d
    BY <1>1, <2>1, <2>3
  <2>5. PICK w \in Int : w = v \div d
    BY <2>3, DivisionOf
  <2>6. v \div (d * Base) = w \div Base
    BY <1>1, <2>3, <2>5, DividedTwice
  <2>7. d * Base = Base * d
    BY <1>1
  <2>8. number[n] = (w \div Base) % m
    BY <2>2, <2>3, <2>4, <2>6, <2>7
  <2>9. buf[p + (n + 1) - 1].byte = w % Base
    BY <2>1, <2>3, <2>5
  <2>10. number[n + 1] = number[n] * Base + buf[p + (n + 1) - 1].byte
    BY <1>4, <2>1
  <2>11. ((w \div Base) % m) * Base + (w % Base) = w % (Base * m)
    BY <1>1, <2>3, <2>5, DividedTwice
  <2>. QED BY <2>3, <2>4, <2>5, <2>8, <2>9, <2>10, <2>11
<1>7. number[k] = (v \div Mp!Power[k - k]) % Mp!Power[k]
  <2>1. Nat \subseteq Ok
    <3>. HIDE DEF Ok
    <3>. QED BY <1>5, <1>6, NumbersInduction
  <2>. QED BY <2>1
<1>8. v \div Mp!Power[k - k] = v
  <2>1. k - k = 0 /\ \A x \in Int : x \div 1 = x
    OBVIOUS
  <2>. QED BY <1>1, <2>1
<1>. QED BY <1>7, <1>8 DEF Mp!Number, number

Held(p, s) == \A i \in 1..Len(s) : buf[p + i - 1] = s[i]

Short == {"pfix", "nfix", "fixstr", "fixarray", "fixmap"}
Lengths == {"str8", "str16", "str32", "array16", "array32", "map16", "map32"}
Decimals == {"float", "double"}
Wide == Mp!UInts \cup Mp!SInts \cup Decimals \cup Lengths \cup Mp!Bins \cup Mp!Exts
Marks == Wide \cup Short \cup Mp!FixExts \cup {"nil", "true", "false", "data"}
Cell == [mark : Marks, byte : Int]

LEMMA Widths ==
    ASSUME NEW t \in Wide
    PROVE  Mp!Width(t) \in {1, 2, 4, 8}
BY DEF Wide, Mp!UInts, Mp!SInts, Decimals, Lengths, Mp!Bins, Mp!Exts, Mp!Width

(* A form, its bytes and the bytes behind it.                              *)
WireBytes(w, v, k) == \A i \in 1..k : w[i + 1].byte = (v \div Mp!Power[k - i]) % Base

LEMMA WireIs ==
    ASSUME Digits, NEW t \in Wide, NEW v \in Int, NEW k \in 1..8, Mp!Width(t) = k
    PROVE  /\ Mp!Wire(t, v) \in Seq(Cell) /\ Len(Mp!Wire(t, v)) = k + 1
           /\ Mp!Wire(t, v)[1].mark = t
           /\ WireBytes(Mp!Wire(t, v), v, k)
<1>1. k \in 1..8 /\ t \in Marks /\ "data" \in Marks
  BY DEF Marks
<1> DEFINE m == Mp!Memory(v, k)
           d == Mp!Data(Mp!be(m))
<1>2. \A i \in 1..k : (v \div Mp!Power[i - 1]) % Base \in Int
  <2>. SUFFICES ASSUME NEW i \in 1..k
                PROVE  (v \div Mp!Power[i - 1]) % Base \in Int
    OBVIOUS
  <2>1. i - 1 \in 0..8
    BY <1>1
  <2>2. Mp!Power[i - 1] \in Nat \ {0} /\ Base \in Nat \ {0}
    BY <2>1, PowerIs
  <2>3. v \div Mp!Power[i - 1] \in Int
    BY <2>2, DivisionOf
  <2>. QED BY <2>2, <2>3, DivisionOf
<1>3. m \in Seq(Int) /\ Len(m) = k /\ \A i \in 1..k : m[i] = (v \div Mp!Power[i - 1]) % Base
  <2>1. m \in [1..k -> Int]
    BY <1>2 DEF Mp!Memory
  <2>2. m \in Seq(Int) /\ Len(m) = k
    <3>. HIDE DEF m
    <3>. QED BY <1>1, <2>1
  <2>. QED BY <2>2 DEF Mp!Memory
<1>. HIDE DEF m
<1>4. /\ d \in Seq(Cell) /\ Len(d) = k
      /\ \A i \in 1..k : d[i].byte = m[k - i + 1]
  <2> DEFINE r == Mp!be(m)
  <2>1. r \in [1..k -> Int] /\ \A i \in 1..k : r[i] = m[k - i + 1]
    BY <1>1, <1>3 DEF Mp!be, Mp!Reverse
  <2>2. DOMAIN r = 1..k
    BY <2>1
  <2>. HIDE DEF r
  <2>3. d = [i \in 1..k |-> [mark |-> "data", byte |-> r[i]]]
    BY <2>2 DEF Mp!Data, r
  <2>4. d \in [1..k -> Cell]
    BY <1>1, <2>1, <2>3 DEF Cell
  <2>5. d \in Seq(Cell) /\ Len(d) = k
    <3>. HIDE DEF d
    <3>. QED BY <1>1, <2>4
  <2>. QED BY <2>1, <2>3, <2>5
<1>. HIDE DEF d
<1> DEFINE h == Mp!Marker(t, 0)
<1>5. h \in Seq(Cell) /\ Len(h) = 1 /\ h[1].mark = t
  BY <1>1 DEF Mp!Marker, Cell
<1>6. Mp!Wire(t, v) = h \o d
  BY DEF Mp!Wire, h, d, m
<1>. HIDE DEF h
<1> DEFINE w == h \o d
<1>7. /\ w \in Seq(Cell) /\ Len(w) = k + 1 /\ w[1] = h[1]
      /\ \A i \in 1..k : w[i + 1] = d[i]
  <2>1. /\ w \in Seq(Cell) /\ Len(w) = Len(h) + Len(d)
        /\ \A i \in 1..Len(h) + Len(d) : w[i] = IF i <= Len(h) THEN h[i] ELSE d[i - Len(h)]
    BY <1>4, <1>5, ConcatProperties
  <2>. HIDE DEF w
  <2>2. \A i \in 1..k : i + 1 \in 1..1 + k /\ (i + 1) - 1 = i /\ ~(i + 1 <= 1)
    BY <1>1
  <2>3. 1 \in 1..1 + k
    BY <1>1
  <2>4. Len(w) = k + 1
    BY <1>1, <1>4, <1>5, <2>1
  <2>5. \A i \in 1..1 + k : w[i] = IF i <= 1 THEN h[i] ELSE d[i - 1]
    BY <1>4, <1>5, <2>1
  <2>6. w[1] = h[1]
    BY <2>3, <2>5
  <2>7. ASSUME NEW i \in 1..k
        PROVE  w[i + 1] = d[i]
    <3>1. w[i + 1] = d[(i + 1) - 1]
      BY <2>2, <2>5
    <3>. QED BY <1>1, <3>1
  <2>. QED BY <2>1, <2>4, <2>6, <2>7
<1>. HIDE DEF w
<1>8. \A i \in 1..k : (k - i + 1) \in 1..k /\ (k - i + 1) - 1 = k - i
  BY <1>1
<1>9. \A i \in 1..k : d[i].byte = (v \div Mp!Power[k - i]) % Base
  BY <1>3, <1>4, <1>8
<1>10. Mp!Wire(t, v) = w
  BY <1>6 DEF w
<1>11. WireBytes(w, v, k)
  BY <1>7, <1>9 DEF WireBytes
<1>. QED BY <1>5, <1>7, <1>10, <1>11

(* A number that is there as a form has it is read, whatever its sign.     *)
Ranges(t, v, k) ==
    IF t \in Mp!SInts THEN v >= Mp!Lowest(k) /\ v <= Mp!Greatest(k) \div 2
    ELSE v >= 0 /\ v <= Mp!Greatest(k)

LEMMA NumberBehind ==
    ASSUME Digits, NEW t \in Wide, NEW v \in Int, NEW k \in 1..8, Mp!Width(t) = k,
           NEW p \in Int, Held(p, Mp!Wire(t, v))
    PROVE  buf[p].mark = t /\ Mp!Number(p + 1, k) = v % Mp!Power[k]
<1> DEFINE w == Mp!Wire(t, v)
<1>1. /\ Len(w) = k + 1 /\ w[1].mark = t
      /\ \A i \in 1..k : w[i + 1].byte = (v \div Mp!Power[k - i]) % Base
  <2>1. Len(w) = k + 1
    BY Zenon, WireIs
  <2>2. w[1].mark = t
    BY Zenon, WireIs
  <2>3. \A i \in 1..k : w[i + 1].byte = (v \div Mp!Power[k - i]) % Base
    <3>1. WireBytes(w, v, k)
      BY Zenon, WireIs
    <3>. QED BY Zenon, <3>1 DEF WireBytes
  <2>. QED BY <2>1, <2>2, <2>3
<1>2. \A i \in 1..Len(w) : buf[p + i - 1] = w[i]
  BY DEF Held
<1>. HIDE DEF w
<1>3. buf[p].mark = t
  <2>1. 1 \in 1..Len(w) /\ p + 1 - 1 = p
    BY <1>1
  <2>2. buf[p + 1 - 1] = w[1]
    BY <1>2, <2>1
  <2>. QED BY <1>1, <2>1, <2>2
<1>4. \A i \in 1..k : buf[(p + 1) + i - 1].byte = (v \div Mp!Power[k - i]) % Base
  <2>. SUFFICES ASSUME NEW i \in 1..k
                PROVE  buf[(p + 1) + i - 1].byte = (v \div Mp!Power[k - i]) % Base
    OBVIOUS
  <2>1. i + 1 \in 1..Len(w) /\ p + (i + 1) - 1 = (p + 1) + i - 1
    BY <1>1
  <2>2. buf[p + (i + 1) - 1] = w[i + 1]
    BY <1>2, <2>1
  <2>3. buf[(p + 1) + i - 1] = w[i + 1]
    BY <2>1, <2>2
  <2>. QED BY <1>1, <2>3
<1>5. Mp!Number(p + 1, k) = v % Mp!Power[k]
  <2>1. p + 1 \in Int
    OBVIOUS
  <2>. QED BY <1>4, <2>1, NumberIs
<1>. QED BY <1>3, <1>5

LEMMA SmallerIsItself == \A v, m \in Int : m > 0 /\ v >= 0 /\ v < m => v % m = v
OBVIOUS
LEMMA NegativeWraps ==
    ASSUME NEW v \in Int, NEW m \in Nat \ {0}, v < 0, v >= -m
    PROVE  v % m = v + m
<1>1. PICK q \in Int, r \in 0..m - 1 : r = v % m /\ v = m * q + r
  BY DivisionOf
<1>2. v + m \in 0..m - 1 /\ m * (-1) + (v + m) = m * q + r
  BY <1>1
<1>3. -1 \in Int
  OBVIOUS
<1>4. v + m = r
  BY <1>2, <1>3, DivisionIsUnique
<1>. QED BY <1>1, <1>4

LEMMA SignedBack ==
    ASSUME Digits, NEW v \in Int, NEW k \in 1..8,
           v >= Mp!Lowest(k), v <= Mp!Greatest(k) \div 2
    PROVE  Mp!Signed(v % Mp!Power[k], k) = v
<1>1. PICK m \in Nat \ {0} : m = Mp!Power[k]
  BY PowerIs
<1>2. Mp!Greatest(k) = m - 1 /\ Mp!Lowest(k) = -(m \div 2)
  BY <1>1 DEF Mp!Greatest, Mp!Lowest
<1>3. CASE v >= 0
  <2>1. v < m /\ v <= (m - 1) \div 2
    BY <1>1, <1>2, <1>3
  <2>2. v % m = v
    BY <1>3, <2>1, SmallerIsItself
  <2>. QED BY <1>1, <1>2, <2>1, <2>2 DEF Mp!Signed
<1>4. CASE v < 0
  <2>1. v >= -m /\ v + m > (m - 1) \div 2
    BY <1>1, <1>2, <1>4
  <2>2. v % m = v + m
    BY <1>4, <2>1, NegativeWraps
  <2>3. (v + m) - m = v
    OBVIOUS
  <2>. QED BY <1>1, <1>2, <2>1, <2>2, <2>3 DEF Mp!Signed
<1>. QED BY <1>3, <1>4

-----------------------------------------------------------------------------
(* Objects: the bytes a form has, and what is read of them.                *)

Opening(t, v) ==
    CASE t \in Short -> Mp!Marker(t, v)
      [] t = "nil" -> Mp!Marker("nil", 0)
      [] t = "boolean" -> Mp!Marker(IF v = 0 THEN "false" ELSE "true", 0)
      [] t \in Mp!FixExts -> Mp!Marker(t, 0) \o Mp!Data(<<1>>)
      [] t \in Mp!Exts -> Mp!Wire(t, v) \o Mp!Data(<<1>>)
      [] OTHER -> Mp!Wire(t, v)
Suits(t, v) ==
    CASE t = "nil" -> v = 0
      [] t = "boolean" -> v \in {0, 1}
      [] t \in Mp!FixExts -> v = Mp!FixExtSize(t)
      [] t \in Wide -> v \in Int /\ Ranges(t, v, Mp!Width(t))
      [] OTHER -> v \in Int /\ (t = "fixstr" => v >= 0)
Forms == Wide \cup Short \cup Mp!FixExts \cup {"nil", "boolean"}
ReadsAs(o, t, v, next) == o.type = t /\ o.val = v /\ o.next = next

LEMMA WideNames ==
    ASSUME NEW t \in Wide
    PROVE  /\ t \notin Short /\ t \notin Mp!FixExts /\ t # "nil" /\ t # "boolean" /\ t # "data"
           /\ \/ t \in Mp!Bins \cup Mp!Exts
              \/ t \notin Mp!Bins \cup Mp!Exts /\ t \in Mp!UInts \cup Mp!SInts \cup Decimals
              \/ /\ t \notin Mp!Bins \cup Mp!Exts /\ t \notin Mp!UInts \cup Mp!SInts \cup Decimals
                 /\ t \in Lengths
           /\ t \in Mp!Bins => t \notin Mp!Exts /\ t \notin Mp!SInts
           /\ t \in Mp!Exts => t \notin Mp!SInts
           /\ t \in Lengths => t \notin Mp!SInts /\ t \notin Mp!Exts
           /\ t \in Mp!UInts \cup Mp!SInts \cup Decimals => t \notin Mp!Exts /\ t \notin Lengths
           /\ t \in Mp!Bins \cup Mp!Exts
                 => t \notin Lengths /\ t \notin Mp!UInts \cup Mp!SInts \cup Decimals
BY DEF Wide, Short, Mp!FixExts, Mp!UInts, Mp!SInts, Decimals, Lengths, Mp!Bins, Mp!Exts

LEMMA UnsignedBack ==
    ASSUME Digits, NEW v \in Int, NEW k \in 1..8, v >= 0, v <= Mp!Greatest(k)
    PROVE  v % Mp!Power[k] = v
<1>1. PICK m \in Nat \ {0} : m = Mp!Power[k]
  BY PowerIs
<1>2. v < m
  BY <1>1 DEF Mp!Greatest
<1>. QED BY <1>1, <1>2, SmallerIsItself

LEMMA ReadWide ==
    ASSUME Digits, NEW t \in Wide, NEW v, Suits(t, v), NEW p \in Int, Held(p, Mp!Wire(t, v))
    PROVE  ReadsAs(Mp!cmp_read_object(p), t, v,
                   p + Len(Mp!Wire(t, v)) + IF t \in Mp!Exts THEN 1 ELSE 0)
<1>1. PICK k \in 1..8 : Mp!Width(t) = k
  <2>1. Mp!Width(t) \in {1, 2, 4, 8}
    BY Widths
  <2>. QED BY <2>1
<1>2. v \in Int /\ Ranges(t, v, k)
  BY <1>1, WideNames DEF Suits
<1>3. Len(Mp!Wire(t, v)) = k + 1
  BY <1>1, <1>2, WireIs
<1>4. PICK u : u = Mp!Number(p + 1, k)
  OBVIOUS
<1>5. buf[p].mark = t /\ u = v % Mp!Power[k]
  BY <1>1, <1>2, <1>4, NumberBehind
<1>6. t \notin Mp!SInts => u = v
  BY <1>2, <1>5, UnsignedBack DEF Ranges
<1>7. t \in Mp!SInts => Mp!Signed(u, k) = v
  BY <1>2, <1>5, SignedBack DEF Ranges
<1>11. /\ t \notin Mp!FixExts /\ t # "data"
       /\ t \in Mp!UInts \cup Mp!SInts \cup Decimals => t \notin Mp!Exts /\ t \notin Lengths
       /\ t \in Mp!Bins \cup Mp!Exts
             => t \notin Lengths /\ t \notin Mp!UInts \cup Mp!SInts \cup Decimals
  BY WideNames
<1>8. CASE t \in Mp!Bins \cup Mp!Exts
  <2>1. Mp!cmp_read_object(p) = Mp!BinOrExt(t, k, u, p)
    BY <1>1, <1>4, <1>5, <1>8, <1>11 DEF Mp!cmp_read_object, Mp!ReadBinOrExt, Decimals, Lengths
  <2>2. u = v
    BY <1>6, <1>8, WideNames
  <2>. QED BY <1>3, <1>8, <2>1, <2>2, WideNames DEF Mp!BinOrExt, Mp!Object, ReadsAs
<1>9. CASE t \notin Mp!Bins \cup Mp!Exts /\ t \in Mp!UInts \cup Mp!SInts \cup Decimals
  <2>1. Mp!cmp_read_object(p) = Mp!NumberObject(t, k, u, p)
    BY <1>1, <1>4, <1>5, <1>9, <1>11 DEF Mp!cmp_read_object, Mp!ReadNumber, Decimals, Lengths
  <2>. QED BY <1>3, <1>6, <1>7, <1>9, <1>11, <2>1 DEF Mp!NumberObject, Mp!Object, ReadsAs
<1>10. CASE /\ t \notin Mp!Bins \cup Mp!Exts /\ t \notin Mp!UInts \cup Mp!SInts \cup Decimals
            /\ t \in Lengths
  <2>1. Mp!cmp_read_object(p) = Mp!Object(t, u, 0, p + 1 + k)
    BY <1>1, <1>4, <1>5, <1>10, <1>11
    DEF Mp!cmp_read_object, Mp!ReadLength, Decimals, Lengths
  <2>2. u = v
    BY <1>6, <1>10, WideNames
  <2>. QED BY <1>3, <1>10, <2>1, <2>2 DEF Mp!Object, ReadsAs
<1>. QED BY <1>8, <1>9, <1>10, WideNames

LEMMA HeldParts ==
    ASSUME NEW s \in Seq(Cell), NEW r \in Seq(Cell), NEW p \in Int
    PROVE  Held(p, s \o r) <=> Held(p, s) /\ Held(p + Len(s), r)
<1> DEFINE n == Len(s)
           m == Len(r)
           q == s \o r
<1>1. /\ n \in Nat /\ m \in Nat /\ Len(q) = n + m
      /\ \A i \in 1..n + m : q[i] = IF i <= n THEN s[i] ELSE r[i - n]
  BY LenProperties, ConcatProperties
<1>. HIDE DEF q, n, m
<1>2. Held(p, q) <=> \A i \in 1..n + m : buf[p + i - 1] = q[i]
  BY <1>1 DEF Held
<1>3. Held(p, s) <=> \A i \in 1..n : buf[p + i - 1] = s[i]
  BY DEF Held, n
<1>4. Held(p + n, r) <=> \A i \in 1..m : buf[(p + n) + i - 1] = r[i]
  BY DEF Held, m
<1>5. ASSUME Held(p, q)
      PROVE  Held(p, s) /\ Held(p + n, r)
  <2>1. ASSUME NEW i \in 1..n
        PROVE  buf[p + i - 1] = s[i]
    BY <1>1, <1>2, <1>5
  <2>2. ASSUME NEW i \in 1..m
        PROVE  buf[(p + n) + i - 1] = r[i]
    <3>1. n + i \in 1..n + m /\ (n + i) - n = i /\ ~(n + i <= n)
      BY <1>1
    <3>2. buf[p + (n + i) - 1] = r[i]
      BY <1>1, <1>2, <1>5, <3>1
    <3>3. p + (n + i) - 1 = (p + n) + i - 1
      BY <1>1
    <3>. QED BY <3>2, <3>3
  <2>. QED BY <1>3, <1>4, <2>1, <2>2
<1>6. ASSUME Held(p, s), Held(p + n, r)
      PROVE  Held(p, q)
  <2>. SUFFICES ASSUME NEW i \in 1..n + m
                PROVE  buf[p + i - 1] = q[i]
    BY <1>2
  <2>1. CASE i <= n
    BY <1>1, <1>3, <1>6, <2>1
  <2>2. CASE ~(i <= n)
    <3>1. i - n \in 1..m /\ (p + n) + (i - n) - 1 = p + i - 1
      BY <1>1, <2>2
    <3>2. buf[(p + n) + (i - n) - 1] = r[i - n]
      BY <1>4, <1>6, <3>1
    <3>3. q[i] = r[i - n]
      BY <1>1, <2>2
    <3>. QED BY <3>1, <3>2, <3>3
  <2>. QED BY <2>1, <2>2
<1>. QED BY <1>5, <1>6 DEF q, n

LEMMA DataIs ==
    /\ Mp!Data(<<1>>) \in Seq(Cell) /\ Len(Mp!Data(<<1>>)) = 1
    /\ \A n \in Nat : Base \in Nat \ {0} =>
          Mp!Contents(n) \in Seq(Cell) /\ Len(Mp!Contents(n)) = n
<1>0. "data" \in Marks
  BY DEF Marks
<1>1. Mp!Data(<<1>>) \in Seq(Cell) /\ Len(Mp!Data(<<1>>)) = 1
  <2>1. Mp!Data(<<1>>) = [i \in 1..1 |-> [mark |-> "data", byte |-> <<1>>[i]]]
    BY DEF Mp!Data
  <2>2. Mp!Data(<<1>>) \in [1..1 -> Cell]
    BY <1>0, <2>1 DEF Cell
  <2>3. \A f, n : n \in Nat /\ f \in [1..n -> Cell] => f \in Seq(Cell) /\ Len(f) = n
    OBVIOUS
  <2>4. 1 \in Nat
    OBVIOUS
  <2>. HIDE DEF Cell
  <2>. QED BY <2>2, <2>3, <2>4
<1>2. ASSUME NEW n \in Nat, Base \in Nat \ {0}
      PROVE  Mp!Contents(n) \in Seq(Cell) /\ Len(Mp!Contents(n)) = n
  <2> DEFINE b == [i \in 1..n |-> i % Base]
  <2>1. DOMAIN b = 1..n /\ \A i \in 1..n : b[i] \in Int
    BY <1>2
  <2>. HIDE DEF b
  <2>2. Mp!Data(b) = [i \in 1..n |-> [mark |-> "data", byte |-> b[i]]]
    BY <2>1 DEF Mp!Data
  <2>3. Mp!Data(b) \in [1..n -> Cell]
    BY <1>0, <2>1, <2>2 DEF Cell
  <2>4. Mp!Contents(n) = Mp!Data(b)
    BY DEF Mp!Contents, b
  <2>. QED BY <2>3, <2>4
<1>. QED BY <1>1, <1>2

LEMMA MarkerIs ==
    ASSUME NEW t \in Marks, NEW v \in Int
    PROVE  /\ Mp!Marker(t, v) \in Seq(Cell) /\ Len(Mp!Marker(t, v)) = 1
           /\ \A p \in Int : Held(p, Mp!Marker(t, v)) => buf[p].mark = t /\ buf[p].byte = v
<1>1. Mp!Marker(t, v) \in Seq(Cell) /\ Len(Mp!Marker(t, v)) = 1
  BY DEF Mp!Marker, Cell
<1>2. Mp!Marker(t, v)[1].mark = t /\ Mp!Marker(t, v)[1].byte = v
  BY DEF Mp!Marker
<1>3. ASSUME NEW p \in Int, Held(p, Mp!Marker(t, v))
      PROVE  buf[p] = Mp!Marker(t, v)[1]
  <2>1. 1 \in 1..1 /\ p + 1 - 1 = p
    OBVIOUS
  <2>. QED BY <1>1, <1>3, <2>1 DEF Held
<1>. QED BY <1>1, <1>2, <1>3

LEMMA HeadNames ==
    ASSUME NEW t \in Forms
    PROVE  /\ t \in Short \cup Mp!FixExts \cup Wide => t \in Marks
           /\ {"nil", "true", "false"} \subseteq Marks
           /\ t \in Short => t # "nil" /\ t # "boolean" /\ t \notin Mp!FixExts /\ t \notin Wide
           /\ t \in Mp!FixExts => t \notin Short /\ t # "nil" /\ t # "boolean" /\ t \notin Wide
           /\ t \in Wide => t \notin Short /\ t # "nil" /\ t # "boolean" /\ t \notin Mp!FixExts
           /\ t \in Mp!Exts => t \in Wide
           /\ "nil" \notin Short \cup Mp!FixExts \cup Wide
           /\ "boolean" \notin Short \cup Mp!FixExts \cup Wide
<1>1. t \in Short => t # "nil" /\ t # "boolean" /\ t \notin Mp!FixExts /\ t \notin Wide
  BY DEF Short, Mp!FixExts, Wide, Mp!UInts, Mp!SInts, Decimals, Lengths, Mp!Bins, Mp!Exts
<1>2. t \in Mp!FixExts => t \notin Short /\ t # "nil" /\ t # "boolean" /\ t \notin Wide
  BY DEF Short, Mp!FixExts, Wide, Mp!UInts, Mp!SInts, Decimals, Lengths, Mp!Bins, Mp!Exts
<1>3. /\ "nil" \notin Short \cup Mp!FixExts \cup Wide
      /\ "boolean" \notin Short \cup Mp!FixExts \cup Wide
  BY DEF Short, Mp!FixExts, Wide, Mp!UInts, Mp!SInts, Decimals, Lengths, Mp!Bins, Mp!Exts
<1>4. t \in Mp!Exts => t \in Wide
  BY DEF Wide
<1>. QED BY <1>1, <1>2, <1>3, <1>4, WideNames DEF Marks

(* What is read at the head of a form is the form and its value.           *)
LEMMA ReadHead ==
    ASSUME Digits, NEW t \in Forms, NEW v, Suits(t, v)
    PROVE  /\ Opening(t, v) \in Seq(Cell)
           /\ \A p \in Int : Held(p, Opening(t, v)) =>
                 ReadsAs(Mp!cmp_read_object(p), t, v, p + Len(Opening(t, v)))
<1>1. CASE t \in Short
  <2>1. Opening(t, v) = Mp!Marker(t, v) /\ v \in Int /\ t \in Marks
    BY <1>1, HeadNames DEF Opening, Suits
  <2>2. ASSUME NEW p \in Int, Held(p, Mp!Marker(t, v))
        PROVE  Mp!cmp_read_object(p) = Mp!Object(t, v, 0, p + 1)
    <3>1. buf[p].mark = t /\ buf[p].byte = v
      BY <2>1, <2>2, MarkerIs
    <3>. QED BY <1>1, <3>1
             DEF Mp!cmp_read_object, Mp!ReadShort, Short, Mp!FixExts, Mp!UInts, Mp!SInts,
                 Mp!Bins, Mp!Exts
  <2>3. Mp!Marker(t, v) \in Seq(Cell) /\ Len(Mp!Marker(t, v)) = 1
    BY <2>1, MarkerIs
  <2>. QED BY <2>1, <2>2, <2>3 DEF Mp!Object, ReadsAs
<1>2. CASE t = "nil"
  <2>1. Opening(t, v) = Mp!Marker("nil", 0) /\ v = 0 /\ "nil" \in Marks
    BY <1>2, HeadNames DEF Opening, Suits
  <2>2. ASSUME NEW p \in Int, Held(p, Mp!Marker("nil", 0))
        PROVE  Mp!cmp_read_object(p) = Mp!Object("nil", 0, 0, p + 1)
    <3>1. buf[p].mark = "nil"
      BY <2>1, <2>2, MarkerIs
    <3>. QED BY <3>1
             DEF Mp!cmp_read_object, Mp!ReadShort, Mp!FixExts, Mp!UInts, Mp!SInts,
                 Mp!Bins, Mp!Exts
  <2>3. Mp!Marker("nil", 0) \in Seq(Cell) /\ Len(Mp!Marker("nil", 0)) = 1
    BY <2>1, MarkerIs
  <2>4. ASSUME NEW p \in Int, Held(p, Mp!Marker("nil", 0))
        PROVE  ReadsAs(Mp!cmp_read_object(p), "nil", 0, p + 1)
    BY <2>2, <2>4 DEF Mp!Object, ReadsAs
  <2>. QED BY <1>2, <2>1, <2>3, <2>4
<1>3. CASE t = "boolean"
  <2>1. PICK m : m = IF v = 0 THEN "false" ELSE "true"
    OBVIOUS
  <2>2. Opening(t, v) = Mp!Marker(m, 0) /\ v \in {0, 1} /\ m \in Marks /\ m \in {"false", "true"}
    BY <1>3, <2>1, HeadNames DEF Opening, Suits
  <2>3. ASSUME NEW p \in Int, Held(p, Mp!Marker(m, 0))
        PROVE  Mp!cmp_read_object(p)
                 = Mp!Object("boolean", IF m = "true" THEN 1 ELSE 0, 0, p + 1)
    <3>1. buf[p].mark = m
      BY <2>2, <2>3, MarkerIs
    <3>. QED BY <2>2, <3>1
             DEF Mp!cmp_read_object, Mp!ReadShort, Mp!FixExts, Mp!UInts, Mp!SInts,
                 Mp!Bins, Mp!Exts
  <2>4. Mp!Marker(m, 0) \in Seq(Cell) /\ Len(Mp!Marker(m, 0)) = 1
    BY <2>2, MarkerIs
  <2>5. (IF m = "true" THEN 1 ELSE 0) = v
    BY <2>1, <2>2
  <2>6. ASSUME NEW p \in Int, Held(p, Mp!Marker(m, 0))
        PROVE  ReadsAs(Mp!cmp_read_object(p), "boolean", v, p + 1)
    BY <2>3, <2>5, <2>6 DEF Mp!Object, ReadsAs
  <2>. QED BY <1>3, <2>2, <2>4, <2>6
<1>4. CASE t \in Mp!FixExts
  <2> DEFINE h == Mp!Marker(t, 0)
             d == Mp!Data(<<1>>)
  <2>1. Opening(t, v) = h \o d /\ v = Mp!FixExtSize(t) /\ t \in Marks
    BY <1>4, HeadNames DEF Opening, Suits
  <2>0. 0 \in Int
    OBVIOUS
  <2>2. h \in Seq(Cell) /\ Len(h) = 1 /\ d \in Seq(Cell) /\ Len(d) = 1
    BY <2>0, <2>1, MarkerIs, DataIs
  <2>3. \A p \in Int : Held(p, h) => buf[p].mark = t
    BY <2>0, <2>1, MarkerIs
  <2>. HIDE DEF h, d
  <2>4. h \o d \in Seq(Cell) /\ Len(h \o d) = 2
    BY <2>2, ConcatProperties
  <2>5. ASSUME NEW p \in Int, Held(p, h \o d)
        PROVE  Mp!cmp_read_object(p) = Mp!Object(t, v, buf[p + 1].byte, p + 2)
    <3>1. Held(p, h)
      BY <2>2, <2>5, HeldParts
    <3>2. buf[p].mark = t
      BY <2>3, <3>1
    <3>. QED BY <1>4, <2>1, <3>2
             DEF Mp!cmp_read_object, Mp!ReadFixExt, Mp!FixExts, Mp!UInts, Mp!SInts,
                 Mp!Bins, Mp!Exts
  <2>. QED BY <2>1, <2>4, <2>5 DEF Mp!Object, ReadsAs
<1>5. CASE t \in Wide
  <2> DEFINE w == Mp!Wire(t, v)
             d == Mp!Data(<<1>>)
  <2>1. w \in Seq(Cell) /\ Len(w) \in Nat
    <3>1. PICK k \in 1..8 : Mp!Width(t) = k
      <4>1. Mp!Width(t) \in {1, 2, 4, 8}
        BY <1>5, Widths
      <4>. QED BY <4>1
    <3>2. v \in Int
      BY <1>5, WideNames DEF Suits
    <3>3. w \in Seq(Cell)
      BY <1>5, <3>1, <3>2, WireIs
    <3>. QED BY <3>3, LenProperties
  <2>2. \A p \in Int : Held(p, w) => ReadsAs(Mp!cmp_read_object(p), t, v,
                                              p + Len(w) + IF t \in Mp!Exts THEN 1 ELSE 0)
    BY <1>5, ReadWide
  <2>3. Opening(t, v) = IF t \in Mp!Exts THEN w \o d ELSE w
    BY <1>5, WideNames DEF Opening
  <2>4. d \in Seq(Cell) /\ Len(d) = 1
    BY DataIs
  <2>. HIDE DEF w, d
  <2>5. w \o d \in Seq(Cell) /\ Len(w \o d) = Len(w) + 1
    <3>1. w \in Seq(Cell) /\ d \in Seq(Cell)
      BY <2>1, <2>4
    <3>2. w \o d \in Seq(Cell) /\ Len(w \o d) = Len(w) + Len(d)
      BY <3>1, ConcatProperties, ZenonT(30)
    <3>. QED BY <2>4, <3>2
  <2>6. CASE t \in Mp!Exts
    <3>1. ASSUME NEW p \in Int, Held(p, w \o d)
          PROVE  ReadsAs(Mp!cmp_read_object(p), t, v, p + Len(w \o d))
      <4>1. Held(p, w)
        BY <2>1, <2>4, <3>1, HeldParts
      <4>2. ReadsAs(Mp!cmp_read_object(p), t, v, p + Len(w) + 1)
        BY <2>2, <2>6, <4>1
      <4>3. p + Len(w) + 1 = p + Len(w \o d)
        BY <2>1, <2>5
      <4>. QED BY <4>2, <4>3
    <3>. QED BY <2>3, <2>5, <2>6, <3>1
  <2>7. CASE t \notin Mp!Exts
    <3>1. \A p \in Int : p + Len(w) + 0 = p + Len(w)
      BY <2>1
    <3>. QED BY <2>1, <2>2, <2>3, <2>7, <3>1
  <2>. QED BY <2>6, <2>7
<1>. QED BY <1>1, <1>2, <1>3, <1>4, <1>5 DEF Forms

-----------------------------------------------------------------------------
(* Calls: the form that each call writes.                                  *)

Sized == Mp!Strs \cup Mp!Bins \cup Mp!FixExts \cup Mp!Exts
Whole(t, v) == IF t \in Sized THEN Opening(t, v) \o Mp!Contents(v) ELSE Opening(t, v)

LEMMA Limits ==
    ASSUME Digits
    PROVE  /\ Mp!Greatest(1) \in Nat /\ Mp!Greatest(2) \in Nat
           /\ Mp!Greatest(4) \in Nat /\ Mp!Greatest(8) \in Nat
           /\ Mp!Greatest(1) >= 2 /\ Mp!Greatest(1) <= Mp!Greatest(2) \div 2
           /\ Mp!Greatest(2) <= Mp!Greatest(4) \div 2 /\ Mp!Greatest(4) <= Mp!Greatest(8) \div 2
           /\ Mp!Lowest(1) \in Int /\ Mp!Lowest(2) \in Int
           /\ Mp!Lowest(4) \in Int /\ Mp!Lowest(8) \in Int
           /\ Mp!Lowest(1) < 0 /\ Mp!Lowest(2) < 0 /\ Mp!Lowest(4) < 0 /\ Mp!Lowest(8) < 0
           /\ Mp!Lowest(2) <= Mp!Lowest(1) /\ Mp!Lowest(4) <= Mp!Lowest(2)
           /\ Mp!Lowest(8) <= Mp!Lowest(4)
<1>1. Base > 2 /\ Base \in Nat
  BY DEF Digits
<1>2. /\ \A n \in 0..8 : Mp!Power[n] \in Nat \ {0}
      /\ Mp!Power[1] = Base
      /\ \A n \in 1..8 : Mp!Power[n] = Base * Mp!Power[n - 1]
  BY PowerIs
<1>3. ASSUME NEW n \in 1..7
      PROVE  Mp!Power[n + 1] >= 2 * Mp!Power[n]
  <2>1. n + 1 \in 1..8 /\ (n + 1) - 1 = n /\ n \in 0..8
    OBVIOUS
  <2>2. PICK m \in Nat \ {0} : m = Mp!Power[n]
    BY <1>2, <2>1
  <2>3. Mp!Power[n + 1] = Base * m
    BY <1>2, <2>1, <2>2
  <2>4. Base * m >= 2 * m
    BY <1>1
  <2>. QED BY <2>2, <2>3, <2>4
<1>4. PICK a \in Nat \ {0}, b \in Nat \ {0}, c \in Nat \ {0}, d \in Nat \ {0} :
        a = Mp!Power[1] /\ b = Mp!Power[2] /\ c = Mp!Power[4] /\ d = Mp!Power[8]
  <2>1. 1 \in 0..8 /\ 2 \in 0..8 /\ 4 \in 0..8 /\ 8 \in 0..8
    OBVIOUS
  <2>2. /\ Mp!Power[1] \in Nat \ {0} /\ Mp!Power[2] \in Nat \ {0}
        /\ Mp!Power[4] \in Nat \ {0} /\ Mp!Power[8] \in Nat \ {0}
    BY <2>1, PowerIs
  <2>. QED BY <2>2
<1>5. a > 2 /\ b >= 2 * a /\ c >= 2 * b /\ d >= 2 * c
  <2>1. /\ Mp!Power[1 + 1] >= 2 * Mp!Power[1] /\ Mp!Power[2 + 1] >= 2 * Mp!Power[2]
        /\ Mp!Power[3 + 1] >= 2 * Mp!Power[3] /\ Mp!Power[4 + 1] >= 2 * Mp!Power[4]
        /\ Mp!Power[5 + 1] >= 2 * Mp!Power[5] /\ Mp!Power[6 + 1] >= 2 * Mp!Power[6]
        /\ Mp!Power[7 + 1] >= 2 * Mp!Power[7]
    BY <1>3
  <2>2. PICK p3, p5, p6, p7 \in Nat \ {0} :
          p3 = Mp!Power[3] /\ p5 = Mp!Power[5] /\ p6 = Mp!Power[6] /\ p7 = Mp!Power[7]
    <3>1. 3 \in 0..8 /\ 5 \in 0..8 /\ 6 \in 0..8 /\ 7 \in 0..8
      OBVIOUS
    <3>2. /\ Mp!Power[3] \in Nat \ {0} /\ Mp!Power[5] \in Nat \ {0}
          /\ Mp!Power[6] \in Nat \ {0} /\ Mp!Power[7] \in Nat \ {0}
      BY <3>1, PowerIs
    <3>. QED BY <3>2
  <2>3. /\ b >= 2 * a /\ p3 >= 2 * b /\ c >= 2 * p3 /\ p5 >= 2 * c /\ p6 >= 2 * p5
        /\ p7 >= 2 * p6 /\ d >= 2 * p7
    BY <1>4, <2>1, <2>2
  <2>4. a > 2
    BY <1>1, <1>2, <1>4
  <2>. QED BY <2>3, <2>4
<1>6. /\ Mp!Greatest(1) = a - 1 /\ Mp!Greatest(2) = b - 1
      /\ Mp!Greatest(4) = c - 1 /\ Mp!Greatest(8) = d - 1
  BY <1>4 DEF Mp!Greatest
<1>7. /\ Mp!Lowest(1) = -(a \div 2) /\ Mp!Lowest(2) = -(b \div 2)
      /\ Mp!Lowest(4) = -(c \div 2) /\ Mp!Lowest(8) = -(d \div 2)
  BY <1>4 DEF Mp!Greatest, Mp!Lowest
<1>. QED BY <1>5, <1>6, <1>7

LEMMA CallKinds ==
    ASSUME NEW c \in Mp!Calls
    PROVE  \/ c.fn = "integer" /\ c.arg \in MpNumbers
           \/ c.fn = "uinteger" /\ c.arg \in MpNumbers \cap Nat
           \/ c.fn \in {"str", "bin", "array", "map", "ext"} /\ c.arg \in MpSizes
           \/ c.fn \in Mp!Strs /\ c.arg = 2
           \/ c.fn \in Mp!Arrays \cup Mp!Maps \cup Mp!Bins \cup Mp!Exts /\ c.arg = 2 /\ c.old = FALSE
           \/ c.fn \in Mp!FixExts /\ c.arg = Mp!FixExtSize(c.fn) /\ c.old = FALSE
           \/ c.fn = "boolean" /\ c.arg \in {0, 1} /\ c.old = FALSE
           \/ c.fn = "nil" /\ c.arg = 0 /\ c.old = FALSE
           \/ c.fn \in Mp!UInts \cup Decimals /\ c.arg = Mp!Greatest(Mp!Width(c.fn)) /\ c.old = FALSE
           \/ c.fn \in Mp!SInts /\ c.arg = Mp!Lowest(Mp!Width(c.fn)) /\ c.old = FALSE
<1>1. CASE c \in Mp!Extremes
  <2>1. CASE \E t \in Mp!FixExts : c = [fn |-> t, arg |-> Mp!FixExtSize(t), old |-> FALSE]
    BY <2>1
  <2>2. CASE \E t \in Mp!UInts \cup Decimals :
               c = [fn |-> t, arg |-> Mp!Greatest(Mp!Width(t)), old |-> FALSE]
    BY <2>2
  <2>3. CASE \E t \in Mp!SInts : c = [fn |-> t, arg |-> Mp!Lowest(Mp!Width(t)), old |-> FALSE]
    BY <2>3
  <2>. QED BY <1>1, <2>1, <2>2, <2>3 DEF Mp!Extremes, Decimals
<1>4. CASE \/ c \in Mp!Call({"integer"}, MpNumbers) \cup Mp!Call({"uinteger"}, MpNumbers \cap Nat)
           \/ c \in Mp!Call({"str", "bin", "array", "map", "ext"}, MpSizes)
           \/ c \in [fn : {"str"}, arg : MpSizes, old : {TRUE}]
  BY <1>4 DEF Mp!Call
<1>5. CASE \/ c \in [fn : Mp!Strs, arg : {2}, old : BOOLEAN]
           \/ c \in Mp!Call(Mp!Arrays \cup Mp!Maps \cup Mp!Bins \cup Mp!Exts, {2})
           \/ c \in Mp!Call({"boolean"}, {0, 1}) \/ c \in Mp!Call({"nil"}, {0})
  BY <1>5 DEF Mp!Call
<1>. QED BY <1>1, <1>4, <1>5 DEF Mp!Calls

LEMMA FormHeads ==
    ASSUME NEW t, NEW v
    PROVE  /\ t \in Short => Opening(t, v) = Mp!Marker(t, v)
           /\ t \in Wide /\ t \notin Mp!Exts => Opening(t, v) = Mp!Wire(t, v)
           /\ t \in Mp!Exts => Opening(t, v) = Mp!Wire(t, v) \o Mp!Data(<<1>>)
           /\ t \in Mp!FixExts => Opening(t, v) = Mp!Marker(t, 0) \o Mp!Data(<<1>>)
<1>1. t \in Wide => t \in Forms
  BY DEF Forms
<1>2. t \in Short \cup Mp!FixExts => t \in Forms
  BY DEF Forms
<1>3. t \in Mp!Exts => t \in Wide
  BY DEF Wide
<1>. QED BY <1>1, <1>2, <1>3, HeadNames, WideNames DEF Opening

LEMMA WideForm ==
    ASSUME NEW t \in Wide, t \notin Mp!SInts, NEW v \in Nat, v <= Mp!Greatest(Mp!Width(t))
    PROVE  t \in Forms /\ Suits(t, v)
BY WideNames DEF Forms, Suits, Ranges

LEMMA SignedForm ==
    ASSUME NEW t \in Mp!SInts, NEW v \in Int,
           v >= Mp!Lowest(Mp!Width(t)), v <= Mp!Greatest(Mp!Width(t)) \div 2
    PROVE  t \in Wide /\ t \in Forms /\ Suits(t, v)
<1>1. t \in Wide
  BY DEF Wide
<1>. QED BY <1>1, WideNames DEF Forms, Suits, Ranges

(* The widths of the numbers' forms.                                       *)
LEMMA NumberWidths ==
    /\ "u8" \in Mp!UInts /\ "u16" \in Mp!UInts /\ "u32" \in Mp!UInts /\ "u64" \in Mp!UInts
    /\ "s8" \in Mp!SInts /\ "s16" \in Mp!SInts /\ "s32" \in Mp!SInts /\ "s64" \in Mp!SInts
    /\ Mp!Width("u8") = 1 /\ Mp!Width("u16") = 2 /\ Mp!Width("u32") = 4 /\ Mp!Width("u64") = 8
    /\ Mp!Width("s8") = 1 /\ Mp!Width("s16") = 2 /\ Mp!Width("s32") = 4 /\ Mp!Width("s64") = 8
    /\ \A t \in Mp!UInts : t \in Wide /\ t \notin Mp!SInts /\ t \notin Mp!Exts /\ t \notin Sized
    /\ \A t \in Mp!SInts : t \in Wide /\ t \notin Mp!Exts /\ t \notin Sized
<1>1. /\ "u8" \in Mp!UInts /\ "u16" \in Mp!UInts /\ "u32" \in Mp!UInts /\ "u64" \in Mp!UInts
      /\ "s8" \in Mp!SInts /\ "s16" \in Mp!SInts /\ "s32" \in Mp!SInts /\ "s64" \in Mp!SInts
  BY DEF Mp!UInts, Mp!SInts
<1>2. /\ Mp!Width("u8") = 1 /\ Mp!Width("u16") = 2 /\ Mp!Width("u32") = 4 /\ Mp!Width("u64") = 8
  BY DEF Mp!Width
<1>3. /\ Mp!Width("s8") = 1 /\ Mp!Width("s16") = 2 /\ Mp!Width("s32") = 4 /\ Mp!Width("s64") = 8
  BY DEF Mp!Width
<1>4. \A t \in Mp!UInts : t \in Wide /\ t \notin Mp!SInts /\ t \notin Mp!Exts /\ t \notin Sized
  BY DEF Wide, Mp!UInts, Mp!SInts, Mp!Exts, Sized, Mp!Strs, Mp!Bins, Mp!FixExts
<1>5. \A t \in Mp!SInts : t \in Wide /\ t \notin Mp!Exts /\ t \notin Sized
  BY DEF Wide, Mp!SInts, Mp!Exts, Sized, Mp!Strs, Mp!Bins, Mp!FixExts
<1>. QED BY <1>1, <1>2, <1>3, <1>4, <1>5

Shortest(t, v) ==
    \/ t = "pfix" /\ v >= 0 /\ v <= PosFixMax
    \/ t = "nfix" /\ v < 0 /\ v >= NegFixMin
    \/ t = "u8" /\ v > PosFixMax /\ v <= Mp!Greatest(1)
    \/ t = "u16" /\ v > Mp!Greatest(1) /\ v <= Mp!Greatest(2)
    \/ t = "u32" /\ v > Mp!Greatest(2) /\ v <= Mp!Greatest(4)
    \/ t = "u64" /\ v > Mp!Greatest(4) /\ v <= Mp!Greatest(8)
    \/ t = "s8" /\ v < NegFixMin /\ v >= Mp!Lowest(1)
    \/ t = "s16" /\ v < Mp!Lowest(1) /\ v >= Mp!Lowest(2)
    \/ t = "s32" /\ v < Mp!Lowest(2) /\ v >= Mp!Lowest(4)
    \/ t = "s64" /\ v < Mp!Lowest(4) /\ v >= Mp!Lowest(8)
Writes(cells, t, v) == t \in Forms /\ Suits(t, v) /\ cells = Whole(t, v)

LEMMA NumberWrites ==
    ASSUME Digits, NEW v \in Int, NEW t, Shortest(t, v)
    PROVE  Writes(Mp!WriteNumber(t, v), t, v)
<1>1. /\ PosFixMax \in Nat /\ NegFixMin \in Int /\ NegFixMin < 0
      /\ PosFixMax <= Mp!Greatest(1) \div 2 /\ NegFixMin >= Mp!Lowest(1)
  BY DEF Digits
<1>2. CASE t \in {"pfix", "nfix"}
  <2>1. t \in Short /\ t \notin Sized /\ t \in Forms
    BY <1>2 DEF Short, Sized, Forms, Mp!Strs, Mp!Bins, Mp!FixExts, Mp!Exts
  <2>2. Opening(t, v) = Mp!Marker(t, v)
    BY <2>1, FormHeads
  <2>3. t # "nil" /\ t # "boolean" /\ t \notin Mp!FixExts /\ t \notin Wide
    BY <2>1, HeadNames
  <2>4. Suits(t, v)
    BY <1>2, <2>3 DEF Suits
  <2>5. Mp!WriteNumber(t, v) = Mp!Marker(t, v)
    <3>1. CASE t = "pfix"
      <4>1. v <= PosFixMax
        BY <3>1 DEF Shortest
      <4>. QED BY <3>1, <4>1 DEF Mp!WriteNumber, Mp!UInts, Mp!SInts
    <3>2. CASE t = "nfix"
      <4>1. v \in NegFixMin..-1
        BY <1>1, <3>2 DEF Shortest
      <4>. QED BY <3>2, <4>1 DEF Mp!WriteNumber, Mp!UInts, Mp!SInts
    <3>. QED BY <1>2, <3>1, <3>2
  <2>. QED BY <2>1, <2>2, <2>4, <2>5 DEF Writes, Whole
<1>3. CASE t \in Mp!UInts
  <2>1. v \in Nat /\ v <= Mp!Greatest(Mp!Width(t))
    BY <1>1, <1>3, Limits, NumberWidths DEF Shortest, Mp!UInts
  <2>2. t \in Wide /\ t \notin Mp!SInts /\ t \notin Mp!Exts /\ t \notin Sized
    BY <1>3, NumberWidths
  <2>3. t \in Forms /\ Suits(t, v)
    BY <2>1, <2>2, WideForm
  <2>4. Opening(t, v) = Mp!Wire(t, v)
    BY <2>2, FormHeads
  <2>5. Mp!WriteNumber(t, v) = Mp!Wire(t, v)
    BY <1>3 DEF Mp!WriteNumber, Mp!UInts, Mp!SInts
  <2>. QED BY <2>2, <2>3, <2>4, <2>5 DEF Writes, Whole
<1>4. CASE t \in Mp!SInts
  <2>1. v >= Mp!Lowest(Mp!Width(t)) /\ v <= Mp!Greatest(Mp!Width(t)) \div 2
    <3>1. \A n \in Nat : v < 0 => v <= n \div 2
      OBVIOUS
    <3>2. v < 0
      BY <1>1, <1>4, Limits DEF Shortest, Mp!SInts
    <3>3. v >= Mp!Lowest(Mp!Width(t)) /\ Mp!Greatest(Mp!Width(t)) \in Nat
      BY <1>1, <1>4, Limits, NumberWidths DEF Shortest, Mp!SInts
    <3>. QED BY <3>1, <3>2, <3>3
  <2>2. t \notin Mp!Exts /\ t \notin Sized
    BY <1>4, NumberWidths
  <2>3. t \in Wide /\ t \in Forms /\ Suits(t, v)
    BY <1>4, <2>1, SignedForm
  <2>4. Opening(t, v) = Mp!Wire(t, v)
    BY <2>2, <2>3, FormHeads
  <2>5. Mp!WriteNumber(t, v) = Mp!Wire(t, v)
    BY <1>4 DEF Mp!WriteNumber, Mp!UInts, Mp!SInts
  <2>. QED BY <2>2, <2>3, <2>4, <2>5 DEF Writes, Whole
<1>. QED BY <1>2, <1>3, <1>4 DEF Shortest, Mp!UInts, Mp!SInts

LEMMA IntegerWrites ==
    ASSUME Digits, NEW d \in MpNumbers
    PROVE  /\ \E t : Shortest(t, d) /\ Writes(Mp!cmp_write_integer(d), t, d)
           /\ d >= 0 => \E t : Shortest(t, d) /\ Writes(Mp!cmp_write_uinteger(d), t, d)
<1>1. /\ d \in Int /\ d >= Mp!Lowest(8) /\ d <= Mp!Greatest(8)
      /\ PosFixMax \in Nat /\ NegFixMin \in Int /\ NegFixMin < 0
      /\ PosFixMax <= Mp!Greatest(1) \div 2 /\ NegFixMin >= Mp!Lowest(1)
  BY DEF Digits
<1>2. ASSUME d >= 0
      PROVE  \E t : Shortest(t, d) /\ Writes(Mp!cmp_write_uinteger(d), t, d)
  <2>1. PICK t : t = CASE d <= PosFixMax -> "pfix"
                       [] d > PosFixMax /\ d <= Mp!Greatest(1) -> "u8"
                       [] d > Mp!Greatest(1) /\ d <= Mp!Greatest(2) -> "u16"
                       [] d > Mp!Greatest(2) /\ d <= Mp!Greatest(4) -> "u32" [] OTHER -> "u64"
    OBVIOUS
  <2>2. Mp!cmp_write_uinteger(d) = Mp!WriteNumber(t, d)
    BY <2>1 DEF Mp!cmp_write_uinteger
  <2>3. Shortest(t, d)
    BY <1>1, <1>2, <2>1, Limits DEF Shortest
  <2>. QED BY <1>1, <2>2, <2>3, NumberWrites
<1>3. ASSUME d < 0
      PROVE  \E t : Shortest(t, d) /\ Writes(Mp!cmp_write_integer(d), t, d)
  <2>1. PICK t : t = CASE d >= NegFixMin -> "nfix" [] d < NegFixMin /\ d >= Mp!Lowest(1) -> "s8"
                       [] d < Mp!Lowest(1) /\ d >= Mp!Lowest(2) -> "s16"
                       [] d < Mp!Lowest(2) /\ d >= Mp!Lowest(4) -> "s32" [] OTHER -> "s64"
    OBVIOUS
  <2>2. Mp!cmp_write_integer(d) = Mp!WriteNumber(t, d)
    BY <1>1, <1>3, <2>1 DEF Mp!cmp_write_integer
  <2>3. Shortest(t, d)
    BY <1>1, <1>3, <2>1, Limits DEF Shortest
  <2>. QED BY <1>1, <2>2, <2>3, NumberWrites
<1>4. d >= 0 => Mp!cmp_write_integer(d) = Mp!cmp_write_uinteger(d)
  BY DEF Mp!cmp_write_integer
<1>. QED BY <1>1, <1>2, <1>3, <1>4

LEMMA SizedWidths ==
    /\ Mp!Width("str8") = 1 /\ Mp!Width("bin8") = 1 /\ Mp!Width("ext8") = 1
    /\ Mp!Width("str16") = 2 /\ Mp!Width("bin16") = 2 /\ Mp!Width("ext16") = 2
    /\ Mp!Width("array16") = 2 /\ Mp!Width("map16") = 2
    /\ Mp!Width("str32") = 4 /\ Mp!Width("bin32") = 4 /\ Mp!Width("ext32") = 4
    /\ Mp!Width("array32") = 4 /\ Mp!Width("map32") = 4
<1>1. Mp!Width("str8") = 1 /\ Mp!Width("bin8") = 1 /\ Mp!Width("ext8") = 1
  BY DEF Mp!Width
<1>2. /\ Mp!Width("str16") = 2 /\ Mp!Width("bin16") = 2 /\ Mp!Width("ext16") = 2
      /\ Mp!Width("array16") = 2 /\ Mp!Width("map16") = 2
  BY DEF Mp!Width
<1>3. /\ Mp!Width("str32") = 4 /\ Mp!Width("bin32") = 4 /\ Mp!Width("ext32") = 4
      /\ Mp!Width("array32") = 4 /\ Mp!Width("map32") = 4
  BY DEF Mp!Width
<1>. QED BY <1>1, <1>2, <1>3

LEMMA SizedNames ==
    /\ \A t \in Mp!Strs : /\ t \in Sized /\ t \notin Mp!SInts /\ t \notin Mp!Exts
                          /\ t # "fixstr" => t \in Wide
    /\ \A t \in Mp!Bins : t \in Sized /\ t \notin Mp!SInts /\ t \notin Mp!Exts /\ t \in Wide
    /\ \A t \in Mp!Exts : t \in Sized /\ t \notin Mp!SInts /\ t \in Wide
    /\ \A t \in Mp!FixExts : t \in Sized /\ t \in Forms
    /\ \A t \in Mp!Arrays \cup Mp!Maps :
          /\ t \notin Sized /\ t \notin Mp!SInts /\ t \notin Mp!Exts
          /\ t \notin {"fixarray", "fixmap"} => t \in Wide
<1>1. \A t \in Mp!Strs : /\ t \in Sized /\ t \notin Mp!SInts /\ t \notin Mp!Exts
                         /\ t # "fixstr" => t \in Wide
  BY DEF Mp!Strs, Sized, Mp!SInts, Mp!Exts, Wide, Lengths
<1>2. \A t \in Mp!Bins : t \in Sized /\ t \notin Mp!SInts /\ t \notin Mp!Exts /\ t \in Wide
  BY DEF Mp!Bins, Sized, Mp!SInts, Mp!Exts, Wide
<1>3. \A t \in Mp!Exts : t \in Sized /\ t \notin Mp!SInts /\ t \in Wide
  BY DEF Mp!Exts, Sized, Mp!SInts, Wide
<1>4. \A t \in Mp!FixExts : t \in Sized /\ t \in Forms
  BY DEF Sized, Forms
<1>5. \A t \in Mp!Arrays \cup Mp!Maps :
         /\ t \notin Sized /\ t \notin Mp!SInts /\ t \notin Mp!Exts
         /\ t \notin {"fixarray", "fixmap"} => t \in Wide
  BY DEF Mp!Arrays, Mp!Maps, Sized, Mp!Strs, Mp!Bins, Mp!FixExts, Mp!Exts, Mp!SInts, Wide, Lengths
<1>. QED BY <1>1, <1>2, <1>3, <1>4, <1>5

LEMMA ShortForm ==
    ASSUME NEW t \in Short, NEW v \in Int, t = "fixstr" => v >= 0
    PROVE  t \in Forms /\ Suits(t, v) /\ Opening(t, v) = Mp!Marker(t, v)
<1>1. t \in Forms
  BY DEF Forms
<1>. QED BY <1>1, HeadNames, FormHeads DEF Suits

LEMMA StrHead ==
    ASSUME NEW t \in Mp!Strs, NEW size \in Nat,
           t = "fixstr" => size <= FixStrMax,
           t # "fixstr" => size <= Mp!Greatest(Mp!Width(t))
    PROVE  /\ Mp!StrMarker(t, size) = Opening(t, size)
           /\ Writes(Mp!StrMarker(t, size) \o Mp!Contents(size), t, size)
<1>1. CASE t = "fixstr"
  <2>1. t \in Short
    BY <1>1 DEF Short
  <2>2. t \in Forms /\ Suits(t, size) /\ Opening(t, size) = Mp!Marker(t, size)
    BY <2>1, ShortForm
  <2>3. Mp!StrMarker(t, size) = Mp!Marker(t, size)
    BY <1>1 DEF Mp!StrMarker
  <2>. QED BY <2>2, <2>3, SizedNames DEF Writes, Whole
<1>2. CASE t # "fixstr"
  <2>1. t \in Wide /\ t \notin Mp!SInts /\ t \notin Mp!Exts
    BY <1>2, SizedNames
  <2>2. t \in Forms /\ Suits(t, size)
    BY <1>2, <2>1, WideForm
  <2>3. Mp!StrMarker(t, size) = Mp!Wire(t, size) /\ Opening(t, size) = Mp!Wire(t, size)
    BY <1>2, <2>1, FormHeads DEF Mp!StrMarker
  <2>. QED BY <2>2, <2>3, SizedNames DEF Writes, Whole
<1>. QED BY <1>1, <1>2

LEMMA BinHead ==
    ASSUME NEW t \in Mp!Bins, NEW size \in Nat, size <= Mp!Greatest(Mp!Width(t))
    PROVE  /\ Mp!BinMarker(t, size) = Opening(t, size)
           /\ Writes(Mp!BinMarker(t, size) \o Mp!Contents(size), t, size)
<1>1. t \in Wide /\ t \notin Mp!SInts /\ t \notin Mp!Exts /\ t \in Sized
  BY SizedNames
<1>2. t \in Forms /\ Suits(t, size)
  BY <1>1, WideForm
<1>3. Mp!BinMarker(t, size) = Opening(t, size)
  BY <1>1, FormHeads DEF Mp!BinMarker
<1>. QED BY <1>1, <1>2, <1>3 DEF Writes, Whole

LEMMA ListHead ==
    ASSUME NEW t \in Mp!Arrays \cup Mp!Maps, NEW size \in Nat,
           t \in {"fixarray", "fixmap"} => size <= FixListMax,
           t \notin {"fixarray", "fixmap"} => size <= Mp!Greatest(Mp!Width(t))
    PROVE  Writes(Mp!WriteList(t, size), t, size)
<1>1. CASE t \in {"fixarray", "fixmap"}
  <2>1. t \in Short
    BY <1>1 DEF Short
  <2>2. t \in Forms /\ Suits(t, size) /\ Opening(t, size) = Mp!Marker(t, size)
    BY <2>1, ShortForm
  <2>3. Mp!WriteList(t, size) = Mp!Marker(t, size)
    BY <1>1 DEF Mp!WriteList
  <2>. QED BY <2>2, <2>3, SizedNames DEF Writes, Whole
<1>2. CASE t \notin {"fixarray", "fixmap"}
  <2>1. t \in Wide /\ t \notin Mp!SInts /\ t \notin Mp!Exts
    BY <1>2, SizedNames
  <2>2. t \in Forms /\ Suits(t, size)
    BY <1>2, <2>1, WideForm
  <2>3. Mp!WriteList(t, size) = Mp!Wire(t, size) /\ Opening(t, size) = Mp!Wire(t, size)
    BY <1>2, <2>1, FormHeads DEF Mp!WriteList
  <2>. QED BY <2>2, <2>3, SizedNames DEF Writes, Whole
<1>. QED BY <1>1, <1>2

LEMMA ExtHead ==
    ASSUME NEW t \in Mp!Exts, NEW size \in Nat, size <= Mp!Greatest(Mp!Width(t))
    PROVE  Writes(Mp!ExtMarker(t, 1, size) \o Mp!Contents(size), t, size)
<1>1. t \in Wide /\ t \notin Mp!SInts /\ t \in Sized
  BY SizedNames
<1>2. t \in Forms /\ Suits(t, size)
  BY <1>1, WideForm
<1>3. Mp!ExtMarker(t, 1, size) = Opening(t, size)
  BY <1>1, FormHeads DEF Mp!ExtMarker
<1>. QED BY <1>1, <1>2, <1>3 DEF Writes, Whole

LEMMA FixExtHead ==
    ASSUME NEW t \in Mp!FixExts, NEW size, size = Mp!FixExtSize(t)
    PROVE  /\ Mp!FixExtMarker(t, 1) = Opening(t, size)
           /\ Writes(Mp!FixExtMarker(t, 1) \o Mp!Contents(size), t, size)
<1>1. t \in Sized /\ t \in Forms
  BY SizedNames
<1>2. Suits(t, size)
  BY <1>1, HeadNames DEF Suits
<1>3. Mp!FixExtMarker(t, 1) = Opening(t, size)
  BY FormHeads DEF Mp!FixExtMarker
<1>. QED BY <1>1, <1>2, <1>3 DEF Writes, Whole

LEMMA SizedWrites ==
    ASSUME Digits, NEW size \in Nat, size <= Mp!Greatest(4)
    PROVE  /\ \E t : Writes(Mp!cmp_write_str(size), t, size)
           /\ \E t : Writes(Mp!cmp_write_str_v4(size), t, size)
           /\ \E t : Writes(Mp!cmp_write_bin(size), t, size)
           /\ \E t : Writes(Mp!cmp_write_array(size), t, size)
           /\ \E t : Writes(Mp!cmp_write_map(size), t, size)
           /\ \E t : Writes(Mp!cmp_write_ext(1, size), t, size)
<1>0. FixStrMax \in Nat /\ FixListMax \in Nat
  BY DEF Digits
<1>1. PICK g1 \in Nat, g2 \in Nat, g4 \in Nat :
        /\ g1 = Mp!Greatest(1) /\ g2 = Mp!Greatest(2) /\ g4 = Mp!Greatest(4)
        /\ g1 <= g2
  BY Limits
<1>2. \E t : Writes(Mp!cmp_write_str(size), t, size)
  <2>1. PICK t : t = Mp!StrForm(size)
    OBVIOUS
  <2>2. /\ t \in Mp!Strs /\ (t = "fixstr" => size <= FixStrMax)
        /\ t # "fixstr" => size <= Mp!Greatest(Mp!Width(t))
    BY <1>0, <1>1, <2>1, SizedWidths DEF Mp!StrForm, Mp!Strs
  <2>3. Mp!cmp_write_str(size) = Mp!StrMarker(t, size) \o Mp!Contents(size)
    BY <2>1 DEF Mp!cmp_write_str
  <2>. QED BY <2>2, <2>3, StrHead
<1>3. \E t : Writes(Mp!cmp_write_str_v4(size), t, size)
  <2>1. PICK t : t = Mp!StrFormV4(size)
    OBVIOUS
  <2>2. /\ t \in Mp!Strs /\ (t = "fixstr" => size <= FixStrMax)
        /\ t # "fixstr" => size <= Mp!Greatest(Mp!Width(t))
    BY <1>0, <1>1, <2>1, SizedWidths DEF Mp!StrForm, Mp!StrFormV4, Mp!Strs
  <2>3. Mp!cmp_write_str_v4(size) = Mp!StrMarker(t, size) \o Mp!Contents(size)
    BY <2>1 DEF Mp!cmp_write_str_v4
  <2>. QED BY <2>2, <2>3, StrHead
<1>4. \E t : Writes(Mp!cmp_write_bin(size), t, size)
  <2>1. PICK t : t = Mp!BinForm(size)
    OBVIOUS
  <2>2. t \in Mp!Bins /\ size <= Mp!Greatest(Mp!Width(t))
    BY <1>1, <2>1, SizedWidths DEF Mp!BinForm, Mp!Bins
  <2>3. Mp!cmp_write_bin(size) = Mp!BinMarker(t, size) \o Mp!Contents(size)
    BY <2>1 DEF Mp!cmp_write_bin
  <2>. QED BY <2>2, <2>3, BinHead
<1>5. \E t : Writes(Mp!cmp_write_array(size), t, size)
  <2>1. PICK t : t = CASE size <= FixListMax -> "fixarray"
                       [] size > FixListMax /\ size <= Mp!Greatest(2) -> "array16" [] OTHER -> "array32"
    OBVIOUS
  <2>2. /\ t \in Mp!Arrays /\ (t \in {"fixarray", "fixmap"} => size <= FixListMax)
        /\ t \notin {"fixarray", "fixmap"} => size <= Mp!Greatest(Mp!Width(t))
    BY <1>0, <1>1, <2>1, SizedWidths DEF Mp!Arrays
  <2>3. Mp!cmp_write_array(size) = Mp!WriteList(t, size)
    BY <2>1 DEF Mp!cmp_write_array
  <2>. QED BY <2>2, <2>3, ListHead
<1>6. \E t : Writes(Mp!cmp_write_map(size), t, size)
  <2>1. PICK t : t = CASE size <= FixListMax -> "fixmap"
                       [] size > FixListMax /\ size <= Mp!Greatest(2) -> "map16" [] OTHER -> "map32"
    OBVIOUS
  <2>2. /\ t \in Mp!Maps /\ (t \in {"fixarray", "fixmap"} => size <= FixListMax)
        /\ t \notin {"fixarray", "fixmap"} => size <= Mp!Greatest(Mp!Width(t))
    BY <1>0, <1>1, <2>1, SizedWidths DEF Mp!Maps
  <2>3. Mp!cmp_write_map(size) = Mp!WriteList(t, size)
    BY <2>1 DEF Mp!cmp_write_map
  <2>. QED BY <2>2, <2>3, ListHead
<1>7. \E t : Writes(Mp!cmp_write_ext(1, size), t, size)
  <2>1. CASE \E t \in Mp!FixExts : Mp!FixExtSize(t) = size
    <3>1. PICK t : t = CHOOSE x \in Mp!FixExts : Mp!FixExtSize(x) = size
      OBVIOUS
    <3>2. t \in Mp!FixExts /\ Mp!FixExtSize(t) = size
      BY <2>1, <3>1
    <3>3. Mp!cmp_write_ext(1, size) = Mp!FixExtMarker(t, 1) \o Mp!Contents(size)
      BY <2>1, <3>1 DEF Mp!cmp_write_ext
    <3>. QED BY <3>2, <3>3, FixExtHead
  <2>2. CASE ~(\E t \in Mp!FixExts : Mp!FixExtSize(t) = size)
    <3>1. PICK t : t = CASE size <= Mp!Greatest(1) -> "ext8"
                         [] size > Mp!Greatest(1) /\ size <= Mp!Greatest(2) -> "ext16" [] OTHER -> "ext32"
      OBVIOUS
    <3>2. t \in Mp!Exts /\ size <= Mp!Greatest(Mp!Width(t))
      BY <1>1, <3>1, SizedWidths DEF Mp!Exts
    <3>3. Mp!cmp_write_ext(1, size) = Mp!ExtMarker(t, 1, size) \o Mp!Contents(size)
      BY <2>2, <3>1 DEF Mp!cmp_write_ext
    <3>. QED BY <3>2, <3>3, ExtHead
  <2>. QED BY <2>1, <2>2
<1>. QED BY <1>2, <1>3, <1>4, <1>5, <1>6, <1>7

(* What cmp_write_object writes, form by form. *)
LEMMA ObjectForms ==
    ASSUME NEW o
    PROVE  /\ o.type \in Mp!UInts \cup Mp!SInts => Mp!cmp_write_object(o) = Mp!WriteNumber(o.type, o.val)
           /\ o.type \in Decimals \cup {"boolean", "nil"}
                 => Mp!cmp_write_object(o) = Mp!WriteScalar(o.type, o.val)
           /\ o.type \in Mp!Strs => Mp!cmp_write_object(o) = Mp!StrMarker(o.type, o.val)
           /\ o.type \in Mp!Bins => Mp!cmp_write_object(o) = Mp!BinMarker(o.type, o.val)
           /\ o.type \in Mp!Arrays \cup Mp!Maps => Mp!cmp_write_object(o) = Mp!WriteList(o.type, o.val)
           /\ o.type \in Mp!FixExts => Mp!cmp_write_object(o) = Mp!FixExtMarker(o.type, o.tp)
           /\ o.type \in Mp!Exts => Mp!cmp_write_object(o) = Mp!ExtMarker(o.type, o.tp, o.val)
<1>1. o.type \in Mp!UInts \cup Mp!SInts => Mp!cmp_write_object(o) = Mp!WriteNumber(o.type, o.val)
  BY DEF Mp!cmp_write_object, Mp!UInts, Mp!SInts, Mp!Strs, Mp!Bins, Mp!Arrays, Mp!Maps, Mp!FixExts, Mp!Exts
<1>2. o.type \in Decimals \cup {"boolean", "nil"}
         => Mp!cmp_write_object(o) = Mp!WriteScalar(o.type, o.val)
  BY DEF Mp!cmp_write_object, Mp!UInts, Mp!SInts, Mp!Strs, Mp!Bins, Mp!Arrays, Mp!Maps, Mp!FixExts, Mp!Exts,
         Decimals
<1>3. o.type \in Mp!Strs => Mp!cmp_write_object(o) = Mp!StrMarker(o.type, o.val)
  BY DEF Mp!cmp_write_object, Mp!UInts, Mp!SInts, Mp!Strs, Mp!Bins, Mp!Arrays, Mp!Maps, Mp!FixExts, Mp!Exts
<1>4. o.type \in Mp!Bins => Mp!cmp_write_object(o) = Mp!BinMarker(o.type, o.val)
  BY DEF Mp!cmp_write_object, Mp!UInts, Mp!SInts, Mp!Strs, Mp!Bins, Mp!Arrays, Mp!Maps, Mp!FixExts, Mp!Exts
<1>5. o.type \in Mp!Arrays \cup Mp!Maps => Mp!cmp_write_object(o) = Mp!WriteList(o.type, o.val)
  BY DEF Mp!cmp_write_object, Mp!UInts, Mp!SInts, Mp!Strs, Mp!Bins, Mp!Arrays, Mp!Maps, Mp!FixExts, Mp!Exts
<1>6. o.type \in Mp!FixExts => Mp!cmp_write_object(o) = Mp!FixExtMarker(o.type, o.tp)
  BY DEF Mp!cmp_write_object, Mp!UInts, Mp!SInts, Mp!Strs, Mp!Bins, Mp!Arrays, Mp!Maps, Mp!FixExts, Mp!Exts
<1>7. o.type \in Mp!Exts => Mp!cmp_write_object(o) = Mp!ExtMarker(o.type, o.tp, o.val)
  BY DEF Mp!cmp_write_object, Mp!UInts, Mp!SInts, Mp!Strs, Mp!Bins, Mp!Arrays, Mp!Maps, Mp!FixExts, Mp!Exts
<1>. QED BY <1>1, <1>2, <1>3, <1>4, <1>5, <1>6, <1>7

(* A typed call writes the object and, of a sized one, the contents. *)
LEMMA TypedIs ==
    ASSUME NEW o, NEW old, Mp!Typed(o, old) # <<>>
    PROVE  /\ Mp!cmp_write_object(o) # <<>>
           /\ o.type \in Sized => Mp!Typed(o, old) = Mp!cmp_write_object(o) \o Mp!Contents(o.val)
           /\ o.type \notin Sized => Mp!Typed(o, old) = Mp!cmp_write_object(o)
<1>1. PICK head : head = IF old THEN Mp!cmp_write_object_v4(o) ELSE Mp!cmp_write_object(o)
  OBVIOUS
<1>2. Mp!Typed(o, old) = IF head # <<>> /\ o.type \in Sized THEN head \o Mp!Contents(o.val) ELSE head
  BY <1>1 DEF Mp!Typed, Mp!Refused, Sized
<1>3. head # <<>>
  BY <1>2
<1>4. head = Mp!cmp_write_object(o)
  BY <1>1, <1>3 DEF Mp!cmp_write_object_v4, Mp!Refused
<1>. QED BY <1>2, <1>3, <1>4

LEMMA TypedNames ==
    /\ \A t \in Forms : t \notin {"integer", "uinteger", "str", "bin", "array", "map", "ext"}
    /\ \A t \in Mp!UInts \cup Mp!SInts \cup Decimals \cup Mp!Arrays \cup Mp!Maps \cup {"nil", "boolean"} :
          t \in Forms /\ t \notin Sized
    /\ \A t \in Mp!Strs \cup Mp!Bins \cup Mp!Exts \cup Mp!FixExts : t \in Forms /\ t \in Sized
    /\ \A t \in Decimals : t \in Wide /\ t \notin Mp!SInts /\ t \notin Mp!Exts
<1>1. \A t \in Forms : t \notin {"integer", "uinteger", "str", "bin", "array", "map", "ext"}
  BY DEF Forms, Wide, Short, Mp!FixExts, Mp!UInts, Mp!SInts, Decimals, Lengths, Mp!Bins, Mp!Exts
<1>2. \A t \in Mp!UInts \cup Mp!SInts \cup Decimals \cup Mp!Arrays \cup Mp!Maps \cup {"nil", "boolean"} :
         t \in Forms /\ t \notin Sized
  BY DEF Forms, Wide, Short, Mp!FixExts, Mp!UInts, Mp!SInts, Decimals, Lengths, Mp!Bins, Mp!Exts,
         Mp!Arrays, Mp!Maps, Sized, Mp!Strs
<1>3. \A t \in Mp!Strs \cup Mp!Bins \cup Mp!Exts \cup Mp!FixExts : t \in Forms /\ t \in Sized
  BY DEF Forms, Wide, Short, Lengths, Sized, Mp!Strs
<1>4. \A t \in Decimals : t \in Wide /\ t \notin Mp!SInts /\ t \notin Mp!Exts
  BY DEF Decimals, Wide, Mp!SInts, Mp!Exts
<1>. QED BY <1>1, <1>2, <1>3, <1>4

LEMMA TypedCells ==
    ASSUME NEW c, c.fn \in Forms
    PROVE  Mp!Cells(c) = Mp!Typed([type |-> c.fn, val |-> c.arg, tp |-> 1], c.old)
<1>1. c.fn \notin {"integer", "uinteger", "str", "bin", "array", "map", "ext"}
  BY TypedNames
<1>. QED BY <1>1 DEF Mp!Cells

(* The typed calls write what they are named for, or nothing. *)
LEMMA TypedWrites ==
    ASSUME Digits, NEW c \in Mp!Calls, c.fn \in Forms, Mp!Cells(c) # <<>>
    PROVE  Writes(Mp!Cells(c), c.fn, c.arg)
<1> DEFINE o == [type |-> c.fn, val |-> c.arg, tp |-> 1]
           w == Mp!cmp_write_object(o)
<1>1. o.type = c.fn /\ o.val = c.arg /\ o.tp = 1
  OBVIOUS
<1>2. Mp!Cells(c) = Mp!Typed(o, c.old)
  BY TypedCells
<1>. HIDE DEF o
<1>3. /\ w # <<>>
      /\ c.fn \in Sized => Mp!Cells(c) = w \o Mp!Contents(c.arg)
      /\ c.fn \notin Sized => Mp!Cells(c) = w
  BY <1>1, <1>2, TypedIs
<1>. HIDE DEF w
<1>4. /\ Mp!Greatest(1) \in Nat /\ Mp!Greatest(1) >= 2 /\ 2 <= Mp!Greatest(1)
      /\ 2 <= Mp!Greatest(2) /\ 2 <= Mp!Greatest(4)
      /\ Mp!Greatest(2) \in Nat /\ Mp!Greatest(4) \in Nat /\ Mp!Greatest(8) \in Nat
  BY Limits
<1>5. \A t \in Mp!Strs \cup Mp!Bins \cup Mp!Exts \cup Mp!Arrays \cup Mp!Maps :
         t \notin {"fixstr", "fixarray", "fixmap"} => 2 <= Mp!Greatest(Mp!Width(t))
  <2>1. \A t \in Mp!Strs \cup Mp!Bins \cup Mp!Exts \cup Mp!Arrays \cup Mp!Maps :
           t \notin {"fixstr", "fixarray", "fixmap"} =>
              Mp!Width(t) = 1 \/ Mp!Width(t) = 2 \/ Mp!Width(t) = 4
    BY SizedWidths DEF Mp!Strs, Mp!Bins, Mp!Exts, Mp!Arrays, Mp!Maps
  <2>. QED BY <1>4, <2>1
<1>6. CASE c.fn \in Mp!Strs /\ c.arg = 2
  <2>1. w = Mp!StrMarker(c.fn, 2) /\ c.fn \in Sized
    BY <1>1, <1>6, ObjectForms, TypedNames DEF w
  <2>2. c.fn = "fixstr" => 2 <= FixStrMax
    BY <1>3, <2>1 DEF Mp!StrMarker, Mp!Refused
  <2>3. c.fn # "fixstr" => 2 <= Mp!Greatest(Mp!Width(c.fn))
    <3>1. c.fn \notin {"fixarray", "fixmap"}
      BY <1>6 DEF Mp!Strs
    <3>. QED BY <1>5, <1>6, <3>1
  <2>4. Writes(Mp!StrMarker(c.fn, 2) \o Mp!Contents(2), c.fn, 2)
    BY <1>6, <2>2, <2>3, StrHead
  <2>. QED BY <1>3, <1>6, <2>1, <2>4
<1>7. CASE c.fn \in Mp!Bins /\ c.arg = 2
  <2>1. w = Mp!BinMarker(c.fn, 2) /\ c.fn \in Sized
    BY <1>1, <1>7, ObjectForms, TypedNames DEF w
  <2>2. c.fn \notin {"fixstr", "fixarray", "fixmap"}
    BY <1>7 DEF Mp!Bins
  <2>3. Writes(Mp!BinMarker(c.fn, 2) \o Mp!Contents(2), c.fn, 2)
    BY <1>5, <1>7, <2>2, BinHead
  <2>. QED BY <1>3, <1>7, <2>1, <2>3
<1>8. CASE c.fn \in Mp!Exts /\ c.arg = 2
  <2>1. w = Mp!ExtMarker(c.fn, 1, 2) /\ c.fn \in Sized
    BY <1>1, <1>8, ObjectForms, TypedNames DEF w
  <2>2. c.fn \notin {"fixstr", "fixarray", "fixmap"}
    BY <1>8 DEF Mp!Exts
  <2>3. Writes(Mp!ExtMarker(c.fn, 1, 2) \o Mp!Contents(2), c.fn, 2)
    BY <1>5, <1>8, <2>2, ExtHead
  <2>. QED BY <1>3, <1>8, <2>1, <2>3
<1>9. CASE c.fn \in Mp!Arrays \cup Mp!Maps /\ c.arg = 2
  <2>1. w = Mp!WriteList(c.fn, 2) /\ c.fn \notin Sized /\ c.fn # "fixstr"
    <3>1. c.fn # "fixstr"
      BY <1>9 DEF Mp!Arrays, Mp!Maps
    <3>. QED BY <1>1, <1>9, <3>1, ObjectForms, TypedNames DEF w
  <2>2. c.fn \in {"fixarray", "fixmap"} => 2 <= FixListMax
    BY <1>3, <2>1 DEF Mp!WriteList, Mp!Refused
  <2>3. Writes(Mp!WriteList(c.fn, 2), c.fn, 2)
    BY <1>5, <1>9, <2>1, <2>2, ListHead
  <2>. QED BY <1>3, <1>9, <2>1, <2>3
<1>10. CASE c.fn \in Mp!FixExts /\ c.arg = Mp!FixExtSize(c.fn)
  <2>1. w = Mp!FixExtMarker(c.fn, 1) /\ c.fn \in Sized
    BY <1>1, <1>10, ObjectForms, TypedNames DEF w
  <2>2. Writes(Mp!FixExtMarker(c.fn, 1) \o Mp!Contents(c.arg), c.fn, c.arg)
    BY <1>10, FixExtHead
  <2>. QED BY <1>3, <2>1, <2>2
<1>11. CASE c.fn = "boolean" /\ c.arg \in {0, 1}
  <2>1. w = Mp!WriteScalar("boolean", c.arg) /\ c.fn \notin Sized /\ c.fn \in Forms
    BY <1>1, <1>11, ObjectForms, TypedNames DEF w
  <2>2. Suits(c.fn, c.arg)
    BY <1>11, <2>1, HeadNames DEF Suits
  <2>3. w = Opening(c.fn, c.arg)
    <3>1. c.fn \notin Short
      BY <1>11 DEF Short
    <3>. QED BY <1>11, <2>1, <3>1, HeadNames DEF Mp!WriteScalar, Opening
  <2>. QED BY <1>3, <2>1, <2>2, <2>3 DEF Writes, Whole
<1>12. CASE c.fn = "nil" /\ c.arg = 0
  <2>1. w = Mp!WriteScalar("nil", c.arg) /\ c.fn \notin Sized /\ c.fn \in Forms
    BY <1>1, <1>12, ObjectForms, TypedNames DEF w
  <2>2. Suits(c.fn, c.arg)
    BY <1>12, <2>1, HeadNames DEF Suits
  <2>3. w = Opening(c.fn, c.arg)
    <3>1. c.fn \notin Short
      BY <1>12 DEF Short
    <3>. QED BY <1>12, <2>1, <3>1, HeadNames DEF Mp!WriteScalar, Opening
  <2>. QED BY <1>3, <2>1, <2>2, <2>3 DEF Writes, Whole
<1>13. CASE c.fn \in Mp!UInts \cup Decimals /\ c.arg = Mp!Greatest(Mp!Width(c.fn))
  <2>1. /\ c.fn \in Wide /\ c.fn \notin Mp!SInts /\ c.fn \notin Mp!Exts /\ c.fn \notin Sized
    BY <1>13, NumberWidths, TypedNames
  <2>2. w = Mp!Wire(c.fn, c.arg)
    <3>1. c.fn \in Mp!UInts => w = Mp!WriteNumber(c.fn, c.arg) /\ c.fn \notin {"pfix", "nfix"}
      BY <1>1, ObjectForms DEF w, Mp!UInts
    <3>2. c.fn \in Decimals => w = Mp!WriteScalar(c.fn, c.arg)
      BY <1>1, ObjectForms DEF w
    <3>. QED BY <1>13, <3>1, <3>2 DEF Mp!WriteNumber, Mp!WriteScalar, Decimals
  <2>3. Mp!Width(c.fn) \in {1, 2, 4, 8}
    BY <2>1, Widths
  <2>4. c.arg \in Nat /\ c.arg <= Mp!Greatest(Mp!Width(c.fn))
    BY <1>4, <1>13, <2>3
  <2>5. c.fn \in Forms /\ Suits(c.fn, c.arg)
    BY <2>1, <2>4, WideForm
  <2>6. w = Opening(c.fn, c.arg)
    BY <2>1, <2>2, FormHeads
  <2>. QED BY <1>3, <2>1, <2>5, <2>6 DEF Writes, Whole
<1>14. CASE c.fn \in Mp!SInts /\ c.arg = Mp!Lowest(Mp!Width(c.fn))
  <2>1. /\ c.fn \in Wide /\ c.fn \notin Mp!Exts /\ c.fn \notin Sized
    BY <1>14, NumberWidths
  <2>2. w = Mp!Wire(c.fn, c.arg)
    <3>1. w = Mp!WriteNumber(c.fn, c.arg) /\ c.fn \notin {"pfix", "nfix"}
      BY <1>1, <1>14, ObjectForms DEF w, Mp!SInts
    <3>. QED BY <1>14, <3>1 DEF Mp!WriteNumber
  <2>3. Mp!Width(c.fn) \in {1, 2, 4, 8}
    BY <2>1, Widths
  <2>4. /\ c.arg \in Int /\ c.arg >= Mp!Lowest(Mp!Width(c.fn))
        /\ c.arg <= Mp!Greatest(Mp!Width(c.fn)) \div 2
    <3>1. \A k \in {1, 2, 4, 8} : /\ Mp!Lowest(k) \in Int /\ Mp!Lowest(k) < 0
                                  /\ Mp!Greatest(k) \in Nat
      BY Limits
    <3>2. \A a \in Int, g \in Nat : a < 0 => a >= a /\ a <= g \div 2
      OBVIOUS
    <3>. QED BY <1>14, <2>3, <3>1, <3>2
  <2>5. c.fn \in Forms /\ Suits(c.fn, c.arg)
    BY <1>14, <2>4, SignedForm
  <2>6. w = Opening(c.fn, c.arg)
    BY <2>1, <2>2, FormHeads
  <2>. QED BY <1>3, <2>1, <2>5, <2>6 DEF Writes, Whole
<1>15. c.fn \notin {"integer", "uinteger", "str", "bin", "array", "map", "ext"}
  BY TypedNames
<1>. QED BY <1>6, <1>7, <1>8, <1>9, <1>10, <1>11, <1>12, <1>13, <1>14, <1>15, CallKinds

(* Whatever is written is a number, a length or an object in its form, and *)
(* the writers that choose take the shortest.                              *)
LEMMA CellsAre ==
    ASSUME Digits, NEW c \in Mp!Calls, Mp!Cells(c) # <<>>
    PROVE  \E t : /\ Writes(Mp!Cells(c), t, c.arg)
                  /\ c.fn \in {"integer", "uinteger"} => c.arg \in Int /\ Shortest(t, c.arg)
<1>1. CASE c.fn = "integer" /\ c.arg \in MpNumbers
  <2>1. Mp!Cells(c) = Mp!cmp_write_integer(c.arg) /\ c.arg \in Int
    BY <1>1 DEF Mp!Cells, Digits
  <2>. QED BY <1>1, <2>1, IntegerWrites
<1>2. CASE c.fn = "uinteger" /\ c.arg \in MpNumbers \cap Nat
  <2>1. Mp!Cells(c) = Mp!cmp_write_uinteger(c.arg) /\ c.arg \in MpNumbers /\ c.arg >= 0 /\ c.arg \in Int
    BY <1>2 DEF Mp!Cells
  <2>. QED BY <2>1, IntegerWrites
<1>3. CASE c.fn \in {"str", "bin", "array", "map", "ext"} /\ c.arg \in MpSizes
  <2>1. c.arg \in Nat /\ c.arg <= Mp!Greatest(4) /\ c.fn \notin {"integer", "uinteger"}
    BY <1>3 DEF Digits
  <2>2. \/ Mp!Cells(c) = Mp!cmp_write_str(c.arg) \/ Mp!Cells(c) = Mp!cmp_write_str_v4(c.arg)
        \/ Mp!Cells(c) = Mp!cmp_write_bin(c.arg) \/ Mp!Cells(c) = Mp!cmp_write_array(c.arg)
        \/ Mp!Cells(c) = Mp!cmp_write_map(c.arg) \/ Mp!Cells(c) = Mp!cmp_write_ext(1, c.arg)
    BY <1>3 DEF Mp!Cells
  <2>. QED BY <2>1, <2>2, SizedWrites
<1>4. CASE c.fn \in Forms
  <2>1. c.fn \notin {"integer", "uinteger"}
    BY <1>4, TypedNames
  <2>. QED BY <1>4, <2>1, TypedWrites
<1>5. \A t \in Mp!Strs \cup Mp!Arrays \cup Mp!Maps \cup Mp!Bins \cup Mp!Exts \cup Mp!FixExts
              \cup Mp!UInts \cup Decimals \cup Mp!SInts \cup {"boolean", "nil"} : t \in Forms
  BY TypedNames
<1>. QED BY <1>1, <1>2, <1>3, <1>4, <1>5, CallKinds

LEMMA WholeIs ==
    ASSUME Digits, NEW t \in Forms, NEW v, Suits(t, v)
    PROVE  /\ Whole(t, v) \in Seq(Cell) /\ Len(Opening(t, v)) \in Nat
           /\ t \in Sized => v \in Nat /\ Len(Whole(t, v)) = Len(Opening(t, v)) + v
           /\ t \notin Sized => Whole(t, v) = Opening(t, v)
           /\ \A p \in Int : Held(p, Whole(t, v)) =>
                 ReadsAs(Mp!cmp_read_object(p), t, v, p + Len(Opening(t, v)))
<1>1. /\ Opening(t, v) \in Seq(Cell) /\ Len(Opening(t, v)) \in Nat
      /\ \A p \in Int : Held(p, Opening(t, v)) =>
            ReadsAs(Mp!cmp_read_object(p), t, v, p + Len(Opening(t, v)))
  BY ReadHead, LenProperties
<1>2. CASE t \in Sized
  <2>1. v \in Nat
    <3>1. CASE t \in Mp!FixExts
      BY <1>2, <3>1, HeadNames DEF Suits, Mp!FixExts, Mp!FixExtSize
    <3>2. CASE t = "fixstr"
      <4>1. t \in Short
        BY <3>2 DEF Short
      <4>. QED BY <3>2, <4>1, HeadNames DEF Suits
    <3>3. CASE t \in Wide /\ t \notin Mp!SInts
      <4>1. v \in Int /\ Ranges(t, v, Mp!Width(t))
        BY <3>3, HeadNames DEF Suits
      <4>. QED BY <3>3, <4>1 DEF Ranges
    <3>4. t \in Mp!FixExts \/ t = "fixstr" \/ (t \in Wide /\ t \notin Mp!SInts)
      BY <1>2, SizedNames DEF Sized
    <3>. QED BY <3>1, <3>2, <3>3, <3>4
  <2>2. Base \in Nat \ {0}
    BY DEF Digits
  <2>3. Mp!Contents(v) \in Seq(Cell) /\ Len(Mp!Contents(v)) = v
    BY <2>1, <2>2, DataIs
  <2>4. Whole(t, v) = Opening(t, v) \o Mp!Contents(v)
    BY <1>2 DEF Whole
  <2>5. Whole(t, v) \in Seq(Cell) /\ Len(Whole(t, v)) = Len(Opening(t, v)) + v
    BY <1>1, <2>3, <2>4, ConcatProperties
  <2>6. \A p \in Int : Held(p, Whole(t, v)) => Held(p, Opening(t, v))
    BY <1>1, <2>3, <2>4, HeldParts
  <2>. QED BY <1>1, <1>2, <2>1, <2>5, <2>6
<1>3. CASE t \notin Sized
  BY <1>1, <1>3 DEF Whole
<1>. QED BY <1>2, <1>3

-----------------------------------------------------------------------------
(* What the readers make of an object. *)
LEMMA UptoIs ==
    ASSUME NEW n, NEW forms, NEW t
    PROVE  t \in Mp!Upto(n, forms) <=>
              t \in forms /\ (t \in {"pfix", "nfix"} \/ Mp!Width(t) <= n)
BY DEF Mp!Upto

LEMMA Families ==
    /\ \A t \in Sized : t \notin {"pfix", "nfix", "nil", "boolean", "float", "double"} \cup Mp!UInts
                                     \cup Mp!SInts \cup Mp!Arrays \cup Mp!Maps
    /\ \A t \in Mp!SInts \cup {"pfix", "nfix"} : t \notin Mp!UInts
<1>1. \A t \in Sized : t \notin {"pfix", "nfix", "nil", "boolean", "float", "double"} \cup Mp!UInts
                                    \cup Mp!SInts \cup Mp!Arrays \cup Mp!Maps
  BY DEF Sized, Mp!Strs, Mp!Bins, Mp!FixExts, Mp!Exts, Mp!UInts, Mp!SInts, Mp!Arrays, Mp!Maps
<1>2. \A t \in Mp!SInts \cup {"pfix", "nfix"} : t \notin Mp!UInts
  BY DEF Mp!UInts, Mp!SInts
<1>. QED BY <1>1, <1>2

Returns(r, v, next, after) ==
    r.ok \in BOOLEAN /\ r.val = v /\ r.next = next + IF r.ok THEN after ELSE 0
After(t, v) == IF t \in Sized THEN v ELSE 0

LEMMA PlainReturn ==
    ASSUME NEW o, NEW t, NEW v, NEW p \in Int, NEW ok \in BOOLEAN,
           ReadsAs(o, t, v, p), ok => t \notin Sized
    PROVE  /\ Mp!Result(o, ok, o.next).ok = ok
           /\ Returns(Mp!Result(o, ok, o.next), v, p, After(t, v))
<1>1. Mp!Result(o, ok, o.next) = [ok |-> ok, val |-> v, tp |-> o.tp, next |-> p]
  BY DEF Mp!Result, ReadsAs
<1>2. p + (IF ok THEN After(t, v) ELSE 0) = p
  BY DEF After
<1>. QED BY <1>1, <1>2 DEF Returns

LEMMA SizedReturn ==
    ASSUME NEW o, NEW t, NEW v, NEW p \in Int, NEW ok \in BOOLEAN,
           ReadsAs(o, t, v, p), ok => t \in Sized
    PROVE  /\ Mp!WithContents(o, ok).ok = ok
           /\ Returns(Mp!WithContents(o, ok), v, p, After(t, v))
<1>1. Mp!WithContents(o, ok)
         = [ok |-> ok, val |-> v, tp |-> o.tp, next |-> p + IF ok THEN v ELSE 0]
  BY DEF Mp!WithContents, Mp!Result, ReadsAs
<1>2. p + (IF ok THEN After(t, v) ELSE 0) = p + IF ok THEN v ELSE 0
  BY DEF After
<1>. QED BY <1>1, <1>2 DEF Returns

Reads(f, p, t, v) ==
    /\ Returns(Mp!Return(f, p), v, p + Len(Opening(t, v)), After(t, v))
    /\ Mp!Is(f, Mp!cmp_read_object(p)) => Mp!Return(f, p).ok
    /\ f \in {"char", "short", "int", "long"}
          => Mp!Return(f, p).ok = Mp!object_as_signed(f, Mp!cmp_read_object(p))
    /\ f \in {"uchar", "ushort", "uint", "ulong"}
          => Mp!Return(f, p).ok = Mp!object_as_unsigned(f, Mp!cmp_read_object(p))

LEMMA ReturnIs ==
    ASSUME NEW f, NEW p
    PROVE  /\ f \in {"char", "short", "int", "long"} => Mp!Return(f, p) = Mp!cmp_read_signed(f, p)
           /\ f \in {"uchar", "ushort", "uint", "ulong"} => Mp!Return(f, p) = Mp!cmp_read_unsigned(f, p)
           /\ f \in Mp!UInts \cup Mp!SInts \cup {"nil", "boolean"} => Mp!Return(f, p) = Mp!cmp_read_exact(f, p)
           /\ f = "sfix" => Mp!Return(f, p) = Mp!cmp_read_sfix(p)
           /\ f = "decimal" => Mp!Return(f, p) = Mp!cmp_read_decimal(p)
           /\ f = "str" => Mp!Return(f, p) = Mp!cmp_read_str(p)
           /\ f = "bin" => Mp!Return(f, p) = Mp!cmp_read_bin(p)
           /\ f \in {"array", "map"} => Mp!Return(f, p) = Mp!cmp_read_list(f, p)
           /\ f \in Mp!FixExts => Mp!Return(f, p) = Mp!cmp_read_fixext(f, p)
           /\ f \in Mp!Exts => Mp!Return(f, p) = Mp!cmp_read_extsize(f, p)
           /\ f = "ext" => Mp!Return(f, p) = Mp!cmp_read_ext(p)
<1>1. f \in {"char", "short", "int", "long"} => Mp!Return(f, p) = Mp!cmp_read_signed(f, p)
  BY DEF Mp!Return, Mp!UInts, Mp!SInts, Mp!FixExts, Mp!Exts
<1>2. f \in {"uchar", "ushort", "uint", "ulong"} => Mp!Return(f, p) = Mp!cmp_read_unsigned(f, p)
  BY DEF Mp!Return, Mp!UInts, Mp!SInts, Mp!FixExts, Mp!Exts
<1>3. f \in Mp!UInts \cup Mp!SInts \cup {"nil", "boolean"} => Mp!Return(f, p) = Mp!cmp_read_exact(f, p)
  BY DEF Mp!Return, Mp!UInts, Mp!SInts, Mp!FixExts, Mp!Exts
<1>4. f = "sfix" => Mp!Return(f, p) = Mp!cmp_read_sfix(p)
  BY DEF Mp!Return, Mp!UInts, Mp!SInts, Mp!FixExts, Mp!Exts
<1>5. f = "decimal" => Mp!Return(f, p) = Mp!cmp_read_decimal(p)
  BY DEF Mp!Return, Mp!UInts, Mp!SInts, Mp!FixExts, Mp!Exts
<1>6. f = "str" => Mp!Return(f, p) = Mp!cmp_read_str(p)
  BY DEF Mp!Return, Mp!UInts, Mp!SInts, Mp!FixExts, Mp!Exts
<1>7. f = "bin" => Mp!Return(f, p) = Mp!cmp_read_bin(p)
  BY DEF Mp!Return, Mp!UInts, Mp!SInts, Mp!FixExts, Mp!Exts
<1>8. f \in {"array", "map"} => Mp!Return(f, p) = Mp!cmp_read_list(f, p)
  BY DEF Mp!Return, Mp!UInts, Mp!SInts, Mp!FixExts, Mp!Exts
<1>9. f \in Mp!FixExts => Mp!Return(f, p) = Mp!cmp_read_fixext(f, p)
  BY DEF Mp!Return, Mp!UInts, Mp!SInts, Mp!FixExts, Mp!Exts
<1>10. f \in Mp!Exts => Mp!Return(f, p) = Mp!cmp_read_extsize(f, p)
  BY DEF Mp!Return, Mp!UInts, Mp!SInts, Mp!FixExts, Mp!Exts
<1>11. f = "ext" => Mp!Return(f, p) = Mp!cmp_read_ext(p)
  BY DEF Mp!Return, Mp!UInts, Mp!SInts, Mp!FixExts, Mp!Exts
<1>. QED BY <1>1, <1>2, <1>3, <1>4, <1>5, <1>6, <1>7, <1>8, <1>9, <1>10, <1>11

LEMMA ReaderIs ==
    ASSUME NEW f \in Mp!Readers, NEW p \in Int, NEW t, NEW v, Len(Opening(t, v)) \in Nat,
           ReadsAs(Mp!cmp_read_object(p), t, v, p + Len(Opening(t, v)))
    PROVE  Reads(f, p, t, v)
<1> DEFINE o == Mp!cmp_read_object(p)
           q == p + Len(Opening(t, v))
<1>1. q \in Int /\ ReadsAs(o, t, v, q) /\ o.type = t
  BY DEF ReadsAs
<1>. HIDE DEF q
<1>2. CASE f \in {"char", "short", "int", "long"}
  <2> DEFINE ok == Mp!object_as_signed(f, o)
  <2>1. Mp!Return(f, p) = Mp!Result(o, ok, o.next)
    BY <1>2, ReturnIs DEF Mp!cmp_read_signed
  <2>2. ok => t \in {"pfix", "nfix"} \cup Mp!SInts \cup Mp!UInts
    BY <1>1, UptoIs DEF Mp!object_as_signed
  <2>3. ok => t \notin Sized
    BY <2>2, Families
  <2>4. Mp!Is(f, o) => ok
    <3>1. Mp!Is(f, o) => t \in {"nfix"} \cup Mp!Upto(Mp!CWidth(f), Mp!SInts)
      BY <1>1, <1>2 DEF Mp!Is, Mp!CInts, Mp!object_is_number
    <3>2. Mp!Is(f, o) => /\ t \in {"pfix", "nfix"} \cup Mp!Upto(Mp!CWidth(f), Mp!SInts \cup Mp!UInts)
                         /\ t \in Mp!SInts \cup {"pfix", "nfix"}
      BY <3>1, UptoIs
    <3>3. Mp!Is(f, o) => t \notin Mp!UInts
      BY <3>2, Families
    <3>. QED BY <1>1, <3>2, <3>3 DEF Mp!object_as_signed
  <2>5. ok \in BOOLEAN
    BY DEF Mp!object_as_signed
  <2>. HIDE DEF ok
  <2>6. Mp!Return(f, p).ok = ok /\ Returns(Mp!Return(f, p), v, q, After(t, v))
    BY <1>1, <2>1, <2>3, <2>5, PlainReturn
  <2>. QED BY <1>2, <2>4, <2>6 DEF Reads, ok, q
<1>3. CASE f \in {"uchar", "ushort", "uint", "ulong"}
  <2> DEFINE ok == Mp!object_as_unsigned(f, o)
  <2>1. Mp!Return(f, p) = Mp!Result(o, ok, o.next)
    BY <1>3, ReturnIs DEF Mp!cmp_read_unsigned
  <2>2. ok => t \in {"pfix", "nfix"} \cup Mp!SInts \cup Mp!UInts
    BY <1>1, UptoIs DEF Mp!object_as_unsigned
  <2>3. ok => t \notin Sized
    BY <2>2, Families
  <2>4. Mp!Is(f, o) => ok
    BY <1>1, <1>3 DEF Mp!Is, Mp!CInts, Mp!object_is_number, Mp!object_as_unsigned
  <2>5. ok \in BOOLEAN
    BY DEF Mp!object_as_unsigned
  <2>. HIDE DEF ok
  <2>6. Mp!Return(f, p).ok = ok /\ Returns(Mp!Return(f, p), v, q, After(t, v))
    BY <1>1, <2>1, <2>3, <2>5, PlainReturn
  <2>. QED BY <1>3, <2>4, <2>6 DEF Reads, ok, q
<1>4. f \notin {"char", "short", "int", "long", "uchar", "ushort", "uint", "ulong"}
         => (Mp!Is(f, o) <=> f \in {"nil", "boolean", "array", "map", "ext"} /\ Mp!object_is(f, o))
  BY DEF Mp!Is, Mp!CInts
<1>5. CASE f \in Mp!UInts \cup Mp!SInts \cup {"nil", "boolean"}
  <2> DEFINE ok == o.type = f
  <2>1. Mp!Return(f, p) = Mp!Result(o, ok, o.next)
    BY <1>5, ReturnIs DEF Mp!cmp_read_exact
  <2>2. ok => t \notin Sized
    BY <1>1, <1>5, Families
  <2>3. f \notin {"char", "short", "int", "long", "uchar", "ushort", "uint", "ulong"}
    BY <1>5 DEF Mp!UInts, Mp!SInts
  <2>4. Mp!Is(f, o) => ok
    <3>1. Mp!Is(f, o) => f \in {"nil", "boolean"} /\ Mp!object_is(f, o)
      BY <1>4, <1>5, <2>3 DEF Mp!UInts, Mp!SInts
    <3>. QED BY <3>1 DEF Mp!object_is
  <2>5. ok \in BOOLEAN
    OBVIOUS
  <2>. HIDE DEF ok
  <2>6. Mp!Return(f, p).ok = ok /\ Returns(Mp!Return(f, p), v, q, After(t, v))
    BY <1>1, <2>1, <2>2, <2>5, PlainReturn
  <2>. QED BY <2>3, <2>4, <2>6 DEF Reads, ok, q
<1>6. CASE f \in {"sfix", "decimal"}
  <2> DEFINE ok == o.type \in IF f = "sfix" THEN {"pfix", "nfix"} ELSE {"float", "double"}
  <2>1. Mp!Return(f, p) = Mp!Result(o, ok, o.next)
    BY <1>6, ReturnIs DEF Mp!cmp_read_sfix, Mp!cmp_read_decimal
  <2>2. ok => t \notin Sized
    BY <1>1, Families
  <2>3. f \notin {"char", "short", "int", "long", "uchar", "ushort", "uint", "ulong"}
    BY <1>6
  <2>4. ~Mp!Is(f, o)
    BY <1>4, <1>6, <2>3
  <2>5. ok \in BOOLEAN
    OBVIOUS
  <2>. HIDE DEF ok
  <2>6. Mp!Return(f, p).ok = ok /\ Returns(Mp!Return(f, p), v, q, After(t, v))
    BY <1>1, <2>1, <2>2, <2>5, PlainReturn
  <2>. QED BY <2>3, <2>4, <2>6 DEF Reads, ok, q
<1>7. CASE f \in {"array", "map"}
  <2> DEFINE ok == Mp!object_as_list(f, o)
  <2>1. Mp!Return(f, p) = Mp!Result(o, ok, o.next)
    BY <1>7, ReturnIs DEF Mp!cmp_read_list
  <2>2. ok => t \in Mp!Arrays \cup Mp!Maps
    BY <1>1, <1>7 DEF Mp!object_as_list
  <2>3. ok => t \notin Sized
    BY <2>2, Families
  <2>4. f \notin {"char", "short", "int", "long", "uchar", "ushort", "uint", "ulong"}
    BY <1>7
  <2>5. Mp!Is(f, o) => ok
    BY <1>4, <1>7, <2>4 DEF Mp!object_is
  <2>6. ok \in BOOLEAN
    BY DEF Mp!object_as_list
  <2>. HIDE DEF ok
  <2>7. Mp!Return(f, p).ok = ok /\ Returns(Mp!Return(f, p), v, q, After(t, v))
    BY <1>1, <2>1, <2>3, <2>6, PlainReturn
  <2>. QED BY <2>4, <2>5, <2>7 DEF Reads, ok, q
<1>8. CASE f \in {"str", "bin"}
  <2>1. \E ok \in BOOLEAN : /\ Mp!Return(f, p) = Mp!WithContents(o, ok)
                            /\ ok => Mp!object_as_list(f, o)
    <3>1. CASE f = "str"
      <4>1. Mp!Return(f, p) = Mp!cmp_read_str(p)
        BY <3>1, ReturnIs
      <4>. QED BY <3>1, <4>1 DEF Mp!cmp_read_str
    <3>2. CASE f = "bin"
      <4>1. Mp!Return(f, p) = Mp!cmp_read_bin(p)
        BY <3>2, ReturnIs
      <4>. QED BY <3>2, <4>1 DEF Mp!cmp_read_bin
    <3>. QED BY <1>8, <3>1, <3>2
  <2>2. PICK good \in BOOLEAN : /\ Mp!Return(f, p) = Mp!WithContents(o, good)
                                /\ good => Mp!object_as_list(f, o)
    BY <2>1
  <2>3. good => t \in Sized
    BY <1>1, <1>8, <2>2 DEF Mp!object_as_list, Sized
  <2>4. f \notin {"char", "short", "int", "long", "uchar", "ushort", "uint", "ulong"}
    BY <1>8
  <2>5. ~Mp!Is(f, o)
    BY <1>4, <1>8, <2>4
  <2>6. Returns(Mp!Return(f, p), v, q, After(t, v))
    BY <1>1, <2>2, <2>3, SizedReturn
  <2>. QED BY <2>4, <2>5, <2>6 DEF Reads, q
<1>9. CASE f \in Mp!FixExts \cup Mp!Exts
  <2> DEFINE ok == o.type = f
  <2>1. Mp!Return(f, p) = Mp!WithContents(o, ok)
    BY <1>9, ReturnIs DEF Mp!cmp_read_fixext, Mp!cmp_read_extsize
  <2>2. ok => t \in Sized
    BY <1>1, <1>9 DEF Sized
  <2>3. /\ f \notin {"char", "short", "int", "long", "uchar", "ushort", "uint", "ulong"}
        /\ f \notin {"nil", "boolean", "array", "map", "ext"}
    BY <1>9 DEF Mp!FixExts, Mp!Exts
  <2>4. ~Mp!Is(f, o)
    BY <1>4, <2>3
  <2>5. ok \in BOOLEAN
    OBVIOUS
  <2>. HIDE DEF ok
  <2>6. Mp!Return(f, p).ok = ok /\ Returns(Mp!Return(f, p), v, q, After(t, v))
    BY <1>1, <2>1, <2>2, <2>5, SizedReturn
  <2>. QED BY <2>3, <2>4, <2>6 DEF Reads, ok, q
<1>10. CASE f = "ext"
  <2> DEFINE ok == Mp!object_as_list(f, o)
  <2>1. Mp!Return(f, p) = Mp!WithContents(o, ok)
    BY <1>10, ReturnIs DEF Mp!cmp_read_ext
  <2>2. ok => t \in Sized
    BY <1>1, <1>10 DEF Mp!object_as_list, Sized
  <2>3. f \notin {"char", "short", "int", "long", "uchar", "ushort", "uint", "ulong"}
    BY <1>10
  <2>4. Mp!Is(f, o) => ok
    BY <1>4, <1>10, <2>3 DEF Mp!object_is
  <2>5. ok \in BOOLEAN
    BY DEF Mp!object_as_list
  <2>. HIDE DEF ok
  <2>6. Mp!Return(f, p).ok = ok /\ Returns(Mp!Return(f, p), v, q, After(t, v))
    BY <1>1, <2>1, <2>2, <2>5, SizedReturn
  <2>. QED BY <2>3, <2>4, <2>6 DEF Reads, ok, q
<1>. QED BY <1>2, <1>3, <1>5, <1>6, <1>7, <1>8, <1>9, <1>10 DEF Mp!Readers, Mp!CInts

(* A number in its shortest form is taken by just the types that hold it.  *)
LEMMA SignedFits ==
    ASSUME Digits, NEW v \in Int, NEW t, Shortest(t, v),
           NEW f \in {"char", "short", "int", "long"}, NEW o, o.type = t, o.val = v
    PROVE  Mp!object_as_signed(f, o) <=> Mp!Fits(v, f)
<1>1. PICK g1 \in Nat, g2 \in Nat, g4 \in Nat, g8 \in Nat,
           l1 \in Int, l2 \in Int, l4 \in Int, l8 \in Int :
        /\ g1 = Mp!Greatest(1) /\ g2 = Mp!Greatest(2) /\ g4 = Mp!Greatest(4) /\ g8 = Mp!Greatest(8)
        /\ l1 = Mp!Lowest(1) /\ l2 = Mp!Lowest(2) /\ l4 = Mp!Lowest(4) /\ l8 = Mp!Lowest(8)
        /\ g1 >= 2 /\ g1 <= g2 \div 2 /\ g2 <= g4 \div 2 /\ g4 <= g8 \div 2
        /\ l1 < 0 /\ l2 <= l1 /\ l4 <= l2 /\ l8 <= l4
  BY Limits
<1>2. PICK h1 \in Nat, h2 \in Nat, h4 \in Nat, h8 \in Nat :
        /\ h1 = g1 \div 2 /\ h2 = g2 \div 2 /\ h4 = g4 \div 2 /\ h8 = g8 \div 2
        /\ h1 <= g1 /\ h2 <= g2 /\ h4 <= g4 /\ h8 <= g8
  <2>1. \A g \in Nat : \E h \in Nat : h = g \div 2 /\ h <= g
    OBVIOUS
  <2>. QED BY Zenon, <2>1
<1>3. PICK b \in Nat, m \in Int :
        b = PosFixMax /\ m = NegFixMin /\ b <= h1 /\ m < 0 /\ m >= l1
  BY <1>1, <1>2 DEF Digits
<1>4. /\ g1 <= h2 /\ g2 <= h4 /\ g4 <= h8 /\ h1 <= h2 /\ h2 <= h4 /\ h4 <= h8
  BY <1>1, <1>2
<1>5. \/ t = "pfix" /\ v >= 0 /\ v <= b
      \/ t = "nfix" /\ v < 0 /\ v >= m
      \/ t = "u8" /\ v > b /\ v <= g1
      \/ t = "u16" /\ v > g1 /\ v <= g2
      \/ t = "u32" /\ v > g2 /\ v <= g4
      \/ t = "u64" /\ v > g4 /\ v <= g8
      \/ t = "s8" /\ v < m /\ v >= l1
      \/ t = "s16" /\ v < l1 /\ v >= l2
      \/ t = "s32" /\ v < l2 /\ v >= l4
      \/ t = "s64" /\ v < l4 /\ v >= l8
  BY <1>1, <1>3 DEF Shortest
<1>6. /\ t \in {"pfix", "nfix"} => t \notin Mp!UInts /\ t \notin Mp!SInts
      /\ t \in {"u8", "u16", "u32", "u64"} => t \in Mp!UInts
      /\ t \in {"s8", "s16", "s32", "s64"} => t \in Mp!SInts /\ t \notin Mp!UInts
  BY DEF Mp!UInts, Mp!SInts
<1>7. /\ t = "u8" => Mp!Width(t) = 1
      /\ t = "u16" => Mp!Width(t) = 2
      /\ t = "u32" => Mp!Width(t) = 4
      /\ t = "u64" => Mp!Width(t) = 8
      /\ t = "s8" => Mp!Width(t) = 1
      /\ t = "s16" => Mp!Width(t) = 2
      /\ t = "s32" => Mp!Width(t) = 4
      /\ t = "s64" => Mp!Width(t) = 8
  BY NumberWidths
<1>8. \A n : /\ t \in {"pfix", "nfix"} \cup Mp!Upto(n, Mp!SInts \cup Mp!UInts) <=>
                   \/ t \in {"pfix", "nfix"}
                   \/ t \in {"u8", "u16", "u32", "u64", "s8", "s16", "s32", "s64"}
                      /\ Mp!Width(t) <= n
  BY <1>5, <1>6, UptoIs
<1>9. \A n, h : (Mp!object_as_signed(f, o) /\ n = Mp!CWidth(f) /\ h = Mp!Greatest(n) \div 2)
           => /\ \/ t \in {"pfix", "nfix"}
                 \/ t \in {"u8", "u16", "u32", "u64", "s8", "s16", "s32", "s64"}
                    /\ Mp!Width(t) <= n
              /\ t \in {"u8", "u16", "u32", "u64"} /\ Mp!Width(t) = n => v <= h
  BY <1>6, <1>8 DEF Mp!object_as_signed
<1>10. \A n, h : /\ n = Mp!CWidth(f) /\ h = Mp!Greatest(n) \div 2
                 /\ \/ t \in {"pfix", "nfix"}
                    \/ t \in {"u8", "u16", "u32", "u64", "s8", "s16", "s32", "s64"}
                       /\ Mp!Width(t) <= n
                 /\ t \in {"u8", "u16", "u32", "u64"} /\ Mp!Width(t) = n => v <= h
           => Mp!object_as_signed(f, o)
  <2>1. t \in Mp!UInts => t \in {"u8", "u16", "u32", "u64"}
    BY DEF Mp!UInts
  <2>. QED BY <2>1, <1>8 DEF Mp!object_as_signed
<1>11. CASE f = "char"
  <2>1. Mp!CWidth(f) = 1
    BY <1>11 DEF Mp!CWidth
  <2>2. Mp!Fits(v, f) <=> v >= l1 /\ v <= h1
    BY <1>1, <1>2, <1>11, <2>1 DEF Mp!Fits
  <2>3. h1 = Mp!Greatest(1) \div 2
    BY <1>1, <1>2
  <2>. QED BY <1>1, <1>3, <1>4, <1>5, <1>7, <1>9, <1>10, <2>1, <2>2, <2>3
<1>12. CASE f = "short"
  <2>1. Mp!CWidth(f) = 2
    BY <1>12 DEF Mp!CWidth
  <2>2. Mp!Fits(v, f) <=> v >= l2 /\ v <= h2
    BY <1>1, <1>2, <1>12, <2>1 DEF Mp!Fits
  <2>3. h2 = Mp!Greatest(2) \div 2
    BY <1>1, <1>2
  <2>. QED BY <1>1, <1>3, <1>4, <1>5, <1>7, <1>9, <1>10, <2>1, <2>2, <2>3
<1>13. CASE f = "int"
  <2>1. Mp!CWidth(f) = 4
    BY <1>13 DEF Mp!CWidth
  <2>2. Mp!Fits(v, f) <=> v >= l4 /\ v <= h4
    BY <1>1, <1>2, <1>13, <2>1 DEF Mp!Fits
  <2>3. h4 = Mp!Greatest(4) \div 2
    BY <1>1, <1>2
  <2>. QED BY <1>1, <1>3, <1>4, <1>5, <1>7, <1>9, <1>10, <2>1, <2>2, <2>3
<1>14. CASE f = "long"
  <2>1. Mp!CWidth(f) = 8
    BY <1>14 DEF Mp!CWidth
  <2>2. Mp!Fits(v, f) <=> v >= l8 /\ v <= h8
    BY <1>1, <1>2, <1>14, <2>1 DEF Mp!Fits
  <2>3. h8 = Mp!Greatest(8) \div 2
    BY <1>1, <1>2
  <2>. QED BY <1>1, <1>3, <1>4, <1>5, <1>7, <1>9, <1>10, <2>1, <2>2, <2>3
<1>. QED BY <1>11, <1>12, <1>13, <1>14

LEMMA UnsignedFits ==
    ASSUME Digits, NEW v \in Int, NEW t, Shortest(t, v),
           NEW f \in {"uchar", "ushort", "uint", "ulong"}, NEW o, o.type = t, o.val = v
    PROVE  Mp!object_as_unsigned(f, o) <=> Mp!Fits(v, f)
<1>1. PICK g1 \in Nat, g2 \in Nat, g4 \in Nat, g8 \in Nat,
           l1 \in Int, l2 \in Int, l4 \in Int, l8 \in Int :
        /\ g1 = Mp!Greatest(1) /\ g2 = Mp!Greatest(2) /\ g4 = Mp!Greatest(4) /\ g8 = Mp!Greatest(8)
        /\ l1 = Mp!Lowest(1) /\ l2 = Mp!Lowest(2) /\ l4 = Mp!Lowest(4) /\ l8 = Mp!Lowest(8)
        /\ g1 >= 2 /\ g1 <= g2 \div 2 /\ g2 <= g4 \div 2 /\ g4 <= g8 \div 2
        /\ l1 < 0 /\ l2 <= l1 /\ l4 <= l2 /\ l8 <= l4
  BY Limits
<1>2. g1 <= g2 /\ g2 <= g4 /\ g4 <= g8 /\ l2 < 0 /\ l4 < 0
  BY <1>1
<1>3. PICK b \in Nat, m \in Int : b = PosFixMax /\ m = NegFixMin /\ b <= g1 /\ m < 0
  BY <1>1 DEF Digits
<1>5. \/ t = "pfix" /\ v >= 0 /\ v <= b
      \/ t = "u8" /\ v > b /\ v <= g1
      \/ t = "u16" /\ v > g1 /\ v <= g2
      \/ t = "u32" /\ v > g2 /\ v <= g4
      \/ t = "u64" /\ v > g4 /\ v <= g8
      \/ t \in {"nfix", "s8", "s16", "s32", "s64"} /\ v < 0
  BY <1>1, <1>2, <1>3 DEF Shortest
<1>6. /\ t \in {"pfix", "nfix", "s8", "s16", "s32", "s64"} => t \notin Mp!UInts
      /\ t \in {"u8", "u16", "u32", "u64"} => t \in Mp!UInts
  BY DEF Mp!UInts
<1>7. /\ t = "u8" => Mp!Width(t) = 1
      /\ t = "u16" => Mp!Width(t) = 2
      /\ t = "u32" => Mp!Width(t) = 4
      /\ t = "u64" => Mp!Width(t) = 8
  BY NumberWidths
<1>8. Mp!object_as_unsigned(f, o) <=>
         t = "pfix" \/ (t \in {"u8", "u16", "u32", "u64"} /\ Mp!Width(t) <= Mp!CWidth(f))
  <2>1. t \in Mp!UInts <=> t \in {"u8", "u16", "u32", "u64"}
    BY DEF Mp!UInts
  <2>2. \A n : t \in Mp!Upto(n, Mp!UInts) <=> t \in {"u8", "u16", "u32", "u64"} /\ Mp!Width(t) <= n
    BY <2>1, <1>6, UptoIs
  <2>. QED BY <2>2 DEF Mp!object_as_unsigned
<1>11. CASE f = "uchar"
  <2>1. Mp!CWidth(f) = 1
    BY <1>11 DEF Mp!CWidth
  <2>2. Mp!Fits(v, f) <=> v >= 0 /\ v <= g1
    BY <1>1, <1>11, <2>1 DEF Mp!Fits
  <2>. QED BY <1>1, <1>2, <1>3, <1>5, <1>7, <1>8, <2>1, <2>2
<1>12. CASE f = "ushort"
  <2>1. Mp!CWidth(f) = 2
    BY <1>12 DEF Mp!CWidth
  <2>2. Mp!Fits(v, f) <=> v >= 0 /\ v <= g2
    BY <1>1, <1>12, <2>1 DEF Mp!Fits
  <2>. QED BY <1>1, <1>2, <1>3, <1>5, <1>7, <1>8, <2>1, <2>2
<1>13. CASE f = "uint"
  <2>1. Mp!CWidth(f) = 4
    BY <1>13 DEF Mp!CWidth
  <2>2. Mp!Fits(v, f) <=> v >= 0 /\ v <= g4
    BY <1>1, <1>13, <2>1 DEF Mp!Fits
  <2>. QED BY <1>1, <1>2, <1>3, <1>5, <1>7, <1>8, <2>1, <2>2
<1>14. CASE f = "ulong"
  <2>1. Mp!CWidth(f) = 8
    BY <1>14 DEF Mp!CWidth
  <2>2. Mp!Fits(v, f) <=> v >= 0 /\ v <= g8
    BY <1>1, <1>14, <2>1 DEF Mp!Fits
  <2>. QED BY <1>1, <1>2, <1>3, <1>5, <1>7, <1>8, <2>1, <2>2
<1>. QED BY <1>11, <1>12, <1>13, <1>14

(* The buffer is the cells of the calls one behind the other: pos[i] is    *)
(* where the i-th begins.                                                  *)
Placed(pos) ==
    /\ pos \in [1..Len(written) + 1 -> Nat \ {0}]
    /\ pos[1] = 1 /\ pos[Len(written) + 1] = Len(buf) + 1
    /\ \A i \in 1..Len(written) :
          /\ Held(pos[i], Mp!Cells(written[i]))
          /\ pos[i + 1] = pos[i] + Len(Mp!Cells(written[i]))
          /\ pos[i + 1] <= Len(buf) + 1

(* The reader is behind the last object it read, if all were as asked for. *)
Reached(pos) ==
    (\A i \in 1..Len(reads) : reads[i].ok) => at = pos[Len(reads) + 1]

Answered(i) ==
    /\ reads[i].val = written[i].arg
    /\ written[i].fn \in {"integer", "uinteger"} /\ reads[i].fn \in Mp!CInts
          => reads[i].ok = Mp!Fits(written[i].arg, reads[i].fn)
    /\ reads[i].is => reads[i].ok

Answer == [fn : Mp!Readers, ok : BOOLEAN, val : Int, is : BOOLEAN]
MpTyped ==
    /\ buf \in Seq(Cell) /\ written \in Seq(Mp!Calls) /\ reads \in Seq(Answer)
    /\ \A i \in 1..Len(written) : Mp!Cells(written[i]) # <<>>
    /\ at \in 1..Len(buf) + 1 /\ Len(reads) <= Len(written)
MpInv ==
    /\ MpTyped
    /\ \E pos : Placed(pos) /\ Reached(pos)
    /\ \A i \in 1..Len(reads) : Answered(i)

LEMMA InitMpInv == Mp!MpInit => MpInv
<1>. SUFFICES ASSUME Mp!MpInit
              PROVE  MpInv
  OBVIOUS
<1>1. buf = <<>> /\ written = <<>> /\ at = 1 /\ reads = <<>>
  BY DEF Mp!MpInit
<1>2. MpTyped
  BY <1>1 DEF MpTyped
<1>3. \E pos : Placed(pos) /\ Reached(pos)
  <2> DEFINE pos == [i \in 1..1 |-> 1]
  <2>1. pos \in [1..Len(written) + 1 -> Nat \ {0}] /\ pos[1] = 1
    BY <1>1
  <2>2. 1..Len(written) = {} /\ Len(written) + 1 = 1 /\ Len(reads) + 1 = 1 /\ Len(buf) + 1 = 1
    BY <1>1
  <2>. HIDE DEF pos
  <2>3. Placed(pos)
    BY <2>1, <2>2 DEF Placed
  <2>4. Reached(pos)
    BY <1>1, <2>1, <2>2 DEF Reached
  <2>. QED BY <2>3, <2>4
<1>4. \A i \in 1..Len(reads) : Answered(i)
  BY <1>1
<1>. QED BY <1>2, <1>3, <1>4 DEF MpInv

(* What is held stays held when more is written behind it. *)
LEMMA HeldStays ==
    ASSUME buf \in Seq(Cell), NEW s \in Seq(Cell), NEW r \in Seq(Cell), buf' = buf \o r,
           NEW p \in Nat \ {0}, p + Len(s) <= Len(buf) + 1, Held(p, s)
    PROVE  \A i \in 1..Len(s) : buf'[p + i - 1] = s[i]
<1>. SUFFICES ASSUME NEW i \in 1..Len(s)
              PROVE  buf'[p + i - 1] = s[i]
  OBVIOUS
<1>1. Len(s) \in Nat /\ Len(buf) \in Nat
  BY LenProperties
<1>2. p + i - 1 \in 1..Len(buf)
  BY <1>1
<1>3. (buf \o r)[p + i - 1] = buf[p + i - 1]
  <2>1. \A k \in 1..Len(buf) : (buf \o r)[k] = buf[k]
    <3>1. /\ Len(r) \in Nat
          /\ \A k \in 1..Len(buf) + Len(r) :
                (buf \o r)[k] = IF k <= Len(buf) THEN buf[k] ELSE r[k - Len(buf)]
      BY ConcatProperties, LenProperties
    <3>2. \A k \in 1..Len(buf) : k \in 1..Len(buf) + Len(r) /\ k <= Len(buf)
      BY <1>1, <3>1
    <3>. QED BY <3>1, <3>2
  <2>. QED BY <1>2, <2>1
<1>. QED BY <1>3 DEF Held

LEMMA HeldBehind ==
    ASSUME buf \in Seq(Cell), NEW r \in Seq(Cell), buf' = buf \o r
    PROVE  \A i \in 1..Len(r) : buf'[(Len(buf) + 1) + i - 1] = r[i]
<1>. SUFFICES ASSUME NEW i \in 1..Len(r)
              PROVE  buf'[(Len(buf) + 1) + i - 1] = r[i]
  OBVIOUS
<1>1. Len(r) \in Nat /\ Len(buf) \in Nat
  BY LenProperties
<1>2. /\ (Len(buf) + 1) + i - 1 = Len(buf) + i /\ Len(buf) + i \in 1..Len(buf) + Len(r)
      /\ ~(Len(buf) + i <= Len(buf)) /\ (Len(buf) + i) - Len(buf) = i
  BY <1>1
<1>3. \A k \in 1..Len(buf) + Len(r) :
         (buf \o r)[k] = IF k <= Len(buf) THEN buf[k] ELSE r[k - Len(buf)]
  BY ConcatProperties
<1>. QED BY <1>2, <1>3

LEMMA CellsLie ==
    ASSUME Digits, NEW c \in Mp!Calls, Mp!Cells(c) # <<>>
    PROVE  Mp!Cells(c) \in Seq(Cell) /\ Len(Mp!Cells(c)) \in Nat
<1>1. PICK t : Writes(Mp!Cells(c), t, c.arg)
  BY CellsAre
<1>2. t \in Forms /\ Suits(t, c.arg) /\ Mp!Cells(c) = Whole(t, c.arg)
  BY <1>1 DEF Writes
<1>. QED BY <1>2, WholeIs, LenProperties

LEMMA WriteMpInv ==
    ASSUME Digits, MpInv, Mp!Write
    PROVE  MpInv'
<1>1. PICK c \in Mp!Calls :
        /\ reads = <<>> /\ Mp!Cells(c) # <<>> /\ buf' = buf \o Mp!Cells(c)
        /\ written' = Append(written, c) /\ at' = at /\ reads' = reads
  BY DEF Mp!Write, Mp!Refused
<1> DEFINE s == Mp!Cells(c)
           n == Len(written)
<1>2. buf \in Seq(Cell) /\ written \in Seq(Mp!Calls) /\ at \in 1..Len(buf) + 1
      /\ \A i \in 1..n : Mp!Cells(written[i]) # <<>>
  BY DEF MpInv, MpTyped
<1>3. s \in Seq(Cell) /\ Len(s) \in Nat
  BY <1>1, CellsLie
<1>4. PICK pos : Placed(pos) /\ Reached(pos)
  BY DEF MpInv
<1>. HIDE DEF s
<1>5. Len(buf) \in Nat /\ buf' \in Seq(Cell) /\ Len(buf') = Len(buf) + Len(s)
  BY <1>1, <1>2, <1>3, ConcatProperties, LenProperties DEF s
<1>6. /\ n \in Nat /\ written' \in Seq(Mp!Calls) /\ Len(written') = n + 1 /\ written'[n + 1] = c
      /\ \A i \in 1..n : written'[i] = written[i]
  BY <1>1, <1>2, LenProperties, AppendProperties
<1>7. reads' = <<>> /\ Len(reads') = 0 /\ reads' \in Seq(Answer) /\ Len(reads') + 1 = 1
  BY <1>1
<1>. HIDE DEF n
<1>8. \A i \in 1..n : written[i] \in Mp!Calls
  BY <1>2 DEF n
<1>9. MpTyped'
  <2>1. \A i \in 1..n + 1 : Mp!Cells(written'[i]) # <<>>
    <3>. SUFFICES ASSUME NEW i \in 1..n + 1
                  PROVE  Mp!Cells(written'[i]) # <<>>
      OBVIOUS
    <3>1. CASE i = n + 1
      BY <1>1, <1>6, <3>1
    <3>2. CASE i \in 1..n
      BY <1>2, <1>6, <3>2 DEF n
    <3>. QED BY <1>6, <3>1, <3>2
  <2>2. at' \in 1..Len(buf') + 1
    BY <1>1, <1>2, <1>3, <1>5
  <2>3. Len(reads') <= Len(written')
    BY <1>6, <1>7
  <2>. QED BY <1>5, <1>6, <1>7, <2>1, <2>2, <2>3 DEF MpTyped
<1>10. \E q : Placed(q)' /\ Reached(q)'
  <2>0. /\ pos \in [1..n + 1 -> Nat \ {0}] /\ pos[1] = 1 /\ pos[n + 1] = Len(buf) + 1
        /\ \A i \in 1..n : /\ Held(pos[i], Mp!Cells(written[i]))
                           /\ pos[i + 1] = pos[i] + Len(Mp!Cells(written[i]))
                           /\ pos[i + 1] <= Len(buf) + 1
    BY <1>4 DEF Placed, n
  <2>9. PICK q : q = [i \in 1..n + 2 |-> IF i <= n + 1 THEN pos[i] ELSE Len(buf') + 1]
    OBVIOUS
  <2>1. /\ q \in [1..Len(written') + 1 -> Nat \ {0}]
        /\ \A i \in 1..n + 1 : q[i] = pos[i]
        /\ q[n + 2] = Len(buf') + 1
    BY <1>3, <1>5, <1>6, <2>0, <2>9
  <2>2. q[1] = 1 /\ q[Len(written') + 1] = Len(buf') + 1 /\ q[n + 1] = Len(buf) + 1
    BY <1>6, <2>0, <2>1
  <2>3. ASSUME NEW i \in 1..Len(written')
        PROVE  /\ \A k \in 1..Len(Mp!Cells(written'[i])) :
                     buf'[q[i] + k - 1] = Mp!Cells(written'[i])[k]
               /\ q[i + 1] = q[i] + Len(Mp!Cells(written'[i]))
               /\ q[i + 1] <= Len(buf') + 1
    <3>1. CASE i = n + 1
      <4>1. Mp!Cells(written'[i]) = s
        BY <1>6, <3>1 DEF s
      <4>2. q[i] = Len(buf) + 1 /\ q[i + 1] = Len(buf') + 1
        BY <1>6, <2>1, <2>2, <3>1
      <4>3. \A k \in 1..Len(s) : buf'[(Len(buf) + 1) + k - 1] = s[k]
        BY <1>1, <1>2, <1>3, HeldBehind DEF s
      <4>. QED BY <1>3, <1>5, <4>1, <4>2, <4>3
    <3>2. CASE i \in 1..n
      <4>1. PICK m : m = Mp!Cells(written[i])
        OBVIOUS
      <4>2. Mp!Cells(written'[i]) = m
        BY <1>6, <3>2, <4>1
      <4>3. m \in Seq(Cell) /\ Len(m) \in Nat
        BY <1>2, <1>8, <3>2, <4>1, CellsLie DEF n
      <4>4. q[i] = pos[i] /\ q[i + 1] = pos[i + 1] /\ pos[i] \in Nat \ {0}
        BY <1>6, <2>0, <2>1, <3>2
      <4>5. Held(pos[i], m) /\ pos[i + 1] = pos[i] + Len(m) /\ pos[i + 1] <= Len(buf) + 1
        BY <2>0, <3>2, <4>1
      <4>6. \A k \in 1..Len(m) : buf'[pos[i] + k - 1] = m[k]
        BY <1>1, <1>2, <1>3, <4>3, <4>4, <4>5, HeldStays DEF s
      <4>. QED BY <1>3, <1>5, <4>2, <4>3, <4>4, <4>5, <4>6
    <3>. QED BY <1>6, <3>1, <3>2
  <2>4. Placed(q)'
    BY <2>1, <2>2, <2>3 DEF Placed, Held
  <2>5. Reached(q)'
    <3>1. at = 1
      BY <1>1, <1>4, <2>0 DEF Reached
    <3>. QED BY <1>1, <1>7, <2>2, <3>1 DEF Reached
  <2>. QED BY <2>4, <2>5
<1>11. \A i \in 1..Len(reads') : Answered(i)'
  BY <1>7
<1>. QED BY <1>9, <1>10, <1>11 DEF MpInv

LEMMA SuitsNumber ==
    ASSUME NEW t \in Forms, NEW v, Suits(t, v)
    PROVE  v \in Int
<1>1. CASE t \in Mp!FixExts
  BY <1>1, HeadNames DEF Suits, Mp!FixExts, Mp!FixExtSize
<1>2. CASE t \notin Mp!FixExts
  BY <1>2 DEF Suits
<1>. QED BY <1>1, <1>2

LEMMA FitsIs ==
    ASSUME Digits, NEW v \in Int, NEW t, Shortest(t, v), NEW f \in Mp!CInts, NEW p,
           Mp!cmp_read_object(p).type = t, Mp!cmp_read_object(p).val = v, Reads(f, p, t, v)
    PROVE  Mp!Return(f, p).ok = Mp!Fits(v, f)
<1>1. Mp!Fits(v, f) \in BOOLEAN
  <2>1. CASE f \in {"char", "short", "int", "long"}
    <3>1. Mp!Fits(v, f) = (v \in Mp!Lowest(Mp!CWidth(f))..(Mp!Greatest(Mp!CWidth(f)) \div 2))
      BY <2>1 DEF Mp!Fits
    <3>. QED BY <3>1
  <2>2. CASE f \in {"uchar", "ushort", "uint", "ulong"}
    <3>1. Mp!Fits(v, f) = (v \in 0..Mp!Greatest(Mp!CWidth(f)))
      BY <2>2 DEF Mp!Fits
    <3>. QED BY <3>1
  <2>. QED BY <2>1, <2>2 DEF Mp!CInts
<1>2. CASE f \in {"char", "short", "int", "long"}
  <2>1. Mp!object_as_signed(f, Mp!cmp_read_object(p)) <=> Mp!Fits(v, f)
    BY <1>2, SignedFits
  <2>2. Mp!Return(f, p).ok = Mp!object_as_signed(f, Mp!cmp_read_object(p))
    BY <1>2 DEF Reads
  <2>3. Mp!object_as_signed(f, Mp!cmp_read_object(p)) \in BOOLEAN
    BY DEF Mp!object_as_signed
  <2>. QED BY <1>1, <2>1, <2>2, <2>3
<1>3. CASE f \in {"uchar", "ushort", "uint", "ulong"}
  <2>1. Mp!object_as_unsigned(f, Mp!cmp_read_object(p)) <=> Mp!Fits(v, f)
    BY <1>3, UnsignedFits
  <2>2. Mp!Return(f, p).ok = Mp!object_as_unsigned(f, Mp!cmp_read_object(p))
    BY <1>3 DEF Reads
  <2>3. Mp!object_as_unsigned(f, Mp!cmp_read_object(p)) \in BOOLEAN
    BY DEF Mp!object_as_unsigned
  <2>. QED BY <1>1, <2>1, <2>2, <2>3
<1>. QED BY <1>2, <1>3 DEF Mp!CInts

LEMMA IsBoolean ==
    ASSUME NEW f, NEW o
    PROVE  Mp!Is(f, o) \in BOOLEAN
<1>1. Mp!object_is_number(f, o) \in BOOLEAN
  BY DEF Mp!object_is_number
<1>2. Mp!object_is(f, o) \in BOOLEAN
  <2>1. Mp!object_as_list(f, o) \in BOOLEAN
    BY DEF Mp!object_as_list
  <2>2. (o.type = f) \in BOOLEAN
    OBVIOUS
  <2>. QED BY <2>1, <2>2 DEF Mp!object_is
<1>3. CASE f \in Mp!CInts
  <2>1. Mp!Is(f, o) = Mp!object_is_number(f, o)
    BY <1>3 DEF Mp!Is, Mp!CInts
  <2>. QED BY <1>1, <2>1
<1>4. CASE f \in {"nil", "boolean", "array", "map", "ext"}
  <2>1. Mp!Is(f, o) = Mp!object_is(f, o)
    BY <1>4 DEF Mp!Is, Mp!CInts
  <2>. QED BY <1>2, <2>1
<1>5. CASE f \notin Mp!CInts \cup {"nil", "boolean", "array", "map", "ext"}
  <2>1. Mp!Is(f, o) = FALSE
    BY <1>5 DEF Mp!Is
  <2>. QED BY <2>1
<1>. QED BY <1>3, <1>4, <1>5

LEMMA ReadMpInv ==
    ASSUME Digits, MpInv, Mp!Read
    PROVE  MpInv'
<1>1. PICK f \in Mp!Readers :
        /\ Len(reads) < Len(written) /\ \A i \in DOMAIN reads : reads[i].ok
        /\ reads' = Append(reads, [fn |-> f, ok |-> Mp!Return(f, at).ok, val |-> Mp!Return(f, at).val,
                                   is |-> Mp!Is(f, Mp!cmp_read_object(at))])
        /\ at' = Mp!Return(f, at).next /\ buf' = buf /\ written' = written
  BY DEF Mp!Read
<1>2. PICK given : given = [fn |-> f, ok |-> Mp!Return(f, at).ok, val |-> Mp!Return(f, at).val,
                              is |-> Mp!Is(f, Mp!cmp_read_object(at))]
  OBVIOUS
<1> DEFINE n == Len(reads)
<1>3. /\ buf \in Seq(Cell) /\ written \in Seq(Mp!Calls) /\ reads \in Seq(Answer)
      /\ \A i \in 1..Len(written) : Mp!Cells(written[i]) # <<>>
      /\ at \in 1..Len(buf) + 1
  BY DEF MpInv, MpTyped
<1>4. PICK pos : Placed(pos) /\ Reached(pos)
  BY DEF MpInv
<1>5. /\ n \in Nat /\ Len(written) \in Nat /\ Len(buf) \in Nat /\ n + 1 \in 1..Len(written)
      /\ DOMAIN reads = 1..n
  BY <1>1, <1>3, LenProperties
<1>6. at = pos[n + 1]
  BY <1>1, <1>4, <1>5 DEF Reached
<1>. HIDE DEF n
<1>7. PICK c \in Mp!Calls : c = written[n + 1] /\ Mp!Cells(c) # <<>>
  BY <1>3, <1>5
<1>8. /\ Held(at, Mp!Cells(c)) /\ pos[n + 2] = at + Len(Mp!Cells(c)) /\ pos[n + 2] <= Len(buf) + 1
  <2>1. (n + 1) + 1 = n + 2
    BY <1>5
  <2>. QED BY <1>4, <1>5, <1>6, <1>7, <2>1 DEF Placed
<1>9. PICK t : /\ Writes(Mp!Cells(c), t, c.arg)
               /\ c.fn \in {"integer", "uinteger"} => c.arg \in Int /\ Shortest(t, c.arg)
  BY <1>7, CellsAre
<1>10. PICK v : v = c.arg
  OBVIOUS
<1>11. t \in Forms /\ Suits(t, v) /\ Mp!Cells(c) = Whole(t, v) /\ v \in Int
  BY <1>9, <1>10, SuitsNumber DEF Writes
<1>12. at \in Int
  BY <1>3, <1>5
<1>13. /\ Len(Opening(t, v)) \in Nat
       /\ t \in Sized => v \in Nat /\ Len(Whole(t, v)) = Len(Opening(t, v)) + v
       /\ t \notin Sized => Whole(t, v) = Opening(t, v)
       /\ ReadsAs(Mp!cmp_read_object(at), t, v, at + Len(Opening(t, v)))
  BY <1>8, <1>11, <1>12, WholeIs
<1>14. Reads(f, at, t, v)
  BY <1>12, <1>13, ReaderIs
<1>15. PICK k \in Nat, a \in Nat : /\ k = Len(Opening(t, v)) /\ a = After(t, v)
                                   /\ Len(Mp!Cells(c)) = k + a
  BY <1>11, <1>13 DEF After
<1>16. PICK r : r = Mp!Return(f, at)
  OBVIOUS
<1>17. r.ok \in BOOLEAN /\ r.val = v /\ r.next = (at + k) + IF r.ok THEN a ELSE 0
  BY <1>14, <1>15, <1>16 DEF Reads, Returns
<1>18. Mp!Is(f, Mp!cmp_read_object(at)) => r.ok
  BY <1>14, <1>16 DEF Reads
<1>19. /\ given.fn = f /\ given.ok = r.ok /\ given.val = v
       /\ given.is = Mp!Is(f, Mp!cmp_read_object(at))
  BY <1>2, <1>16, <1>17
<1>20. given \in Answer
  <2>1. Mp!Is(f, Mp!cmp_read_object(at)) \in BOOLEAN
    BY IsBoolean
  <2>. QED BY <1>2, <1>11, <1>16, <1>17, <2>1 DEF Answer
<1>21. /\ reads' \in Seq(Answer) /\ Len(reads') = n + 1 /\ reads'[n + 1] = given
       /\ \A i \in 1..n : reads'[i] = reads[i]
  BY <1>1, <1>2, <1>3, <1>20, AppendProperties, LenProperties DEF n
<1>22. at' = (at + k) + IF r.ok THEN a ELSE 0
  BY <1>1, <1>16, <1>17
<1>23. pos[n + 2] = at + (k + a)
  BY <1>8, <1>15
<1>24. MpTyped'
  <2>1. at' \in 1..Len(buf) + 1
    <3>1. at' \in Nat /\ at' >= 1 /\ at' <= at + (k + a)
      BY <1>3, <1>5, <1>17, <1>22
    <3>2. at' <= Len(buf) + 1
      BY <1>5, <1>8, <1>12, <1>23, <3>1
    <3>. QED BY <1>5, <3>1, <3>2
  <2>2. n + 1 <= Len(written)
    BY <1>5
  <2>. QED BY <1>1, <1>3, <1>21, <2>1, <2>2 DEF MpTyped
<1>25. \E q : Placed(q)' /\ Reached(q)'
  <2>1. Placed(pos)'
    BY <1>1, <1>4 DEF Placed, Held
  <2>2. Reached(pos)'
    <3>1. ASSUME \A i \in 1..n + 1 : reads'[i].ok
          PROVE  at' = pos[n + 2]
      <4>1. r.ok
        BY <1>5, <1>19, <1>21, <3>1
      <4>. QED BY <1>12, <1>22, <1>23, <4>1
    <3>2. (n + 1) + 1 = n + 2
      BY <1>5
    <3>. QED BY <1>21, <3>1, <3>2 DEF Reached
  <2>. QED BY <2>1, <2>2
<1>26. ASSUME NEW i \in 1..n + 1
       PROVE  Answered(i)'
  <2>1. CASE i = n + 1
    <3>1. given.val = c.arg
      BY <1>10, <1>19
    <3>2. ASSUME c.fn \in {"integer", "uinteger"}, f \in Mp!CInts
          PROVE  given.ok = Mp!Fits(c.arg, f)
      <4>1. Shortest(t, v)
        BY <1>9, <1>10, <3>2
      <4>2. Mp!cmp_read_object(at).type = t /\ Mp!cmp_read_object(at).val = v
        BY <1>13 DEF ReadsAs
      <4>3. Mp!Return(f, at).ok = Mp!Fits(v, f)
        BY <1>11, <1>14, <3>2, <4>1, <4>2, FitsIs
      <4>. QED BY <1>10, <1>16, <1>19, <4>3
    <3>3. given.is => given.ok
      BY <1>18, <1>19
    <3>. QED BY <1>1, <1>7, <1>19, <1>21, <2>1, <3>1, <3>2, <3>3 DEF Answered
  <2>2. CASE i \in 1..n
    <3>1. Answered(i)
      BY <2>2 DEF MpInv, n
    <3>. QED BY <1>1, <1>21, <2>2, <3>1 DEF Answered
  <2>. QED BY <1>5, <2>1, <2>2
<1>. QED BY <1>21, <1>24, <1>25, <1>26 DEF MpInv

LEMMA StepMpInv == Digits /\ MpInv /\ [Mp!MpNext]_(Mp!mpVars) => MpInv'
<1>. SUFFICES ASSUME Digits, MpInv, [Mp!MpNext]_(Mp!mpVars)
              PROVE  MpInv'
  OBVIOUS
<1>1. CASE Mp!Write
  BY <1>1, WriteMpInv
<1>2. CASE Mp!Read
  BY <1>2, ReadMpInv
<1>3. CASE UNCHANGED Mp!mpVars
  <2>1. buf' = buf /\ written' = written /\ at' = at /\ reads' = reads
    BY <1>3 DEF Mp!mpVars
  <2>2. MpTyped'
    BY <2>1 DEF MpInv, MpTyped
  <2>3. \E pos : Placed(pos)' /\ Reached(pos)'
    <3>1. PICK pos : Placed(pos) /\ Reached(pos)
      BY DEF MpInv
    <3>2. Placed(pos)'
      BY <2>1, <3>1 DEF Placed, Held
    <3>3. Reached(pos)'
      BY <2>1, <3>1 DEF Reached
    <3>. QED BY <3>2, <3>3
  <2>4. \A i \in 1..Len(reads') : Answered(i)'
    BY <2>1 DEF MpInv, Answered
  <2>. QED BY <2>2, <2>3, <2>4 DEF MpInv
<1>. QED BY <1>1, <1>2, <1>3 DEF Mp!MpNext

(* What the invariant says of the readers. *)
LEMMA MpInvShows == MpInv => Mp!WrittenIsRead /\ Mp!ReadersTakeWhatFits
<1>. SUFFICES ASSUME MpInv
              PROVE  Mp!WrittenIsRead /\ Mp!ReadersTakeWhatFits
  OBVIOUS
<1>1. DOMAIN reads = 1..Len(reads)
  BY LenProperties DEF MpInv, MpTyped
<1>2. \A i \in DOMAIN reads : Answered(i)
  BY <1>1 DEF MpInv
<1>3. ASSUME Len(reads) = Len(written), \A i \in DOMAIN reads : reads[i].ok
      PROVE  at = Len(buf) + 1
  BY <1>1, <1>3 DEF MpInv, Placed, Reached
<1>4. Mp!WrittenIsRead
  BY <1>2, <1>3 DEF Mp!WrittenIsRead, Answered
<1>5. Mp!ReadersTakeWhatFits
  BY <1>2 DEF Mp!ReadersTakeWhatFits, Answered
<1>. QED BY <1>4, <1>5

(* Whatever was written, in whatever form, is what a reader that takes it  *)
(* returns (lib/cmp.c).                                                    *)
THEOREM WrittenIsWhatIsRead ==
    ASSUME Digits
    PROVE  Mp!MpSpec => []Mp!WrittenIsRead /\ []Mp!ReadersTakeWhatFits
<1>1. Mp!MpInit => MpInv
  BY InitMpInv
<1>2. MpInv /\ [Mp!MpNext]_(Mp!mpVars) => MpInv'
  BY StepMpInv
<1>3. MpInv => Mp!WrittenIsRead /\ Mp!ReadersTakeWhatFits
  BY MpInvShows
<1>. QED BY <1>1, <1>2, <1>3, PTL DEF Mp!MpSpec

(* The reader, which never looks for the end of the buffer                 *)
(* (cmp_read_object), is never past it, whether or not it was asked for    *)
(* the type that is there.                                                 *)
THEOREM ReaderStaysInBuffer ==
    ASSUME Digits
    PROVE  Mp!MpSpec => [](at \in 1..Len(buf) + 1 /\ Len(reads) <= Len(written))
<1>1. Mp!MpInit => MpInv
  BY InitMpInv
<1>2. MpInv /\ [Mp!MpNext]_(Mp!mpVars) => MpInv'
  BY StepMpInv
<1>3. MpInv => at \in 1..Len(buf) + 1 /\ Len(reads) <= Len(written)
  BY DEF MpInv, MpTyped
<1>. QED BY <1>1, <1>2, <1>3, PTL DEF Mp!MpSpec

-----------------------------------------------------------------------------
(*                            The messages                                 *)
-----------------------------------------------------------------------------
(* CoapPdu is proved about in MessageProofs; here, that the operators of   *)
(* its instance there and of that in Client are the same.                  *)

MessageP == INSTANCE MessageProofs WITH Numbers <- OptionNumbers, Lengths <- OptionLengths

(* What is read of bytes.                                                  *)
LEMMA CodingsAlike ==
    /\ \A n : Pdu!computeExtraBytes(n) = MessageP!computeExtraBytes(n)
    /\ \A n : Pdu!Nibble(n) = MessageP!Nibble(n)
    /\ \A n : Pdu!u16(n) = MessageP!u16(n)
    /\ \A n : Pdu!ExtraBytes(n) = MessageP!ExtraBytes(n)
    /\ \A s, from, to : Pdu!Cat(s, from, to) = MessageP!Cat(s, from, to)
    /\ \A s, from : Pdu!Rest(s, from) = MessageP!Rest(s, from)
    /\ \A len, byte : Pdu!Fill(len, byte) = MessageP!Fill(len, byte)
    /\ \A p, nibble, place : Pdu!Extended(p, nibble, place) = MessageP!Extended(p, nibble, place)
    /\ \A p, place : Pdu!getOptionDelta(p, place) = MessageP!getOptionDelta(p, place)
    /\ \A p, place : Pdu!getOptionValueLength(p, place) = MessageP!getOptionValueLength(p, place)
<1>1. \A n : Pdu!computeExtraBytes(n) = MessageP!computeExtraBytes(n)
  BY DEF Pdu!computeExtraBytes, MessageP!computeExtraBytes
<1>2. \A n : Pdu!Nibble(n) = MessageP!Nibble(n)
  BY <1>1 DEF Pdu!Nibble, MessageP!Nibble
<1>3. \A n : Pdu!ExtraBytes(n) = MessageP!ExtraBytes(n)
  BY Zenon, <1>1 DEF Pdu!ExtraBytes, MessageP!ExtraBytes
<1>4. \A s, from, to : Pdu!Cat(s, from, to) = MessageP!Cat(s, from, to)
  BY Zenon DEF Pdu!Cat, MessageP!Cat
<1>5. \A s, from : Pdu!Rest(s, from) = MessageP!Rest(s, from)
  BY Zenon DEF Pdu!Rest, MessageP!Rest
<1>6. \A len, byte : Pdu!Fill(len, byte) = MessageP!Fill(len, byte)
  BY Zenon DEF Pdu!Fill, MessageP!Fill
<1>7. \A n : Pdu!u16(n) = MessageP!u16(n)
  BY SMT DEF Pdu!u16, MessageP!u16
<1>8. \A p, nibble, place : Pdu!Extended(p, nibble, place) = MessageP!Extended(p, nibble, place)
  <2>1. \A p, place : Pdu!ByteAt(p, place) = MessageP!ByteAt(p, place)
    BY Zenon DEF Pdu!ByteAt, MessageP!ByteAt, Pdu!Garbage, MessageP!Garbage
  <2>. TAKE p, nibble, place
  <2>2. PICK a, b : a = Pdu!ByteAt(p, place) /\ b = Pdu!ByteAt(p, place + 1)
    OBVIOUS
  <2>3. a = MessageP!ByteAt(p, place) /\ b = MessageP!ByteAt(p, place + 1)
    BY Zenon, <2>1, <2>2
  <2>4. PICK u : u = Pdu!u16(256 * a + b + 269)
    OBVIOUS
  <2>5. u = MessageP!u16(256 * a + b + 269)
    BY Zenon, <1>7, <2>4
  <2> DEFINE Either(x, y) == CASE nibble < 13 -> nibble
                               [] nibble = 13 -> x + 13
                               [] nibble = 14 -> y
                               [] OTHER -> nibble
  <2>6. Pdu!Extended(p, nibble, place)
          = Either(Pdu!ByteAt(p, place),
                   Pdu!u16(256 * Pdu!ByteAt(p, place) + Pdu!ByteAt(p, place + 1) + 269))
    BY Zenon DEF Pdu!Extended
  <2>7. MessageP!Extended(p, nibble, place)
          = Either(MessageP!ByteAt(p, place),
                   MessageP!u16(256 * MessageP!ByteAt(p, place)
                                  + MessageP!ByteAt(p, place + 1) + 269))
    BY Zenon DEF MessageP!Extended
  <2>. HIDE DEF Either
  <2>8. Pdu!Extended(p, nibble, place) = Either(a, u)
    BY Zenon, <2>2, <2>4, <2>6
  <2>9. MessageP!Extended(p, nibble, place) = Either(a, u)
    BY Zenon, <2>3, <2>5, <2>7
  <2>. QED BY Zenon, <2>8, <2>9
<1>9. \A p, place : Pdu!getOptionDelta(p, place) = MessageP!getOptionDelta(p, place)
  BY <1>8 DEF Pdu!getOptionDelta, MessageP!getOptionDelta
<1>10. \A n : Pdu!ExtraOf(n) = MessageP!ExtraOf(n)
  BY Zenon DEF Pdu!ExtraOf, MessageP!ExtraOf
<1>11. \A p, place : Pdu!getOptionValueLength(p, place) = MessageP!getOptionValueLength(p, place)
  BY <1>8, <1>10 DEF Pdu!getOptionValueLength, MessageP!getOptionValueLength
<1>. QED BY <1>1, <1>2, <1>3, <1>4, <1>5, <1>6, <1>7, <1>8, <1>9, <1>11

(* The walk over the options.                                              *)
LEMMA WalksAlike == \A p, tkl : Pdu!Walk(p, tkl) = MessageP!Walk(p, tkl)
<1>1. \A p, place, prev : Pdu!OptionAt(p, place, prev) = MessageP!OptionAt(p, place, prev)
  <2>1. ASSUME NEW p, NEW place, NEW prev
        PROVE  Pdu!OptionAt(p, place, prev) = MessageP!OptionAt(p, place, prev)
    BY CodingsAlike DEF Pdu!OptionAt, MessageP!OptionAt
  <2>. QED BY <2>1
<1>2. \A p, w, o : Pdu!WalkOver(p, w, o) = MessageP!WalkOver(p, w, o)
  BY Zenon DEF Pdu!WalkOver, MessageP!WalkOver, Pdu!Ended, MessageP!Ended
<1>3. \A p, place : Pdu!HeaderFits(p, place) = MessageP!HeaderFits(p, place)
  BY CodingsAlike DEF Pdu!HeaderFits, MessageP!HeaderFits
<1>4. \A p, w : Pdu!WalkOn(p, w) = MessageP!WalkOn(p, w)
  <2>1. \A w, valid, body : Pdu!Ended(w, valid, body) = MessageP!Ended(w, valid, body)
    BY Zenon DEF Pdu!Ended, MessageP!Ended
  <2>. TAKE p, w
  <2>2. PICK over, rest, fits : /\ over = Pdu!WalkOver(p, w, Pdu!OptionAt(p, w.at, w.prev))
                                /\ rest = Pdu!Rest(p, w.at + 1) /\ fits = Pdu!HeaderFits(p, w.at)
    OBVIOUS
  <2>3. over = MessageP!WalkOver(p, w, MessageP!OptionAt(p, w.at, w.prev))
    BY Zenon, <1>1, <1>2, <2>2
  <2>4. rest = MessageP!Rest(p, w.at + 1) /\ fits = MessageP!HeaderFits(p, w.at)
    BY Zenon, <1>3, <2>2, CodingsAlike
  <2>5. PICK out, bare, wrong : /\ out = Pdu!Ended(w, TRUE, <<>>)
                                /\ bare = Pdu!Ended(w, w.at < Len(p), rest)
                                /\ wrong = Pdu!Ended(w, FALSE, <<>>)
    OBVIOUS
  <2>6. /\ out = MessageP!Ended(w, TRUE, <<>>) /\ bare = MessageP!Ended(w, w.at < Len(p), rest)
        /\ wrong = MessageP!Ended(w, FALSE, <<>>)
    BY Zenon, <2>1, <2>5
  <2> DEFINE Either(x, y, z, b, v) ==
                 IF w.ended THEN w
                 ELSE IF w.at > Len(p) THEN x
                 ELSE IF p[w.at] = 255 THEN y
                 ELSE IF b THEN z
                 ELSE v
  <2>7. Pdu!WalkOn(p, w)
          = Either(Pdu!Ended(w, TRUE, <<>>),
                   Pdu!Ended(w, w.at < Len(p), Pdu!Rest(p, w.at + 1)),
                   Pdu!WalkOver(p, w, Pdu!OptionAt(p, w.at, w.prev)),
                   Pdu!HeaderFits(p, w.at), Pdu!Ended(w, FALSE, <<>>))
    BY Zenon DEF Pdu!WalkOn, Pdu!Marker
  <2>8. MessageP!WalkOn(p, w)
          = Either(MessageP!Ended(w, TRUE, <<>>),
                   MessageP!Ended(w, w.at < Len(p), MessageP!Rest(p, w.at + 1)),
                   MessageP!WalkOver(p, w, MessageP!OptionAt(p, w.at, w.prev)),
                   MessageP!HeaderFits(p, w.at), MessageP!Ended(w, FALSE, <<>>))
    BY Zenon DEF MessageP!WalkOn, MessageP!Marker
  <2>. HIDE DEF Either
  <2>9. Pdu!WalkOn(p, w) = Either(out, bare, over, fits, wrong)
    BY Zenon, <2>2, <2>5, <2>7
  <2>10. MessageP!WalkOn(p, w) = Either(out, bare, over, fits, wrong)
    BY Zenon, <2>3, <2>4, <2>6, <2>8
  <2>. QED BY Zenon, <2>9, <2>10
<1>5. \A p, tkl : Pdu!walked(p, tkl) = MessageP!walked(p, tkl)
  BY Zenon, <1>4 DEF Pdu!walked, MessageP!walked, Pdu!Started, MessageP!Started
<1>. QED BY <1>5 DEF Pdu!Walk, MessageP!Walk

(* Options that are added.                                                 *)
LEMMA AddedAlike == \A added : Pdu!AddAll(added) = MessageP!AddAll(added)
<1>1. \A w, higher : Pdu!FirstOf(w, higher) = MessageP!FirstOf(w, higher)
  BY Zenon DEF Pdu!FirstOf, MessageP!FirstOf
<1>2. \A w, number : Pdu!InsertBehind(w, number) = MessageP!InsertBehind(w, number)
  BY Zenon, <1>1 DEF Pdu!InsertBehind, MessageP!InsertBehind
<1>3. \A p, tkl, max, number :
        Pdu!findInsertionPosition(p, tkl, max, number)
          = MessageP!findInsertionPosition(p, tkl, max, number)
  BY <1>2, WalksAlike DEF Pdu!findInsertionPosition, MessageP!findInsertionPosition
<1>4. \A delta, value : Pdu!insertOption(delta, value) = MessageP!insertOption(delta, value)
  BY Zenon, CodingsAlike DEF Pdu!insertOption, MessageP!insertOption, Pdu!Garbage, MessageP!Garbage
<1>5. \A p, place, delta :
        Pdu!setOptionDelta(p, place, delta) = MessageP!setOptionDelta(p, place, delta)
  BY CodingsAlike DEF Pdu!setOptionDelta, MessageP!setOptionDelta
<1>6. \A m, pos, number, option :
        Pdu!WithOptionAt(m, pos, number, option) = MessageP!WithOptionAt(m, pos, number, option)
  <2>. TAKE m, pos, number, option
  <2>1. PICK front, moved : /\ front = Pdu!Cat(m.pdu, 1, pos.at - 1)
                            /\ moved = Pdu!setOptionDelta(m.pdu, pos.at, Pdu!u16(pos.prev
                                         + Pdu!getOptionDelta(m.pdu, pos.at) - number))
    OBVIOUS
  <2>2. front = MessageP!Cat(m.pdu, 1, pos.at - 1)
    BY Zenon, <2>1, CodingsAlike
  <2>3. moved = MessageP!setOptionDelta(m.pdu, pos.at, MessageP!u16(pos.prev
                  + MessageP!getOptionDelta(m.pdu, pos.at) - number))
    BY Zenon, <1>5, <2>1, CodingsAlike
  <2> DEFINE Either(x, y) == IF pos.at > Len(m.pdu)
                             THEN [pdu |-> m.pdu \o option, max |-> number]
                             ELSE [pdu |-> x \o option \o y, max |-> m.max]
  <2>4. Pdu!WithOptionAt(m, pos, number, option)
          = Either(Pdu!Cat(m.pdu, 1, pos.at - 1),
                   Pdu!setOptionDelta(m.pdu, pos.at, Pdu!u16(pos.prev
                     + Pdu!getOptionDelta(m.pdu, pos.at) - number)))
    BY Zenon DEF Pdu!WithOptionAt
  <2>5. MessageP!WithOptionAt(m, pos, number, option)
          = Either(MessageP!Cat(m.pdu, 1, pos.at - 1),
                   MessageP!setOptionDelta(m.pdu, pos.at, MessageP!u16(pos.prev
                     + MessageP!getOptionDelta(m.pdu, pos.at) - number)))
    BY Zenon DEF MessageP!WithOptionAt
  <2>. HIDE DEF Either
  <2>6. Pdu!WithOptionAt(m, pos, number, option) = Either(front, moved)
    BY Zenon, <2>1, <2>4
  <2>7. MessageP!WithOptionAt(m, pos, number, option) = Either(front, moved)
    BY Zenon, <2>2, <2>3, <2>5
  <2>. QED BY Zenon, <2>6, <2>7
<1>7. \A m, tkl, number, value :
        Pdu!WithOption(m, tkl, number, value) = MessageP!WithOption(m, tkl, number, value)
  BY <1>3, <1>4, <1>6, CodingsAlike DEF Pdu!WithOption, MessageP!WithOption,
                                        Pdu!OptionPut, MessageP!OptionPut
<1>8. \A m, n, o : Pdu!KeepIfFits(m, n, o) = MessageP!KeepIfFits(m, n, o)
  <2>1. \A opts, o : Pdu!Place(opts, o) = MessageP!Place(opts, o)
    BY Zenon DEF Pdu!Place, MessageP!Place
  <2>2. \A m, n, o : Pdu!Keep(m, n, o) = MessageP!Keep(m, n, o)
    BY Zenon, <2>1 DEF Pdu!Keep, MessageP!Keep, Pdu!InsertAt, MessageP!InsertAt
  <2>3. \A m, n : Pdu!Full(m, n) = MessageP!Full(m, n)
    BY Zenon DEF Pdu!Full, MessageP!Full
  <2>. TAKE m, n, o
  <2> DEFINE Either(x, y) == IF m.full THEN m ELSE IF Len(n.pdu) > Room THEN x ELSE y
  <2>4. Pdu!KeepIfFits(m, n, o) = Either(Pdu!Full(m, n), Pdu!Keep(m, n, o))
    BY Zenon DEF Pdu!KeepIfFits
  <2>5. MessageP!KeepIfFits(m, n, o) = Either(MessageP!Full(m, n), MessageP!Keep(m, n, o))
    BY Zenon DEF MessageP!KeepIfFits
  <2>. HIDE DEF Either
  <2>. QED BY Zenon, <2>2, <2>3, <2>4, <2>5
<1>9. \A added : Pdu!Added(added) = MessageP!Added(added)
  <2>1. Pdu!AsItIs = MessageP!AsItIs
    BY Zenon DEF Pdu!AsItIs, MessageP!AsItIs
  <2>. QED BY Zenon, <1>7, <1>8, <2>1 DEF Pdu!Added, MessageP!Added
<1>. QED BY <1>9 DEF Pdu!AddAll, MessageP!AddAll

(* CoapPdu as it is proved about in MessageProofs is that of the GUI.      *)
LEMMA MessageAsProved ==
    /\ Pdu!Spec => MessageP!Spec
    /\ Pdu!ShortMessages => MessageP!ShortMessages
    /\ MessageP!ParsesAsBuilt => Pdu!ParsesAsBuilt
    /\ MessageP!TypeOK => Pdu!TypeOK
<1>1. Pdu!Init => MessageP!Init
  BY DEF Pdu!Init, MessageP!Init
<1>2. UNCHANGED Pdu!pduVars => UNCHANGED MessageP!pduVars
  BY DEF Pdu!pduVars, MessageP!pduVars
<1>3. \A added : Pdu!Add(added) => MessageP!Add(added)
  BY AddedAlike DEF Pdu!Add, MessageP!Add, Pdu!Highest, MessageP!Highest
<1>4. \A len, i : Pdu!Value(len, i) = MessageP!Value(len, i)
  BY CodingsAlike DEF Pdu!Value, MessageP!Value
<1>5. \A number, len : Pdu!addOption(number, len) => MessageP!addOption(number, len)
  BY <1>3, <1>4 DEF Pdu!addOption, MessageP!addOption
<1>6. \A len : /\ Pdu!setContentFormat(len) => MessageP!setContentFormat(len)
               /\ Pdu!addURIQuery(len) => MessageP!addURIQuery(len)
  BY <1>5 DEF Pdu!setContentFormat, MessageP!setContentFormat,
              Pdu!addURIQuery, MessageP!addURIQuery, Pdu!CONTENT_FORMAT,
              MessageP!CONTENT_FORMAT, Pdu!URI_QUERY, MessageP!URI_QUERY
<1>7. \A uri : Pdu!setURI(uri) => MessageP!setURI(uri)
  <2>1. \A uri : Pdu!Segments(uri) = MessageP!Segments(uri)
    BY Zenon, <1>4 DEF Pdu!Segments, MessageP!Segments, Pdu!URI_PATH, MessageP!URI_PATH,
                       Pdu!URI_QUERY, MessageP!URI_QUERY
  <2>. QED BY <1>3, <2>1 DEF Pdu!setURI, MessageP!setURI
<1>8. \A len : Pdu!setToken(len) => MessageP!setToken(len)
  BY CodingsAlike DEF Pdu!setToken, MessageP!setToken
<1>9. \A len : Pdu!setPayload(len) => MessageP!setPayload(len)
  <2>1. /\ \A len : Pdu!NewLength(len) = MessageP!NewLength(len)
        /\ Pdu!PayloadStart = MessageP!PayloadStart
    BY DEF Pdu!NewLength, MessageP!NewLength, Pdu!PayloadStart, MessageP!PayloadStart
  <2>2. \A p, length, place, bytes, marked :
            Pdu!Written(p, length, place, bytes, marked)
              = MessageP!Written(p, length, place, bytes, marked)
    <3>. TAKE p, length, place, bytes, marked
    <3> DEFINE Cells(marker, garbage) ==
                   [i \in 1..length |->
                       IF i \in place..place + Len(bytes) - 1 THEN bytes[i - place + 1]
                       ELSE IF i = place - 1 /\ marked THEN marker
                       ELSE IF i <= Len(p) THEN p[i] ELSE garbage]
    <3>1. /\ Pdu!Written(p, length, place, bytes, marked) = Cells(Pdu!Marker, Pdu!Garbage)
          /\ MessageP!Written(p, length, place, bytes, marked)
               = Cells(MessageP!Marker, MessageP!Garbage)
      BY Zenon DEF Pdu!Written, MessageP!Written
    <3>2. Pdu!Marker = MessageP!Marker /\ Pdu!Garbage = MessageP!Garbage
      BY Zenon DEF Pdu!Marker, MessageP!Marker, Pdu!Garbage, MessageP!Garbage
    <3>. HIDE DEF Cells
    <3>. QED BY Zenon, <3>1, <3>2
  <2>3. \A len, byte : Pdu!Fill(len, byte) = MessageP!Fill(len, byte)
    BY Zenon, CodingsAlike
  <2>. SUFFICES ASSUME NEW len, Pdu!setPayload(len)
                PROVE  MessageP!setPayload(len)
    OBVIOUS
  <2>4. PICK bytes : bytes = Pdu!Fill(len, (240 + calls) % 256)
    OBVIOUS
  <2>5. bytes = MessageP!Fill(len, (240 + calls) % 256)
    BY Zenon, <2>3, <2>4
  <2>6. pdu' = MessageP!Written(pdu, MessageP!NewLength(len), MessageP!PayloadStart, bytes,
                                _payloadPointer = 0)
    BY Zenon, <2>1, <2>2, <2>4 DEF Pdu!setPayload
  <2>7. /\ len > 0 /\ MessageP!NewLength(len) <= Room
        /\ AnyOrder \/ _payloadLength = 0
        /\ _payloadPointer' = MessageP!PayloadStart
        /\ _payloadLength' = len /\ payload' = bytes
        /\ UNCHANGED <<version, code, _numOptions, _maxAddedOptionNumber, options, token,
                       refused, misled>>
    BY Zenon, <2>1, <2>4 DEF Pdu!setPayload
  <2>. QED BY Zenon, <2>5, <2>6, <2>7 DEF MessageP!setPayload
<1>10. \A c : Pdu!setCode(c) => MessageP!setCode(c)
  BY DEF Pdu!setCode, MessageP!setCode
<1>11. Pdu!reset => MessageP!reset
  BY DEF Pdu!reset, MessageP!reset
<1>12. [Pdu!Next]_(Pdu!pduVars) => [MessageP!Next]_(MessageP!pduVars)
  <2>1. Pdu!Next => MessageP!Next
    BY <1>5, <1>6, <1>7, <1>8, <1>9, <1>10, <1>11 DEF Pdu!Next, MessageP!Next
  <2>. QED BY <1>2, <2>1
<1>13. Pdu!ShortMessages => MessageP!ShortMessages
  BY SMT DEF Pdu!ShortMessages, MessageP!ShortMessages, Pdu!Differences, MessageP!Differences
<1>14. MessageP!ParsesAsBuilt => Pdu!ParsesAsBuilt
  <2>1. \A w : Pdu!OptionsOf(w) = MessageP!OptionsOf(w)
    BY Zenon DEF Pdu!OptionsOf, MessageP!OptionsOf
  <2>2. Pdu!getOptions = MessageP!getOptions
    BY <2>1, WalksAlike DEF Pdu!getOptions, MessageP!getOptions
  <2>3. \A c : Pdu!ValidCode(c) = MessageP!ValidCode(c)
    BY DEF Pdu!ValidCode, MessageP!ValidCode
  <2>4. MessageP!validate => Pdu!validate
    BY <2>3, WalksAlike DEF Pdu!validate, MessageP!validate
  <2>. QED BY CodingsAlike, WalksAlike, <2>2, <2>3, <2>4
             DEF Pdu!ParsesAsBuilt, MessageP!ParsesAsBuilt
<1>15. MessageP!TypeOK => Pdu!TypeOK
  BY DEF Pdu!TypeOK, MessageP!TypeOK
<1>. QED BY <1>1, <1>12, <1>13, <1>14, <1>15, PTL DEF Pdu!Spec, MessageP!Spec

-----------------------------------------------------------------------------
(* PairCoding as it is proved about in PairCodingProofs is that of the GUI *)
(* and its node.                                                           *)

PairP == INSTANCE PairCodingProofs
    WITH Pairs <- CodedPairs, file <- pairFile, rows <- list, removals <- removed

(* What writes is the same ...                                             *)
LEMMA WritersAlike ==
    /\ \A t, v : Coding!Coded(t, v) = PairP!Coded(t, v)
    /\ \A t, size, seq : Coding!WriteArray(t, size, seq) = PairP!WriteArray(t, size, seq)
    /\ \A s : Coding!cp_encodeString(s) = PairP!cp_encodeString(s)
    /\ \A cells : Coding!cmp_write_bin(cells) = PairP!cmp_write_bin(cells)
    /\ \A p : Coding!triggersetup(p) = PairP!triggersetup(p)
    /\ \A p : Coding!pair(p) = PairP!pair(p)
    /\ \A seqs : Coding!FlattenSeq(seqs) = PairP!FlattenSeq(seqs)
<1>1. /\ \A t, v : Coding!Cell(t, v) = PairP!Cell(t, v)
      /\ \A b : Coding!Data(b) = PairP!Data(b)
      /\ \A t : Coding!Width(t) = PairP!Width(t)
  BY Zenon DEF Coding!Cell, PairP!Cell, Coding!Data, PairP!Data, Coding!Width, PairP!Width
<1>2. \A t, v : Coding!Coded(t, v) = PairP!Coded(t, v)
  BY Zenon, <1>1 DEF Coding!Coded, PairP!Coded
<1>3. \A seqs : Coding!FlattenSeq(seqs) = PairP!FlattenSeq(seqs)
  BY Zenon DEF Coding!FlattenSeq, PairP!FlattenSeq
<1>4. \A t, size, seq : Coding!WriteArray(t, size, seq) = PairP!WriteArray(t, size, seq)
  BY Zenon, <1>2, <1>3 DEF Coding!WriteArray, PairP!WriteArray
<1>5. \A s : Coding!cp_encodeString(s) = PairP!cp_encodeString(s)
  BY Zenon, <1>1, <1>2 DEF Coding!cp_encodeString, PairP!cp_encodeString
<1>6. \A cells : Coding!cmp_write_bin(cells) = PairP!cmp_write_bin(cells)
  BY Zenon, <1>2 DEF Coding!cmp_write_bin, PairP!cmp_write_bin
<1>7. \A p : Coding!triggersetup(p) = PairP!triggersetup(p)
  BY Zenon DEF Coding!triggersetup, PairP!triggersetup, Coding!Events, PairP!Events
<1>8. \A p : Coding!pair(p) = PairP!pair(p)
  BY Zenon, <1>4, <1>5, <1>7 DEF Coding!pair, PairP!pair
<1>. QED BY <1>2, <1>3, <1>4, <1>5, <1>6, <1>7, <1>8

(* ... and so is what reads.                                               *)
LEMMA PartsAlike ==
    /\ \A b, p : Coding!cmp_read_object(b, p) = PairP!cmp_read_object(b, p)
    /\ \A b, kind, room, next :
          Coding!ReadPart(b, kind, room, next) = PairP!ReadPart(b, kind, room, next)
    /\ \A b, p, room : Coding!Parts(b, p, room) = PairP!Parts(b, p, room)
<1>1. \A b, p : Coding!cmp_read_object(b, p) = PairP!cmp_read_object(b, p)
  BY ZenonT(30) DEF Coding!cmp_read_object, PairP!cmp_read_object, Coding!Width, PairP!Width
<1>2. \A b, t, s : Coding!ReadNumber(b, t, s) = PairP!ReadNumber(b, t, s)
  BY ZenonT(30), <1>1 DEF Coding!ReadNumber, PairP!ReadNumber
<1>3. \A b, t, p, count : Coding!NumbersRead(b, t, p, count) = PairP!NumbersRead(b, t, p, count)
  BY ZenonT(30), <1>2 DEF Coding!NumbersRead, PairP!NumbersRead
<1>4. \A b, t, r : Coding!ReadArray(b, t, r) = PairP!ReadArray(b, t, r)
  BY ZenonT(30), <1>3 DEF Coding!ReadArray, PairP!ReadArray, Coding!Size, PairP!Size
<1>5. \A b, room, r : Coding!ReadString(b, room, r) = PairP!ReadString(b, room, r)
  BY ZenonT(30) DEF Coding!ReadString, PairP!ReadString
<1>6. \A b, kind, room, next :
        Coding!ReadPart(b, kind, room, next) = PairP!ReadPart(b, kind, room, next)
  BY ZenonT(30), <1>1, <1>4, <1>5 DEF Coding!ReadPart, PairP!ReadPart
<1>7. \A b, room, kind, s : Coding!NextPart(b, room, kind, s) = PairP!NextPart(b, room, kind, s)
  <2>. TAKE b, room, kind, s
  <2> DEFINE Either(r) == IF s.wrong # 0 THEN s
                          ELSE IF ~r.ok THEN [s EXCEPT !.wrong = Len(s.parts) + 1]
                          ELSE [s EXCEPT !.next = r.next, !.parts = Append(@, r.val)]
  <2>1. Coding!NextPart(b, room, kind, s) = Either(Coding!ReadPart(b, kind, room, s.next))
    BY Zenon DEF Coding!NextPart
  <2>2. PairP!NextPart(b, room, kind, s) = Either(PairP!ReadPart(b, kind, room, s.next))
    BY Zenon DEF PairP!NextPart
  <2>. HIDE DEF Either
  <2>. QED BY Zenon, <1>6, <2>1, <2>2
<1>8. \A b, p, room : Coding!Parts(b, p, room) = PairP!Parts(b, p, room)
  BY Zenon, <1>7 DEF Coding!Parts, PairP!Parts
<1>. QED BY <1>1, <1>6, <1>8

LEMMA FilesAlike ==
    /\ \A b : Coding!parseMessage(b) = PairP!parseMessage(b)
    /\ \A m : Coding!Parsed(m) = PairP!Parsed(m)
    /\ \A f : Coding!Records(f) = PairP!Records(f)
    /\ \A f : Coding!restore_SensorPairs(f) = PairP!restore_SensorPairs(f)
    /\ \A records, ids : Coding!Kept(records, ids) = PairP!Kept(records, ids)
    /\ \A b : Coding!parseList(b) = PairP!parseList(b)
<1>1. \A b : Coding!parseMessage(b) = PairP!parseMessage(b)
  BY Zenon, PartsAlike DEF Coding!parseMessage, PairP!parseMessage
<1>2. \A m : Coding!Parsed(m) = PairP!Parsed(m)
  BY Zenon DEF Coding!Parsed, PairP!Parsed
<1>3. \A f : Coding!Heads(f) = PairP!Heads(f)
  BY Zenon DEF Coding!Heads, PairP!Heads, Coding!RecordTypes, PairP!RecordTypes,
               Coding!Cardinality, PairP!Cardinality
<1>4. \A f, s : Coding!NextRecord(f, s) = PairP!NextRecord(f, s)
  BY Zenon, PartsAlike DEF Coding!NextRecord, PairP!NextRecord, Coding!RecordTypes,
                           PairP!RecordTypes
<1>5. \A f : Coding!RecordsUpTo(f) = PairP!RecordsUpTo(f)
  BY Zenon, <1>3, <1>4 DEF Coding!RecordsUpTo, PairP!RecordsUpTo
<1>6. \A f : Coding!Records(f) = PairP!Records(f)
  BY Zenon, <1>3, <1>5 DEF Coding!Records, PairP!Records
<1>7. \A f : Coding!restore_SensorPairs(f) = PairP!restore_SensorPairs(f)
  <2>1. \A s, S : Coding!Only(s, S) = PairP!Only(s, S)
    BY Zenon DEF Coding!Only, PairP!Only, Coding!OnlyUpTo, PairP!OnlyUpTo
  <2>2. \A r : Coding!AllParsed(r) = PairP!AllParsed(r)
    BY Zenon, <1>1 DEF Coding!AllParsed, PairP!AllParsed
  <2>3. \A m : Coding!WholeOnes(m) = PairP!WholeOnes(m)
    BY Zenon, <2>1 DEF Coding!WholeOnes, PairP!WholeOnes, Coding!Range, PairP!Range
  <2>. QED BY Zenon, <1>2, <1>6, <2>2, <2>3
             DEF Coding!restore_SensorPairs, PairP!restore_SensorPairs
<1>8. \A records, ids : Coding!Kept(records, ids) = PairP!Kept(records, ids)
  BY Zenon DEF Coding!Kept, PairP!Kept, Coding!KeptUpTo, PairP!KeptUpTo
<1>9. \A b : Coding!parseList(b) = PairP!parseList(b)
  <2>1. \A m : Coding!Row(m) = PairP!Row(m)
    BY Zenon DEF Coding!Row, PairP!Row, Coding!Events, PairP!Events
  <2>2. \A b, p : Coding!parsePairList(b, p) = PairP!parsePairList(b, p)
    BY Zenon, <2>1, PartsAlike DEF Coding!parsePairList, PairP!parsePairList
  <2>3. \A b, s : Coding!NextRow(b, s) = PairP!NextRow(b, s)
    BY Zenon, <2>2, PartsAlike DEF Coding!NextRow, PairP!NextRow, Coding!RecordTypes,
                                   PairP!RecordTypes
  <2>4. \A b : Coding!RowsUpTo(b) = PairP!RowsUpTo(b)
    BY Zenon, <1>3, <2>3 DEF Coding!RowsUpTo, PairP!RowsUpTo
  <2>. QED BY Zenon, <1>3, <2>4 DEF Coding!parseList, PairP!parseList
<1>. QED BY <1>1, <1>2, <1>6, <1>7, <1>8, <1>9

LEMMA PairsAsProved ==
    /\ Coding!Spec => PairP!Spec
    /\ Coding!PairsFit => PairP!PairsFit
    /\ PairP!PairsReadAlike => Coding!PairsReadAlike
    /\ PairP!TypeOK => Coding!TypeOK
<1>1. Coding!Init => PairP!Init
  BY DEF Coding!Init, PairP!Init, Coding!Idle, PairP!Idle
<1>2. UNCHANGED Coding!pairVars => UNCHANGED PairP!pairVars
  BY DEF Coding!pairVars, PairP!pairVars
<1>3. \A p : Coding!Join(p) => PairP!Join(p)
  <2>1. \A p, c, l, f, past :
            Coding!Answered(p, c, l, f, past) <=> PairP!Answered(p, c, l, f, past)
    BY Zenon DEF Coding!Answered, PairP!Answered
  <2>2. \A p, c : Coding!Refuse(p, c) <=> PairP!Refuse(p, c)
    BY Zenon, <2>1 DEF Coding!Refuse, PairP!Refuse
  <2>3. \A p, data, m : Coding!Joined(p, data, m) => PairP!Joined(p, data, m)
    BY <2>1, <2>2, FilesAlike, WritersAlike DEF Coding!Joined, PairP!Joined
  <2>. QED BY <2>2, <2>3, FilesAlike, WritersAlike DEF Coding!Join, PairP!Join
<1>4. \A ids : Coding!pairing_remove(ids) => PairP!pairing_remove(ids)
  <2>1. \A ids : Coding!removeItems(ids) = PairP!removeItems(ids)
    BY Zenon, WritersAlike DEF Coding!removeItems, PairP!removeItems
  <2>. QED BY <2>1, FilesAlike, PartsAlike, WritersAlike
             DEF Coding!pairing_remove, PairP!pairing_remove, Coding!Idle, PairP!Idle
<1>5. Coding!Restart => PairP!Restart
  BY FilesAlike DEF Coding!Restart, PairP!Restart
<1>6. Coding!getpairingslist => PairP!getpairingslist
  BY DEF Coding!getpairingslist, PairP!getpairingslist, Coding!Idle, PairP!Idle
<1>7. Coding!BlockArrives => PairP!BlockArrives
  <2>1. \A f, n : Coding!BlockOf(f, n) = PairP!BlockOf(f, n)
    BY Zenon DEF Coding!BlockOf, PairP!BlockOf
  <2>2. \A b : Coding!More(b) <=> PairP!More(b)
    BY Zenon DEF Coding!More, PairP!More
  <2>3. \A c : Coding!ParsedRows(c) = PairP!ParsedRows(c)
    BY Zenon, FilesAlike DEF Coding!ParsedRows, PairP!ParsedRows
  <2>. QED BY <2>1, <2>2, <2>3 DEF Coding!BlockArrives, PairP!BlockArrives, Coding!Idle, PairP!Idle
<1>8. [Coding!Next]_(Coding!pairVars) => [PairP!Next]_(PairP!pairVars)
  <2>1. Coding!Next => PairP!Next
    BY Zenon, <1>3, <1>4, <1>5, <1>6, <1>7 DEF Coding!Next, PairP!Next
  <2>. QED BY <1>2, <2>1
<1>9. Coding!PairsFit => PairP!PairsFit
  BY Zenon, WritersAlike DEF Coding!PairsFit, PairP!PairsFit, Coding!IsPair, PairP!IsPair,
     Coding!Events, PairP!Events, Coding!Range, PairP!Range
<1>10. PairP!PairsReadAlike => Coding!PairsReadAlike
  <2>1. \A p : /\ Coding!AsParsed(p) = PairP!AsParsed(p)
               /\ Coding!AsShown(p) = PairP!AsShown(p)
    BY Zenon, WritersAlike DEF Coding!AsParsed, PairP!AsParsed, Coding!AsShown, PairP!AsShown
  <2>2. \A ps : Coding!UpToLong(ps) = PairP!UpToLong(ps)
    BY Zenon DEF Coding!UpToLong, PairP!UpToLong, Coding!Short, PairP!Short
  <2>. QED BY Zenon, <2>1, <2>2, FilesAlike DEF Coding!PairsReadAlike, PairP!PairsReadAlike
<1>11. PairP!TypeOK => Coding!TypeOK
  BY DEF PairP!TypeOK, Coding!TypeOK, PairP!Idle, Coding!Idle
<1>. QED BY <1>1, <1>8, <1>9, <1>10, <1>11, PTL DEF Coding!Spec, PairP!Spec

-----------------------------------------------------------------------------
(*                        The GUI as a whole                               *)
-----------------------------------------------------------------------------
(* Every behaviour of the GUI is one of its lists and of its coding.       *)

LEMMA StepOfParts ==
    [Next]_clientVars => /\ [View!Next]_(View!viewFileVars) /\ [Store!Next]_(Store!storeVars)
                         /\ [Mp!MpNext]_(Mp!mpVars) /\ [Pdu!Next]_(Pdu!pduVars)
                         /\ [Coding!Next]_(Coding!pairVars)
<1>. SUFFICES ASSUME [Next]_clientVars
              PROVE  /\ [View!Next]_(View!viewFileVars) /\ [Store!Next]_(Store!storeVars)
                     /\ [Mp!MpNext]_(Mp!mpVars) /\ [Pdu!Next]_(Pdu!pduVars)
                     /\ [Coding!Next]_(Coding!pairVars)
  OBVIOUS
<1>1. View!Next \/ UNCHANGED viewFileVars
  BY DEF Next, clientVars
<1>2. Store!Next \/ UNCHANGED storeVars
  BY DEF Next, clientVars
<1>3. Mp!MpNext \/ UNCHANGED mpVars
  BY DEF Next, clientVars
<1>4. UNCHANGED viewFileVars => UNCHANGED View!viewFileVars
  BY DEF viewFileVars, View!viewFileVars, View!nodeVars, View!viewVars, View!requestVars,
         View!pastVars
<1>5. UNCHANGED storeVars => UNCHANGED Store!storeVars
  BY DEF storeVars, Store!storeVars, Store!volatileVars
<1>6. UNCHANGED mpVars => UNCHANGED Mp!mpVars
  BY DEF mpVars, Mp!mpVars
<1>7. Pdu!Next \/ UNCHANGED pduVars
  BY DEF Next, clientVars
<1>8. UNCHANGED pduVars => UNCHANGED Pdu!pduVars
  BY DEF pduVars, Pdu!pduVars
<1>9. Coding!Next \/ UNCHANGED pairVars
  BY DEF Next, clientVars
<1>10. UNCHANGED pairVars => UNCHANGED Coding!pairVars
  BY DEF pairVars, Coding!pairVars
<1>. QED BY <1>1, <1>2, <1>3, <1>4, <1>5, <1>6, <1>7, <1>8, <1>9, <1>10

LEMMA ClientFollowsParts ==
    Spec => View!Spec /\ Store!Spec /\ Mp!MpSpec /\ Pdu!Spec /\ Coding!Spec
<1>1. Init => View!Init /\ Store!Init /\ Mp!MpInit /\ Pdu!Init /\ Coding!Init
  BY DEF Init
<1>. QED BY <1>1, StepOfParts, PTL DEF Spec, View!Spec, Store!Spec, Mp!MpSpec, Pdu!Spec,
                                       Coding!Spec

(* The theorems above hold of the GUI's specification, as the run checks   *)
(* them on a small instance: the list of pairs, the lists of sensors and   *)
(* the coding of values.                                                   *)
THEOREM ClientShowsFile == Spec => []ViewFollowsFile
<1>1. View!Spec => []View!ViewFollowsFile
  BY ListFollowsFile, ClientAssumption
<1>2. View!ViewFollowsFile => ViewFollowsFile
  BY DEF ViewFollowsFile
<1>. QED BY <1>1, <1>2, ClientFollowsParts, PTL

THEOREM ClientShowsSensors == Spec => []RowsAreShown
<1>1. Store!Spec => []Store!RowsAreShown
  BY SensorsAreThoseStored, ClientAssumption
<1>2. Store!RowsAreShown => RowsAreShown
  BY DEF RowsAreShown
<1>. QED BY <1>1, <1>2, ClientFollowsParts, PTL

(* Whatever values are written, of any base and limits: a reader that      *)
(* answers true returns the value written there, and a number is taken by  *)
(* just the C types that hold it.                                          *)
THEOREM ClientKeepsValues == Spec => []ValuesSurvive
<1>1. Mp!MpSpec => []Mp!WrittenIsRead /\ []Mp!ReadersTakeWhatFits
  BY WrittenIsWhatIsRead, ClientAssumption
<1>2. Mp!WrittenIsRead /\ Mp!ReadersTakeWhatFits => ValuesSurvive
  BY DEF ValuesSurvive
<1>. QED BY <1>1, <1>2, ClientFollowsParts, PTL

(* However many options of whatever numbers, URIs, tokens and payloads the *)
(* GUI puts into a message, in an order in which wsn.cpp may call, and     *)
(* whatever does not fit: the receiver finds all that was put in, each     *)
(* option in its place with its value (cantcoap.cpp).                      *)
THEOREM ClientBuildsMessages == ASSUME ~AnyOrder PROVE Spec => []ParsesAsBuilt
<1>1. MessageP!ShortMessages
  BY ClientAssumption, MessageAsProved DEF Messages
<1>2. MessageP!Spec => []MessageP!ParsesAsBuilt
  BY <1>1, MessageP!MessageParsesAsBuilt
<1>3. Pdu!ParsesAsBuilt => ParsesAsBuilt
  BY DEF ParsesAsBuilt
<1>. QED BY <1>2, <1>3, ClientFollowsParts, MessageAsProved, PTL

(* Whatever pairs that fit in the buffers are joined: the node restores    *)
(* them, and the list the user reads shows them, as they were joined       *)
(* (sensor.cpp, pairing.c, wsn.cpp).                                       *)
THEOREM ClientReadsPairs == Spec => []PairsReadAlike
<1>1. PairP!PairsFit
  BY ClientAssumption, PairsAsProved DEF Codings
<1>2. PairP!Spec => []PairP!PairsReadAlike
  BY <1>1, PairP!PairReadAsJoined
<1>3. Coding!PairsReadAlike => PairsReadAlike
  BY DEF PairsReadAlike
<1>. QED BY <1>2, <1>3, ClientFollowsParts, PairsAsProved, PTL

(* What the coding of values and messages, the lists and the coded pairs   *)
(* keep is of its type, in the order in which wsn.cpp may call.            *)
THEOREM ClientTypes == ASSUME ~AnyOrder PROVE Spec => []ClientTypeOK
<1>1. Mp!MpSpec => [](at \in 1..Len(buf) + 1 /\ Len(reads) <= Len(written))
  BY ReaderStaysInBuffer, ClientAssumption
<1>2. MessageP!Spec => []MessageP!TypeOK
  <2>1. MessageP!ShortMessages
    BY ClientAssumption, MessageAsProved DEF Messages
  <2>. QED BY <2>1, MessageP!PduTypes
<1>3. View!Spec => []View!TypeOK
  <2>1. View!Init => ViewTyped
    BY InitViewTyped, ClientAssumption
  <2>2. ViewTyped /\ [View!Next]_(View!viewFileVars) => ViewTyped'
    BY StepViewTyped, ClientAssumption
  <2>3. ViewTyped => View!TypeOK
    BY DEF ViewTyped
  <2>. QED BY <2>1, <2>2, <2>3, PTL DEF View!Spec
<1>4. Store!Spec => []Store!TypeOK
  BY StoreTypes, ClientAssumption
<1>5. PairP!Spec => []PairP!TypeOK
  <2>1. PairP!PairsFit
    BY ClientAssumption, PairsAsProved DEF Codings
  <2>. QED BY <2>1, PairP!PairCodingTypes
<1>6. Spec => [](focus \in {"msgpack", "pdu", "view", "store", "coding"})
  <2> DEFINE F == focus \in {"msgpack", "pdu", "view", "store", "coding"}
  <2>1. Init => F
    BY DEF Init
  <2>2. F /\ [Next]_clientVars => F'
    BY DEF Next, clientVars
  <2>. HIDE DEF F
  <2>3. Spec => []F
    BY <2>1, <2>2, PTL DEF Spec
  <2>. QED BY <2>3 DEF F
<1>7. /\ focus \in {"msgpack", "pdu", "view", "store", "coding"}
      /\ at \in 1..Len(buf) + 1 /\ Len(reads) <= Len(written)
      /\ Pdu!TypeOK /\ View!TypeOK /\ Store!TypeOK /\ Coding!TypeOK
      => ClientTypeOK
  BY DEF ClientTypeOK
<1>. QED BY <1>1, <1>2, <1>3, <1>4, <1>5, <1>6, <1>7, ClientFollowsParts, MessageAsProved,
            PairsAsProved, PTL
=============================================================================
