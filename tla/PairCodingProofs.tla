-------------------------- MODULE PairCodingProofs --------------------------
(***************************************************************************)
(* Proofs about PairCoding for any pairs, names and limits that fit        *)
(* (PairsFit), records and blocks of any length.  What a writer writes     *)
(* lies somewhere in a sequence of cells (Holds), and where it lies the    *)
(* readers find it: one object (ObjectIs), an array (ArrayIs), a string    *)
(* (StringIs), the four parts of a record (PartsAre).  A file is a row of  *)
(* records with their heads (Laid); the node reads just those              *)
(* (RecordsAre, RestoredIs), the user sees them up to the first with a     *)
(* long URL (RowsAre), and a removal keeps of the file what it keeps of    *)
(* the pairs (KeptIs).  The actions then keep the file the row of the      *)
(* records of the pairs stored (PairInv).                                  *)
(***************************************************************************)
EXTENDS PairCoding, SequenceTheorems, FunctionTheorems, FiniteSetTheorems,
        WellFoundedInduction, TLAPS

-----------------------------------------------------------------------------
(* Induction over the natural numbers and over sequences, with a set for   *)
(* the predicate, and what it says of recursive functions.                 *)

LEMMA LeastNumber ==
    ASSUME NEW T \in SUBSET Nat, T # {}
    PROVE  \E x \in T : \A y \in T : x <= y
<1>1. PICK x \in T : \A y \in T : <<y, x>> \notin OpToRel(<, Nat)
  BY NatLessThanWellFounded, WFMin
<1>2. \A y \in T : ~(y < x)
  BY <1>1 DEF OpToRel
<1>. QED BY <1>2

LEMMA NumbersInduction ==
    ASSUME NEW T, 0 \in T, \A n \in T \cap Nat : n + 1 \in T
    PROVE  Nat \subseteq T
<1>. SUFFICES ASSUME NEW m \in Nat, m \notin T
              PROVE  FALSE
  OBVIOUS
<1>1. PICK x \in Nat \ T : \A y \in Nat \ T : x <= y
  BY LeastNumber, Nat \ T \in SUBSET Nat, m \in Nat \ T
<1>2. x - 1 \in Nat /\ ~(x <= x - 1) /\ (x - 1) + 1 = x
  BY <1>1
<1>. QED BY <1>1, <1>2

(* The function on 0..k that starts at b and goes on by step.              *)
IsChain(f, S, b, k, step) ==
    f \in [0..k -> S] /\ f[0] = b /\ \A n \in 1..k : f[n] = step[<<f[n - 1], n>>]

LEMMA RecursionExists ==
    ASSUME NEW S, NEW b \in S, NEW k \in Nat, NEW step \in [S \X (1..k) -> S]
    PROVE  \E f : IsChain(f, S, b, k, step)
<1> DEFINE Starts(f, m) ==
        f \in [0..m -> S] /\ f[0] = b /\ \A n \in 1..m : f[n] = step[<<f[n - 1], n>>]
           Ok == {m \in Nat : m <= k => \E f : Starts(f, m)}
<1>1. 0 \in Ok
  <2>1. Starts([n \in 0..0 |-> b], 0)
    OBVIOUS
  <2>. QED BY <2>1
<1>2. ASSUME NEW m \in Ok \cap Nat
      PROVE  m + 1 \in Ok
  <2>. SUFFICES ASSUME m + 1 <= k
                PROVE  \E f : Starts(f, m + 1)
    OBVIOUS
  <2>1. PICK f : Starts(f, m)
    OBVIOUS
  <2> DEFINE g == [n \in 0..m + 1 |-> IF n = m + 1 THEN step[<<f[m], m + 1>>] ELSE f[n]]
  <2>2. f[m] \in S /\ m + 1 \in 1..k
    BY <2>1
  <2>3. g \in [0..m + 1 -> S] /\ g[0] = b
    BY <2>1, <2>2
  <2>4. ASSUME NEW n \in 1..m + 1
        PROVE  g[n] = step[<<g[n - 1], n>>]
    <3>1. g[n - 1] = f[n - 1]
      OBVIOUS
    <3>2. CASE n = m + 1
      <4>1. g[n] = step[<<f[m], m + 1>>] /\ n - 1 = m
        BY <3>2
      <4>. HIDE DEF g
      <4>. QED BY <3>1, <3>2, <4>1
    <3>3. CASE n # m + 1
      <4>1. n \in 1..m /\ g[n] = f[n]
        BY <3>3
      <4>. HIDE DEF g
      <4>. QED BY <2>1, <3>1, <4>1
    <3>. QED BY <3>2, <3>3
  <2>. HIDE DEF g
  <2>5. Starts(g, m + 1)
    BY <2>3, <2>4
  <2>. QED BY <2>5
<1>3. k \in Ok
  <2>. HIDE DEF Ok
  <2>. QED BY <1>1, <1>2, NumbersInduction
<1>4. PICK f : Starts(f, k)
  BY <1>3
<1>. QED BY <1>4 DEF IsChain

(* A set with the empty sequence that contains, with a sequence, all that  *)
(* are longer by one element, has all sequences.                           *)
LEMMA SequencesInduction ==
    ASSUME NEW T, NEW Q, <<>> \in Q,
           \A s \in Seq(T) : s \in Q => \A e \in T : Append(s, e) \in Q
    PROVE  Seq(T) \subseteq Q
<1> DEFINE Ok == {n \in Nat : \A s \in Seq(T) : Len(s) = n => s \in Q}
<1>1. 0 \in Ok
  <2>1. \A s \in Seq(T) : Len(s) = 0 => s = <<>>
    BY EmptySeq
  <2>. QED BY <2>1
<1>2. ASSUME NEW n \in Ok \cap Nat
      PROVE  n + 1 \in Ok
  <2>. SUFFICES ASSUME NEW s \in Seq(T), Len(s) = n + 1
                PROVE  s \in Q
    OBVIOUS
  <2>1. s # <<>>
    BY EmptySeq
  <2>2. PICK t \in Seq(T), e \in T : s = Append(t, e)
    BY <2>1, SequenceEmptyOrAppend
  <2>3. Len(t) = n
    <3>1. Len(Append(t, e)) = Len(t) + 1 /\ Len(t) \in Nat
      BY AppendProperties, LenProperties
    <3>2. Len(t) + 1 = n + 1
      BY <2>2, <3>1
    <3>. QED BY <3>1, <3>2
  <2>. QED BY <2>2, <2>3
<1>3. Nat \subseteq Ok
  <2>. HIDE DEF Ok
  <2>. QED BY <1>1, <1>2, NumbersInduction
<1>. QED BY <1>3, LenProperties

(* A function that goes on by step as long as it stays in S is that chain. *)
LEMMA ChainFollows ==
    ASSUME NEW S, NEW b \in S, NEW k \in Nat, NEW step \in [S \X (1..k) -> S],
           NEW f, f = [n \in 0..k |-> f[n]], f[0] = b,
           \A n \in 1..k : f[n - 1] \in S => f[n] = step[<<f[n - 1], n>>]
    PROVE  IsChain(f, S, b, k, step)
<1> DEFINE Ok == {m \in Nat : m <= k => f[m] \in S}
<1>1. 0 \in Ok
  OBVIOUS
<1>2. ASSUME NEW m \in Ok \cap Nat
      PROVE  m + 1 \in Ok
  <2>. SUFFICES ASSUME m + 1 <= k
                PROVE  f[m + 1] \in S
    OBVIOUS
  <2>1. m + 1 \in 1..k /\ (m + 1) - 1 = m /\ f[m] \in S
    OBVIOUS
  <2>2. f[m + 1] = step[<<f[m], m + 1>>]
    BY <2>1
  <2>. QED BY <2>1, <2>2
<1>3. \A m \in 0..k : f[m] \in S
  <2>1. Nat \subseteq Ok
    <3>. HIDE DEF Ok
    <3>. QED BY <1>1, <1>2, NumbersInduction
  <2>2. \A m \in 0..k : m \in Nat /\ m <= k
    OBVIOUS
  <2>. QED BY <2>1, <2>2
<1>4. \A n \in 1..k : n - 1 \in 0..k
  OBVIOUS
<1>. QED BY <1>3, <1>4 DEF IsChain

-----------------------------------------------------------------------------
(* The elements of a sequence that are in a set.                           *)

LEMMA OnlyUpToDef ==
    ASSUME NEW T, NEW s \in Seq(T), NEW S
    PROVE  /\ OnlyUpTo(s, S) \in [0..Len(s) -> Seq(T)]
           /\ OnlyUpTo(s, S)[0] = <<>>
           /\ \A n \in 1..Len(s) :
                 OnlyUpTo(s, S)[n] =
                     IF s[n] \in S THEN Append(OnlyUpTo(s, S)[n - 1], s[n])
                     ELSE OnlyUpTo(s, S)[n - 1]
<1> DEFINE GoOn(f, n) == IF s[n] \in S THEN Append(f[n - 1], s[n]) ELSE f[n - 1]
           Body(f) == [n \in 0..Len(s) |-> IF n = 0 THEN <<>> ELSE GoOn(f, n)]
           step == [x \in Seq(T) \X (1..Len(s)) |->
                       IF s[x[2]] \in S THEN Append(x[1], s[x[2]]) ELSE x[1]]
           only == CHOOSE f : f = Body(f)
<1>1. Len(s) \in Nat /\ <<>> \in Seq(T) /\ step \in [Seq(T) \X (1..Len(s)) -> Seq(T)]
  OBVIOUS
<1>2. ASSUME NEW f, NEW n \in 1..Len(s), f[n - 1] \in Seq(T)
      PROVE  step[<<f[n - 1], n>>] = GoOn(f, n)
  BY <1>2
<1>3. OnlyUpTo(s, S) = only
  BY DEF OnlyUpTo
<1>. HIDE DEF step
<1>4. PICK f : IsChain(f, Seq(T), <<>>, Len(s), step)
  BY <1>1, RecursionExists, Zenon
<1>5. f = Body(f)
  <2>1. f = [n \in 0..Len(s) |-> f[n]] /\ f[0] = <<>>
    BY <1>4 DEF IsChain
  <2>2. ASSUME NEW n \in 1..Len(s)
        PROVE  f[n] = GoOn(f, n)
    <3>1. f[n - 1] \in Seq(T)
      BY <1>4 DEF IsChain
    <3>2. f[n] = step[<<f[n - 1], n>>]
      BY <1>4 DEF IsChain
    <3>. HIDE DEF GoOn
    <3>. QED BY <1>2, <3>1, <3>2
  <2>3. \A n \in 0..Len(s) : n # 0 => n \in 1..Len(s)
    OBVIOUS
  <2>. HIDE DEF GoOn
  <2>4. \A n \in 0..Len(s) : f[n] = IF n = 0 THEN <<>> ELSE GoOn(f, n)
    BY <2>1, <2>2, <2>3
  <2>. QED BY <2>1, <2>4
<1>6. only = Body(only)
  <2>. HIDE DEF Body
  <2>. QED BY <1>5
<1>. HIDE DEF only
<1>7. only[0] = <<>> /\ \A n \in 1..Len(s) : only[n] = GoOn(only, n)
  <2>. HIDE DEF GoOn
  <2>. QED BY <1>6
<1>8. IsChain(only, Seq(T), <<>>, Len(s), step)
  <2>1. only = [n \in 0..Len(s) |-> only[n]]
    BY <1>6
  <2>2. \A n \in 1..Len(s) : only[n - 1] \in Seq(T) => only[n] = step[<<only[n - 1], n>>]
    <3>. HIDE DEF GoOn
    <3>. QED BY <1>2, <1>7
  <2>. QED BY <1>1, <1>7, <2>1, <2>2, ChainFollows, Zenon
<1>9. only \in [0..Len(s) -> Seq(T)]
  BY <1>8 DEF IsChain
<1>. QED BY <1>3, <1>7, <1>9

LEMMA OnlyType ==
    ASSUME NEW T, NEW s \in Seq(T), NEW S
    PROVE  Only(s, S) \in Seq(T)
<1>1. Len(s) \in 0..Len(s)
  BY LenProperties
<1>2. OnlyUpTo(s, S) \in [0..Len(s) -> Seq(T)]
  BY OnlyUpToDef, Zenon
<1>. QED BY <1>1, <1>2 DEF Only

LEMMA OnlyOfEmpty == \A S : Only(<<>>, S) = <<>>
<1>. SUFFICES ASSUME NEW S
              PROVE  Only(<<>>, S) = <<>>
  OBVIOUS
<1> DEFINE s == <<>>
<1>1. s \in Seq({}) /\ Len(s) = 0
  BY EmptySeq
<1>. HIDE DEF s
<1>2. OnlyUpTo(s, S)[0] = <<>>
  <2>1. PICK T : s \in Seq(T)
    BY <1>1
  <2>. QED BY <2>1, OnlyUpToDef
<1>3. Only(s, S) = <<>>
  BY <1>1, <1>2 DEF Only
<1>. QED BY <1>3 DEF s

(* What follows the first n elements does not matter.                      *)
LEMMA OnlyOfAppend ==
    ASSUME NEW T, NEW s \in Seq(T), NEW e \in T, NEW S
    PROVE  Only(Append(s, e), S) = IF e \in S THEN Append(Only(s, S), e) ELSE Only(s, S)
<1> DEFINE t == Append(s, e)
           len == Len(s)
           f == OnlyUpTo(s, S)
           g == OnlyUpTo(t, S)
           Ok == {m \in Nat : m <= len => f[m] = g[m]}
<1>1. /\ t \in Seq(T) /\ Len(t) = len + 1 /\ len \in Nat
      /\ \A i \in 1..len : t[i] = s[i]
      /\ t[len + 1] = e
  <2>1. len \in Nat
    BY LenProperties
  <2>. QED BY <2>1, AppendProperties
<1>2. f[0] = <<>> /\ g[0] = <<>>
  <2>. HIDE DEF t
  <2>. QED BY <1>1, OnlyUpToDef
<1>3. \A n \in 1..len : f[n] = IF s[n] \in S THEN Append(f[n - 1], s[n]) ELSE f[n - 1]
  BY OnlyUpToDef
<1>. HIDE DEF t, len
<1>4. \A n \in 1..len + 1 : g[n] = IF t[n] \in S THEN Append(g[n - 1], t[n]) ELSE g[n - 1]
  <2>1. \A n \in 1..Len(t) : g[n] = IF t[n] \in S THEN Append(g[n - 1], t[n]) ELSE g[n - 1]
    <3>1. t \in Seq(T)
      BY <1>1
    <3>. QED BY <3>1, OnlyUpToDef
  <2>. QED BY <1>1, <2>1
<1>. HIDE DEF f, g
<1>5. 0 \in Ok
  BY <1>2
<1>6. ASSUME NEW m \in Ok \cap Nat
      PROVE  m + 1 \in Ok
  <2>. SUFFICES ASSUME m + 1 <= len
                PROVE  f[m + 1] = g[m + 1]
    OBVIOUS
  <2>1. m + 1 \in 1..len /\ m + 1 \in 1..len + 1 /\ (m + 1) - 1 = m /\ m <= len
    BY <1>1
  <2>2. f[m] = g[m]
    BY <2>1
  <2>. HIDE DEF Ok
  <2> DEFINE n == m + 1
  <2>3. n \in 1..len /\ n \in 1..len + 1 /\ n - 1 = m
    BY <2>1
  <2>. HIDE DEF n
  <2>4. f[n] = g[n]
    BY <1>1, <1>3, <1>4, <2>2, <2>3
  <2>. QED BY <2>4 DEF n
<1>7. f[len] = g[len]
  <2>1. Nat \subseteq Ok
    <3>. HIDE DEF Ok
    <3>. QED BY <1>5, <1>6, NumbersInduction
  <2>. QED BY <1>1, <2>1
<1>8. g[len + 1] = IF e \in S THEN Append(g[len], e) ELSE g[len]
  <2>1. len + 1 \in 1..len + 1 /\ (len + 1) - 1 = len
    BY <1>1
  <2>. QED BY <1>1, <1>4, <2>1
<1>9. Only(s, S) = f[len] /\ Only(t, S) = g[len + 1]
  BY <1>1 DEF Only, f, g, len
<1>. QED BY <1>7, <1>8, <1>9 DEF t

(* Selecting twice is selecting by both sets.                              *)
LEMMA OnlyOfOnly ==
    ASSUME NEW T, NEW s \in Seq(T), NEW S, NEW R
    PROVE  Only(Only(s, S), R) = Only(s, S \cap R)
<1> DEFINE Q == {q \in Seq(T) : Only(Only(q, S), R) = Only(q, S \cap R)}
<1>1. <<>> \in Q
  <2>1. <<>> \in Seq(T)
    BY EmptySeq
  <2>. QED BY <2>1, OnlyOfEmpty
<1>2. ASSUME NEW q \in Seq(T), q \in Q, NEW e \in T
      PROVE  Append(q, e) \in Q
  <2> DEFINE o == Only(q, S)
  <2>1. o \in Seq(T) /\ Append(q, e) \in Seq(T)
    BY OnlyType, AppendProperties
  <2>2. Only(Append(q, e), S) = IF e \in S THEN Append(o, e) ELSE o
    BY OnlyOfAppend
  <2>3. Only(Append(q, e), S \cap R) =
            IF e \in S \cap R THEN Append(Only(q, S \cap R), e) ELSE Only(q, S \cap R)
    BY OnlyOfAppend
  <2>4. Only(o, R) = Only(q, S \cap R)
    BY <1>2
  <2>. HIDE DEF o
  <2>5. Only(Append(o, e), R) = IF e \in R THEN Append(Only(o, R), e) ELSE Only(o, R)
    BY <2>1, OnlyOfAppend
  <2>6. Only(Only(Append(q, e), S), R) = Only(Append(q, e), S \cap R)
    <3>1. CASE e \in S
      <4>1. Only(Only(Append(q, e), S), R) = Only(Append(o, e), R)
        BY <2>2, <3>1
      <4>2. e \in S \cap R <=> e \in R
        BY <3>1
      <4>. QED BY <2>3, <2>4, <2>5, <4>1, <4>2
    <3>2. CASE e \notin S
      <4>1. Only(Append(q, e), S) = o /\ e \notin S \cap R
        BY <2>2, <3>2
      <4>. QED BY <2>3, <2>4, <4>1
    <3>. QED BY <3>1, <3>2
  <2>. QED BY <2>1, <2>6
<1>3. Seq(T) \subseteq Q
  <2>. HIDE DEF Q
  <2>. QED BY <1>1, <1>2, SequencesInduction
<1>. QED BY <1>3

(* Only the elements there are in s matter, and those selected are in S.   *)
LEMMA OnlySame ==
    ASSUME NEW T, NEW s \in Seq(T), NEW S, NEW R, S \cap T = R \cap T
    PROVE  Only(s, S) = Only(s, R)
<1> DEFINE Q == {q \in Seq(T) : Only(q, S) = Only(q, R)}
<1>1. <<>> \in Q
  <2>1. <<>> \in Seq(T)
    BY EmptySeq
  <2>. QED BY <2>1, OnlyOfEmpty
<1>2. ASSUME NEW q \in Seq(T), q \in Q, NEW e \in T
      PROVE  Append(q, e) \in Q
  <2>1. Append(q, e) \in Seq(T) /\ (e \in S <=> e \in R)
    BY AppendProperties
  <2>2. Only(Append(q, e), S) = IF e \in S THEN Append(Only(q, S), e) ELSE Only(q, S)
    BY OnlyOfAppend
  <2>3. Only(Append(q, e), R) = IF e \in R THEN Append(Only(q, R), e) ELSE Only(q, R)
    BY OnlyOfAppend
  <2>. QED BY <1>2, <2>1, <2>2, <2>3
<1>3. Seq(T) \subseteq Q
  <2>. HIDE DEF Q
  <2>. QED BY <1>1, <1>2, SequencesInduction
<1>. QED BY <1>3

LEMMA OnlySelected ==
    ASSUME NEW T, NEW s \in Seq(T), NEW S
    PROVE  Only(s, S) \in Seq(T \cap S)
<1> DEFINE Q == {q \in Seq(T) : Only(q, S) \in Seq(T \cap S)}
<1>1. <<>> \in Q
  <2>1. <<>> \in Seq(T) /\ <<>> \in Seq(T \cap S)
    BY EmptySeq
  <2>. QED BY <2>1, OnlyOfEmpty
<1>2. ASSUME NEW q \in Seq(T), q \in Q, NEW e \in T
      PROVE  Append(q, e) \in Q
  <2>1. Append(q, e) \in Seq(T) /\ Only(q, S) \in Seq(T \cap S)
    BY <1>2, AppendProperties
  <2>2. Only(Append(q, e), S) = IF e \in S THEN Append(Only(q, S), e) ELSE Only(q, S)
    BY OnlyOfAppend
  <2>3. e \in S => Append(Only(q, S), e) \in Seq(T \cap S)
    BY <2>1, AppendProperties
  <2>. QED BY <2>1, <2>2, <2>3
<1>3. Seq(T) \subseteq Q
  <2>. HIDE DEF Q
  <2>. QED BY <1>1, <1>2, SequencesInduction
<1>. QED BY <1>3

LEMMA OnlyAll ==
    ASSUME NEW T, NEW s \in Seq(T)
    PROVE  Only(s, T) = s
<1> DEFINE Q == {q \in Seq(T) : Only(q, T) = q}
<1>1. <<>> \in Q
  <2>1. <<>> \in Seq(T)
    BY EmptySeq
  <2>. QED BY <2>1, OnlyOfEmpty
<1>2. ASSUME NEW q \in Seq(T), q \in Q, NEW e \in T
      PROVE  Append(q, e) \in Q
  <2>1. Append(q, e) \in Seq(T)
    BY AppendProperties
  <2>2. Only(Append(q, e), T) = IF e \in T THEN Append(Only(q, T), e) ELSE Only(q, T)
    BY OnlyOfAppend
  <2>. QED BY <1>2, <2>1, <2>2
<1>3. Seq(T) \subseteq Q
  <2>. HIDE DEF Q
  <2>. QED BY <1>1, <1>2, SequencesInduction
<1>. QED BY <1>3

-----------------------------------------------------------------------------
(* The cells of the pairs' coding, and where a run of them lies.           *)
Types == {"fixarray", "array16", "fixstr", "str8", "str16", "bin8", "bin16", "u8", "u16", "s8"}
Slot == [type : Types \cup {"data"}, val : Int]
Holds(b, p, s) == p + Len(s) <= Len(b) + 1 /\ \A i \in 1..Len(s) : b[p + i - 1] = s[i]

LEMMA CellsJoined ==
    ASSUME NEW S, NEW a \in Seq(S), NEW b \in Seq(S)
    PROVE  /\ a \o b \in Seq(S) /\ Len(a \o b) = Len(a) + Len(b)
           /\ Len(a) \in Nat /\ Len(b) \in Nat
           /\ \A i \in 1..Len(a) : (a \o b)[i] = a[i]
           /\ \A i \in 1..Len(b) : (a \o b)[Len(a) + i] = b[i]
<1>1. /\ a \o b \in Seq(S) /\ Len(a \o b) = Len(a) + Len(b)
      /\ \A i \in 1..Len(a) + Len(b) :
            (a \o b)[i] = IF i <= Len(a) THEN a[i] ELSE b[i - Len(a)]
  BY ConcatProperties
<1>2. Len(a) \in Nat /\ Len(b) \in Nat
  BY LenProperties
<1>3. PICK w, m, n : w = a \o b /\ m = Len(a) /\ n = Len(b)
  OBVIOUS
<1>4. m \in Nat /\ n \in Nat /\ \A i \in 1..m + n : w[i] = IF i <= m THEN a[i] ELSE b[i - m]
  BY <1>1, <1>2, <1>3
<1>5. \A i \in 1..m : i \in 1..m + n /\ i <= m
  BY <1>4
<1>6. \A i \in 1..m : w[i] = a[i]
  BY <1>4, <1>5
<1>7. \A i \in 1..n : m + i \in 1..m + n /\ ~(m + i <= m) /\ (m + i) - m = i
  BY <1>4
<1>8. \A i \in 1..n : w[m + i] = b[i]
  BY <1>4, <1>7
<1>. QED BY <1>1, <1>2, <1>3, <1>6, <1>8

(* A joined run lies somewhere when its parts lie there one behind the     *)
(* other.                                                                  *)
LEMMA HoldsJoined ==
    ASSUME NEW a \in Seq(Slot), NEW c \in Seq(Slot), NEW b \in Seq(Slot), NEW p \in Int
    PROVE  Holds(b, p, a \o c) <=> Holds(b, p, a) /\ Holds(b, p + Len(a), c)
<1>1. PICK w, m, n, l : w = a \o c /\ m = Len(a) /\ n = Len(c) /\ l = Len(b)
  OBVIOUS
<1>2. /\ m \in Nat /\ n \in Nat /\ Len(w) = m + n
      /\ \A i \in 1..m : w[i] = a[i]
      /\ \A i \in 1..n : w[m + i] = c[i]
  BY <1>1, CellsJoined
<1>3. l \in Nat
  BY <1>1, LenProperties
<1>4. ASSUME \A i \in 1..m + n : b[p + i - 1] = w[i]
      PROVE  /\ \A i \in 1..m : b[p + i - 1] = a[i]
             /\ \A i \in 1..n : b[(p + m) + i - 1] = c[i]
  <2>1. \A i \in 1..m : i \in 1..m + n
    BY <1>2
  <2>2. \A i \in 1..n : m + i \in 1..m + n /\ p + (m + i) - 1 = (p + m) + i - 1
    BY <1>2
  <2>3. \A i \in 1..n : b[p + (m + i) - 1] = w[m + i]
    BY <1>4, <2>2
  <2>. QED BY <1>2, <1>4, <2>1, <2>2, <2>3
<1>5. ASSUME \A i \in 1..m : b[p + i - 1] = a[i],
             \A i \in 1..n : b[(p + m) + i - 1] = c[i],
             NEW i \in 1..m + n
      PROVE  b[p + i - 1] = w[i]
  <2>1. CASE i <= m
    <3>1. i \in 1..m
      BY <1>2, <2>1
    <3>. QED BY <1>2, <1>5, <3>1
  <2>2. CASE i > m
    <3>1. i - m \in 1..n /\ (p + m) + (i - m) - 1 = p + i - 1 /\ m + (i - m) = i
      BY <1>2, <2>2
    <3>2. b[(p + m) + (i - m) - 1] = c[i - m] /\ w[m + (i - m)] = c[i - m]
      BY <1>2, <1>5, <3>1
    <3>. QED BY <3>1, <3>2
  <2>. QED BY <1>2, <2>1, <2>2
<1>6. (\A i \in 1..m + n : b[p + i - 1] = w[i])
         <=> /\ \A i \in 1..m : b[p + i - 1] = a[i]
             /\ \A i \in 1..n : b[(p + m) + i - 1] = c[i]
  BY <1>4, <1>5
<1>7. p + (m + n) <= l + 1 <=> p + m <= l + 1 /\ (p + m) + n <= l + 1
  BY <1>2, <1>3
<1>. QED BY <1>1, <1>2, <1>6, <1>7 DEF Holds

(* What lies in a run that lies in b lies in b.                            *)
LEMMA HoldsInside ==
    ASSUME NEW b \in Seq(Slot), NEW s \in Seq(Slot), NEW c \in Seq(Slot),
           NEW p \in Int, NEW q \in Nat \ {0}, Holds(b, p, s), Holds(s, q, c)
    PROVE  Holds(b, p + q - 1, c)
<1>1. PICK m, n, l : m = Len(s) /\ n = Len(c) /\ l = Len(b)
  OBVIOUS
<1>2. m \in Nat /\ n \in Nat /\ l \in Nat
  BY <1>1, LenProperties
<1>3. /\ p + m <= l + 1 /\ q + n <= m + 1
      /\ \A i \in 1..m : b[p + i - 1] = s[i]
      /\ \A i \in 1..n : s[q + i - 1] = c[i]
  BY <1>1 DEF Holds
<1>4. p + q - 1 + n <= l + 1
  BY <1>2, <1>3
<1>5. ASSUME NEW i \in 1..n
      PROVE  b[p + q - 1 + i - 1] = c[i]
  <2>1. q + i - 1 \in 1..m /\ p + (q + i - 1) - 1 = p + q - 1 + i - 1
    BY <1>2, <1>3
  <2>. QED BY <1>3, <2>1
<1>. QED BY <1>1, <1>4, <1>5 DEF Holds

(* A sequence lies in itself.                                              *)
LEMMA HoldsItself ==
    ASSUME NEW b \in Seq(Slot)
    PROVE  Holds(b, 1, b)
<1>1. PICK n : n = Len(b)
  OBVIOUS
<1>2. n \in Nat
  BY <1>1, LenProperties
<1>3. 1 + n <= n + 1 /\ \A i \in 1..n : 1 + i - 1 = i
  BY <1>2
<1>4. \A i \in 1..n : b[1 + i - 1] = b[i]
  BY <1>3
<1>. QED BY <1>1, <1>3, <1>4 DEF Holds

-----------------------------------------------------------------------------
(* One object: what Coded writes is what cmp_read_object finds.            *)

(* Data are cells.                                                         *)
LEMMA DataIs ==
    ASSUME NEW s \in Seq(Int)
    PROVE  /\ Data(s) \in Seq(Slot) /\ Len(Data(s)) = Len(s)
           /\ \A i \in 1..Len(s) : Data(s)[i].val = s[i]
<1>1. PICK n \in Nat : n = Len(s)
  BY LenProperties
<1>2. DOMAIN s = 1..n /\ \A i \in 1..n : s[i] \in Int
  BY <1>1, LenProperties, ElementOfSeq
<1>3. PICK d : d = [i \in 1..n |-> [type |-> "data", val |-> s[i]]]
  OBVIOUS
<1>4. \A i \in 1..n : [type |-> "data", val |-> s[i]] \in Slot
  BY <1>2 DEF Slot
<1>5. d \in [1..n -> Slot] /\ \A i \in 1..n : d[i].val = s[i]
  BY <1>3, <1>4
<1>6. d \in Seq(Slot) /\ Len(d) = n
  BY <1>5, IsASeq
<1>7. Data(s) = d
  BY <1>2, <1>3, Zenon DEF Data
<1>. QED BY <1>1, <1>5, <1>6, <1>7

LEMMA CodedIs ==
    ASSUME NEW t \in Types, NEW v \in Int
    PROVE  /\ Coded(t, v) \in Seq(Slot) /\ Len(Coded(t, v)) = 1 + Width(t)
           /\ Width(t) \in 0..2 /\ Coded(t, v)[1] = [type |-> t, val |-> v]
<1>1. Width(t) \in 0..2
  BY DEF Types, Width
<1>2. PICK c : c = [type |-> t, val |-> v]
  OBVIOUS
<1>3. c \in Slot
  BY <1>2 DEF Slot
<1>4. <<c>> \in Seq(Slot) /\ Len(<<c>>) = 1 /\ <<c>>[1] = c
  BY <1>3
<1>5. PICK z : z = [i \in 1..Width(t) |-> 0]
  OBVIOUS
<1>6. z \in Seq(Int) /\ Len(z) = Width(t)
  <2>1. z \in [1..Width(t) -> Int]
    BY <1>5
  <2>. QED BY <1>1, <2>1, IsASeq
<1>7. Data(z) \in Seq(Slot) /\ Len(Data(z)) = Width(t)
  BY <1>6, DataIs
<1>8. Coded(t, v) = <<c>> \o Data(z)
  BY <1>2, <1>5 DEF Coded, Cell
<1>9. /\ <<c>> \o Data(z) \in Seq(Slot) /\ Len(<<c>> \o Data(z)) = 1 + Width(t)
      /\ \A i \in 1..1 : (<<c>> \o Data(z))[i] = <<c>>[i]
  BY <1>4, <1>7, CellsJoined
<1>10. (<<c>> \o Data(z))[1] = c
  BY <1>4, <1>9
<1>. QED BY <1>1, <1>2, <1>8, <1>9, <1>10

LEMMA ObjectIs ==
    ASSUME NEW b \in Seq(Slot), NEW p \in Nat \ {0}, NEW t \in Types, NEW v \in Int,
           Holds(b, p, Coded(t, v))
    PROVE  /\ cmp_read_object(b, p) = [type |-> t, val |-> v, next |-> p + Len(Coded(t, v))]
           /\ b[p].type = t /\ p <= Len(b)
<1>1. /\ Len(Coded(t, v)) = 1 + Width(t) /\ Width(t) \in 0..2
      /\ Coded(t, v)[1] = [type |-> t, val |-> v]
  BY CodedIs
<1>2. PICK l \in Nat : l = Len(b)
  BY LenProperties
<1>3. p + (1 + Width(t)) <= l + 1 /\ b[p + 1 - 1] = Coded(t, v)[1]
  BY <1>1, <1>2 DEF Holds
<1>4. p <= l /\ p + 1 - 1 = p
  BY <1>1, <1>2, <1>3
<1>5. b[p] = [type |-> t, val |-> v]
  BY <1>1, <1>3, <1>4
<1>6. t # "data"
  BY DEF Types
<1>7. ~(p > Len(b) \/ b[p].type = "data")
  BY <1>2, <1>4, <1>5, <1>6
<1>8. b[p].type = t /\ b[p].val = v
  BY <1>5
<1>9. p + 1 + Width(t) = p + (1 + Width(t))
  BY <1>1
<1>10. cmp_read_object(b, p) = [type |-> t, val |-> v, next |-> p + 1 + Width(t)]
  BY <1>7, <1>8, Zenon DEF cmp_read_object
<1>. QED BY <1>1, <1>2, <1>4, <1>8, <1>9, <1>10
-----------------------------------------------------------------------------
(* What the recursive functions of the coding are.                         *)

(* The numbers of an array are read one by one.                            *)
LEMMA NumbersReadDef ==
    ASSUME NEW b, NEW t, NEW p, NEW count \in Nat
    PROVE  /\ NumbersRead(b, t, p, count)[0] = [ok |-> TRUE, next |-> p, val |-> <<>>]
           /\ \A n \in 1..count : NumbersRead(b, t, p, count)[n] =
                                     ReadNumber(b, t, NumbersRead(b, t, p, count)[n - 1])
<1>1. PICK k \in Nat : k = count
  OBVIOUS
<1> DEFINE Base == [ok |-> TRUE, next |-> p, val |-> <<>>]
           GoOn(f, n) == ReadNumber(b, t, f[n - 1])
           Body(f) == [n \in 0..k |-> IF n = 0 THEN Base ELSE GoOn(f, n)]
           found == CHOOSE f : f = Body(f)
           Begins(f, m) == /\ f = [n \in 0..m |-> f[n]] /\ f[0] = Base
                           /\ \A n \in 1..m : f[n] = ReadNumber(b, t, f[n - 1])
           Ok == {m \in Nat : \E f : Begins(f, m)}
<1>2. NumbersRead(b, t, p, count) = found
  BY <1>1, Zenon DEF NumbersRead
<1>. HIDE DEF Base
<1>3. 0 \in Ok
  <2>1. PICK f : f = [n \in 0..0 |-> Base]
    OBVIOUS
  <2>2. Begins(f, 0)
    BY <2>1
  <2>. QED BY <2>2
<1>4. ASSUME NEW m \in Ok \cap Nat
      PROVE  m + 1 \in Ok
  <2>1. PICK f : Begins(f, m)
    OBVIOUS
  <2>2. PICK g : g = [n \in 0..m + 1 |-> IF n = m + 1 THEN ReadNumber(b, t, f[m]) ELSE f[n]]
    OBVIOUS
  <2>3. /\ g = [n \in 0..m + 1 |-> g[n]] /\ g[m + 1] = ReadNumber(b, t, f[m])
        /\ \A n \in 0..m : g[n] = f[n]
    BY <2>2
  <2>4. ASSUME NEW n \in 1..m + 1
        PROVE  g[n] = ReadNumber(b, t, g[n - 1])
    <3>1. CASE n = m + 1
      <4>1. n - 1 = m /\ m \in 0..m
        BY <3>1
      <4>. QED BY <2>3, <3>1, <4>1
    <3>2. CASE n # m + 1
      <4>1. n \in 1..m /\ n \in 0..m /\ n - 1 \in 0..m
        BY <3>2
      <4>2. f[n] = ReadNumber(b, t, f[n - 1])
        BY <2>1, <4>1
      <4>. QED BY <2>3, <4>1, <4>2
    <3>. QED BY <3>1, <3>2
  <2>5. g[0] = Base
    <3>1. 0 \in 0..m
      OBVIOUS
    <3>2. f[0] = Base
      BY <2>1
    <3>. QED BY <2>3, <3>1, <3>2
  <2>6. Begins(g, m + 1)
    BY <2>3, <2>4, <2>5
  <2>7. m + 1 \in Nat
    OBVIOUS
  <2>. HIDE DEF Begins
  <2>. QED BY <2>6, <2>7
<1>5. k \in Ok
  <2>. HIDE DEF Ok
  <2>. QED BY <1>1, <1>3, <1>4, NumbersInduction
<1>6. PICK f : Begins(f, k)
  BY <1>5
<1>7. f = Body(f)
  <2>1. \A n \in 0..k : n # 0 => n \in 1..k
    BY <1>1
  <2>2. \A n \in 0..k : f[n] = IF n = 0 THEN Base ELSE GoOn(f, n)
    BY <1>6, <2>1
  <2>. HIDE DEF GoOn
  <2>. QED BY <1>6, <2>2
<1>8. found = Body(found)
  <2>. HIDE DEF Body
  <2>. QED BY <1>7
<1>. HIDE DEF found
<1>9. found[0] = Base /\ \A n \in 1..k : found[n] = GoOn(found, n)
  <2>. HIDE DEF GoOn
  <2>. QED BY <1>1, <1>8
<1>. QED BY <1>1, <1>2, <1>9 DEF Base

(* The records of a file, as many as there are heads.                      *)
LEMMA RecordsUpToDef ==
    ASSUME NEW d, Heads(d) \in Nat
    PROVE  /\ RecordsUpTo(d)[0] = [next |-> 1, records |-> <<>>]
           /\ \A n \in 1..Heads(d) : RecordsUpTo(d)[n] = NextRecord(d, RecordsUpTo(d)[n - 1])
<1>1. PICK k \in Nat, b \in {d} : k = Heads(d) /\ b = d
  OBVIOUS
<1> DEFINE Base == [next |-> 1, records |-> <<>>]
           GoOn(f, n) == NextRecord(b, f[n - 1])
           Body(f) == [n \in 0..k |-> IF n = 0 THEN Base ELSE GoOn(f, n)]
           found == CHOOSE f : f = Body(f)
           Begins(f, m) == /\ f = [n \in 0..m |-> f[n]] /\ f[0] = Base
                           /\ \A n \in 1..m : f[n] = NextRecord(b, f[n - 1])
           Ok == {m \in Nat : \E f : Begins(f, m)}
<1>2. RecordsUpTo(d) = found
  BY <1>1, Zenon DEF RecordsUpTo
<1>. HIDE DEF Base
<1>3. 0 \in Ok
  <2>1. PICK f : f = [n \in 0..0 |-> Base]
    OBVIOUS
  <2>2. Begins(f, 0)
    BY <2>1
  <2>. QED BY <2>2
<1>4. ASSUME NEW m \in Ok \cap Nat
      PROVE  m + 1 \in Ok
  <2>1. PICK f : Begins(f, m)
    OBVIOUS
  <2>2. PICK g : g = [n \in 0..m + 1 |-> IF n = m + 1 THEN NextRecord(b, f[m]) ELSE f[n]]
    OBVIOUS
  <2>3. /\ g = [n \in 0..m + 1 |-> g[n]] /\ g[m + 1] = NextRecord(b, f[m])
        /\ \A n \in 0..m : g[n] = f[n]
    BY <2>2
  <2>4. ASSUME NEW n \in 1..m + 1
        PROVE  g[n] = NextRecord(b, g[n - 1])
    <3>1. CASE n = m + 1
      <4>1. n - 1 = m /\ m \in 0..m
        BY <3>1
      <4>. QED BY <2>3, <3>1, <4>1
    <3>2. CASE n # m + 1
      <4>1. n \in 1..m /\ n \in 0..m /\ n - 1 \in 0..m
        BY <3>2
      <4>2. f[n] = NextRecord(b, f[n - 1])
        BY <2>1, <4>1
      <4>. QED BY <2>3, <4>1, <4>2
    <3>. QED BY <3>1, <3>2
  <2>5. g[0] = Base
    <3>1. 0 \in 0..m
      OBVIOUS
    <3>2. f[0] = Base
      BY <2>1
    <3>. QED BY <2>3, <3>1, <3>2
  <2>6. Begins(g, m + 1)
    BY <2>3, <2>4, <2>5
  <2>7. m + 1 \in Nat
    OBVIOUS
  <2>. HIDE DEF Begins
  <2>. QED BY <2>6, <2>7
<1>5. k \in Ok
  <2>. HIDE DEF Ok
  <2>. QED BY <1>1, <1>3, <1>4, NumbersInduction
<1>6. PICK f : Begins(f, k)
  BY <1>5
<1>7. f = Body(f)
  <2>1. \A n \in 0..k : n # 0 => n \in 1..k
    BY <1>1
  <2>2. \A n \in 0..k : f[n] = IF n = 0 THEN Base ELSE GoOn(f, n)
    BY <1>6, <2>1
  <2>. HIDE DEF GoOn
  <2>. QED BY <1>6, <2>2
<1>8. found = Body(found)
  <2>. HIDE DEF Body
  <2>. QED BY <1>7
<1>. HIDE DEF found
<1>9. found[0] = Base /\ \A n \in 1..k : found[n] = GoOn(found, n)
  <2>. HIDE DEF GoOn
  <2>. QED BY <1>1, <1>8
<1>. QED BY <1>1, <1>2, <1>9 DEF Base

(* The rows of a list, as many as there are heads.                         *)
LEMMA RowsUpToDef ==
    ASSUME NEW b, Heads(b) \in Nat
    PROVE  /\ RowsUpTo(b)[0] = [next |-> 1, list |-> <<>>]
           /\ \A n \in 1..Heads(b) : RowsUpTo(b)[n] = NextRow(b, RowsUpTo(b)[n - 1])
<1>1. PICK k \in Nat : k = Heads(b)
  OBVIOUS
<1> DEFINE Base == [next |-> 1, list |-> <<>>]
           GoOn(f, n) == NextRow(b, f[n - 1])
           Body(f) == [n \in 0..k |-> IF n = 0 THEN Base ELSE GoOn(f, n)]
           found == CHOOSE f : f = Body(f)
           Begins(f, m) == /\ f = [n \in 0..m |-> f[n]] /\ f[0] = Base
                           /\ \A n \in 1..m : f[n] = NextRow(b, f[n - 1])
           Ok == {m \in Nat : \E f : Begins(f, m)}
<1>2. RowsUpTo(b) = found
  BY <1>1, Zenon DEF RowsUpTo
<1>. HIDE DEF Base
<1>3. 0 \in Ok
  <2>1. PICK f : f = [n \in 0..0 |-> Base]
    OBVIOUS
  <2>2. Begins(f, 0)
    BY <2>1
  <2>. QED BY <2>2
<1>4. ASSUME NEW m \in Ok \cap Nat
      PROVE  m + 1 \in Ok
  <2>1. PICK f : Begins(f, m)
    OBVIOUS
  <2>2. PICK g : g = [n \in 0..m + 1 |-> IF n = m + 1 THEN NextRow(b, f[m]) ELSE f[n]]
    OBVIOUS
  <2>3. /\ g = [n \in 0..m + 1 |-> g[n]] /\ g[m + 1] = NextRow(b, f[m])
        /\ \A n \in 0..m : g[n] = f[n]
    BY <2>2
  <2>4. ASSUME NEW n \in 1..m + 1
        PROVE  g[n] = NextRow(b, g[n - 1])
    <3>1. CASE n = m + 1
      <4>1. n - 1 = m /\ m \in 0..m
        BY <3>1
      <4>. QED BY <2>3, <3>1, <4>1
    <3>2. CASE n # m + 1
      <4>1. n \in 1..m /\ n \in 0..m /\ n - 1 \in 0..m
        BY <3>2
      <4>2. f[n] = NextRow(b, f[n - 1])
        BY <2>1, <4>1
      <4>. QED BY <2>3, <4>1, <4>2
    <3>. QED BY <3>1, <3>2
  <2>5. g[0] = Base
    <3>1. 0 \in 0..m
      OBVIOUS
    <3>2. f[0] = Base
      BY <2>1
    <3>. QED BY <2>3, <3>1, <3>2
  <2>6. Begins(g, m + 1)
    BY <2>3, <2>4, <2>5
  <2>7. m + 1 \in Nat
    OBVIOUS
  <2>. HIDE DEF Begins
  <2>. QED BY <2>6, <2>7
<1>5. k \in Ok
  <2>. HIDE DEF Ok
  <2>. QED BY <1>1, <1>3, <1>4, NumbersInduction
<1>6. PICK f : Begins(f, k)
  BY <1>5
<1>7. f = Body(f)
  <2>1. \A n \in 0..k : n # 0 => n \in 1..k
    BY <1>1
  <2>2. \A n \in 0..k : f[n] = IF n = 0 THEN Base ELSE GoOn(f, n)
    BY <1>6, <2>1
  <2>. HIDE DEF GoOn
  <2>. QED BY <1>6, <2>2
<1>8. found = Body(found)
  <2>. HIDE DEF Body
  <2>. QED BY <1>7
<1>. HIDE DEF found
<1>9. found[0] = Base /\ \A n \in 1..k : found[n] = GoOn(found, n)
  <2>. HIDE DEF GoOn
  <2>. QED BY <1>1, <1>8
<1>. QED BY <1>1, <1>2, <1>9 DEF Base

(* The records a removal copies, one by one.                               *)
NextKept(records, ids, s, n) ==
    IF s.i <= Len(ids) /\ ids[s.i] = n - 1
    THEN [s EXCEPT !.i = @ + 1]
    ELSE [s EXCEPT !.kept = Append(@, records[n])]
LEMMA KeptUpToDef ==
    ASSUME NEW records, NEW ids, Len(records) \in Nat
    PROVE  /\ KeptUpTo(records, ids)[0] = [i |-> 1, kept |-> <<>>]
           /\ \A n \in 1..Len(records) :
                 KeptUpTo(records, ids)[n] =
                     NextKept(records, ids, KeptUpTo(records, ids)[n - 1], n)
<1>1. PICK k \in Nat : k = Len(records)
  OBVIOUS
<1> DEFINE Base == [i |-> 1, kept |-> <<>>]
           GoOn(f, n) == NextKept(records, ids, f[n - 1], n)
           Body(f) == [n \in 0..k |-> IF n = 0 THEN Base ELSE GoOn(f, n)]
           found == CHOOSE f : f = Body(f)
           Begins(f, m) == /\ f = [n \in 0..m |-> f[n]] /\ f[0] = Base
                           /\ \A n \in 1..m : f[n] = NextKept(records, ids, f[n - 1], n)
           Ok == {m \in Nat : \E f : Begins(f, m)}
<1>2. KeptUpTo(records, ids) = found
  BY <1>1, Zenon DEF KeptUpTo, NextKept
<1>. HIDE DEF Base
<1>3. 0 \in Ok
  <2>1. PICK f : f = [n \in 0..0 |-> Base]
    OBVIOUS
  <2>2. Begins(f, 0)
    BY <2>1
  <2>. QED BY <2>2
<1>4. ASSUME NEW m \in Ok \cap Nat
      PROVE  m + 1 \in Ok
  <2>1. PICK f : Begins(f, m)
    OBVIOUS
  <2>2. PICK g : g = [n \in 0..m + 1 |->
                         IF n = m + 1 THEN NextKept(records, ids, f[m], m + 1) ELSE f[n]]
    OBVIOUS
  <2>3. /\ g = [n \in 0..m + 1 |-> g[n]] /\ g[m + 1] = NextKept(records, ids, f[m], m + 1)
        /\ \A n \in 0..m : g[n] = f[n]
    BY <2>2
  <2>4. ASSUME NEW n \in 1..m + 1
        PROVE  g[n] = NextKept(records, ids, g[n - 1], n)
    <3>1. CASE n = m + 1
      <4>1. n - 1 = m /\ m \in 0..m
        BY <3>1
      <4>. QED BY <2>3, <3>1, <4>1
    <3>2. CASE n # m + 1
      <4>1. n \in 1..m /\ n \in 0..m /\ n - 1 \in 0..m
        BY <3>2
      <4>2. f[n] = NextKept(records, ids, f[n - 1], n)
        BY <2>1, <4>1
      <4>. QED BY <2>3, <4>1, <4>2
    <3>. QED BY <3>1, <3>2
  <2>5. g[0] = Base
    <3>1. 0 \in 0..m
      OBVIOUS
    <3>2. f[0] = Base
      BY <2>1
    <3>. QED BY <2>3, <3>1, <3>2
  <2>6. Begins(g, m + 1)
    BY <2>3, <2>4, <2>5
  <2>7. m + 1 \in Nat
    OBVIOUS
  <2>. HIDE DEF Begins
  <2>. QED BY <2>6, <2>7
<1>5. k \in Ok
  <2>. HIDE DEF Ok
  <2>. QED BY <1>1, <1>3, <1>4, NumbersInduction
<1>6. PICK f : Begins(f, k)
  BY <1>5
<1>7. f = Body(f)
  <2>1. \A n \in 0..k : n # 0 => n \in 1..k
    BY <1>1
  <2>2. \A n \in 0..k : f[n] = IF n = 0 THEN Base ELSE GoOn(f, n)
    BY <1>6, <2>1
  <2>. HIDE DEF GoOn
  <2>. QED BY <1>6, <2>2
<1>8. found = Body(found)
  <2>. HIDE DEF Body
  <2>. QED BY <1>7
<1>. HIDE DEF found
<1>9. found[0] = Base /\ \A n \in 1..k : found[n] = GoOn(found, n)
  <2>. HIDE DEF GoOn
  <2>. QED BY <1>1, <1>8
<1>. QED BY <1>1, <1>2, <1>9 DEF Base

(* A list of runs laid out one behind the other.                           *)
Pieces(seqs, s, n) == s \o seqs[n]
LEMMA FlattenDef ==
    ASSUME NEW seqs, Len(seqs) \in Nat \ {0}
    PROVE  \E g : /\ g[1] = seqs[1] /\ FlattenSeq(seqs) = g[Len(seqs)]
                  /\ \A n \in 2..Len(seqs) : g[n] = g[n - 1] \o seqs[n]
<1>1. PICK k \in Nat \ {0} : k = Len(seqs)
  OBVIOUS
<1> DEFINE Body(f) == [i \in 1..k |-> IF i = 1 THEN seqs[i] ELSE Pieces(seqs, f[i - 1], i)]
           found == CHOOSE f : f = Body(f)
           Begins(f, m) == /\ f = [n \in 1..m + 1 |-> f[n]] /\ f[1] = seqs[1]
                           /\ \A n \in 2..m + 1 : f[n] = Pieces(seqs, f[n - 1], n)
           Ok == {m \in Nat : \E f : Begins(f, m)}
<1>2. FlattenSeq(seqs) = found[k]
  <2>1. Len(seqs) # 0
    BY <1>1
  <2>. QED BY <1>1, <2>1, Zenon DEF FlattenSeq, Pieces
<1>3. 0 \in Ok
  <2>1. PICK f : f = [n \in 1..0 + 1 |-> seqs[1]]
    OBVIOUS
  <2>2. f = [n \in 1..0 + 1 |-> f[n]] /\ f[1] = seqs[1]
    BY <2>1
  <2>3. Begins(f, 0)
    BY <2>2
  <2>. QED BY <2>3
<1>4. ASSUME NEW m \in Ok \cap Nat
      PROVE  m + 1 \in Ok
  <2>1. PICK f : Begins(f, m)
    OBVIOUS
  <2>2. PICK g : g = [n \in 1..m + 2 |-> IF n = m + 2 THEN Pieces(seqs, f[m + 1], m + 2)
                                         ELSE f[n]]
    OBVIOUS
  <2>3. /\ g = [n \in 1..m + 2 |-> g[n]] /\ g[m + 2] = Pieces(seqs, f[m + 1], m + 2)
        /\ \A n \in 1..m + 1 : g[n] = f[n]
    BY <2>2
  <2>4. ASSUME NEW n \in 2..m + 2
        PROVE  g[n] = Pieces(seqs, g[n - 1], n)
    <3>1. CASE n = m + 2
      <4>1. n - 1 = m + 1 /\ m + 1 \in 1..m + 1
        BY <3>1
      <4>. QED BY <2>3, <3>1, <4>1
    <3>2. CASE n # m + 2
      <4>1. n \in 2..m + 1 /\ n \in 1..m + 1 /\ n - 1 \in 1..m + 1
        BY <3>2
      <4>2. f[n] = Pieces(seqs, f[n - 1], n)
        BY <2>1, <4>1
      <4>. QED BY <2>3, <4>1, <4>2
    <3>. QED BY <3>1, <3>2
  <2>5. g[1] = seqs[1]
    <3>1. 1 \in 1..m + 1
      OBVIOUS
    <3>2. f[1] = seqs[1]
      BY <2>1
    <3>. QED BY <2>3, <3>1, <3>2
  <2>6. Begins(g, m + 1)
    <3>1. (m + 1) + 1 = m + 2
      OBVIOUS
    <3>. QED BY <2>3, <2>4, <2>5, <3>1
  <2>7. m + 1 \in Nat
    OBVIOUS
  <2>. HIDE DEF Begins
  <2>. QED BY <2>6, <2>7
<1>5. k - 1 \in Ok /\ (k - 1) + 1 = k
  <2>1. k - 1 \in Nat /\ (k - 1) + 1 = k
    BY <1>1
  <2>. HIDE DEF Ok
  <2>. QED BY <1>3, <1>4, <2>1, NumbersInduction
<1>6. PICK f : f = [n \in 1..k |-> f[n]] /\ f[1] = seqs[1]
               /\ \A n \in 2..k : f[n] = Pieces(seqs, f[n - 1], n)
  BY <1>5
<1>7. f = Body(f)
  <2>1. \A n \in 1..k : n # 1 => n \in 2..k
    BY <1>1
  <2>2. \A n \in 1..k : f[n] = IF n = 1 THEN seqs[n] ELSE Pieces(seqs, f[n - 1], n)
    BY <1>6, <2>1
  <2>. QED BY <1>6, <2>2
<1>8. found = Body(found)
  <2>. HIDE DEF Body
  <2>. QED BY <1>7
<1>. HIDE DEF found
<1>9. found[1] = seqs[1] /\ \A n \in 2..k : found[n] = Pieces(seqs, found[n - 1], n)
  BY <1>1, <1>8
<1>. QED BY <1>1, <1>2, <1>9 DEF Pieces
-----------------------------------------------------------------------------
(* Runs of cells that lie one behind the other.                            *)
Places(f, l, at) ==
    /\ at \in [1..Len(l) + 1 -> Nat \ {0}] /\ at[1] = 1 /\ at[Len(l) + 1] = Len(f) + 1
    /\ \A i \in 1..Len(l) : Holds(f, at[i], l[i]) /\ at[i + 1] = at[i] + Len(l[i])

(* A sequence with one element more.                                       *)
LEMMA CutAppend ==
    ASSUME NEW f, NEW n \in Nat
    PROVE  Append([i \in 1..n |-> f[i]], f[n + 1]) = [i \in 1..n + 1 |-> f[i]]
<1> DEFINE S == {f[i] : i \in 1..n + 1}
           s == [i \in 1..n |-> f[i]]
           t == [i \in 1..n + 1 |-> f[i]]
<1>1. s \in [1..n -> S] /\ t \in [1..n + 1 -> S] /\ f[n + 1] \in S
  BY n + 1 \in 1..n + 1
<1>2. (\A i \in 1..n : s[i] = f[i]) /\ \A i \in 1..n + 1 : t[i] = f[i]
  OBVIOUS
<1>. HIDE DEF S, s, t
<1>3. s \in Seq(S) /\ Len(s) = n /\ t \in Seq(S) /\ Len(t) = n + 1
  BY <1>1
<1>4. PICK w : w = Append(s, f[n + 1])
  OBVIOUS
<1>5. /\ w \in Seq(S) /\ Len(w) = n + 1 /\ w[n + 1] = f[n + 1]
      /\ \A i \in 1..n : w[i] = s[i]
  BY <1>1, <1>3, <1>4, AppendProperties
<1>6. \A i \in 1..n + 1 : w[i] = t[i]
  <2>1. \A i \in 1..n + 1 : i \in 1..n \/ i = n + 1
    OBVIOUS
  <2>. QED BY <1>2, <1>5, <2>1
<1>7. w = t
  BY <1>3, <1>5, <1>6, SeqEqual
<1>. QED BY <1>4, <1>7 DEF s, t


(* Behind the runs there is room for one more.                             *)
LEMMA PlacesAppend ==
    ASSUME NEW f \in Seq(Slot), NEW l \in Seq(Seq(Slot)), NEW at, Places(f, l, at),
           NEW x \in Seq(Slot)
    PROVE  \E a : Places(f \o x, Append(l, x), a)
<1>1. PICK n, m, k, g, w : n = Len(l) /\ m = Len(f) /\ k = Len(x) /\ g = f \o x /\ w = Append(l, x)
  OBVIOUS
<1>2. n \in Nat /\ m \in Nat /\ k \in Nat
  BY <1>1, LenProperties
<1>3. /\ at \in [1..n + 1 -> Nat \ {0}] /\ at[1] = 1 /\ at[n + 1] = m + 1
      /\ \A i \in 1..n : Holds(f, at[i], l[i]) /\ at[i + 1] = at[i] + Len(l[i])
  BY <1>1 DEF Places
<1>4. /\ g \in Seq(Slot) /\ Len(g) = m + k
      /\ \A i \in 1..m : g[i] = f[i]
      /\ \A i \in 1..k : g[m + i] = x[i]
  BY <1>1, CellsJoined
<1>5. Len(w) = n + 1 /\ w[n + 1] = x /\ \A i \in 1..n : w[i] = l[i]
  BY <1>1, AppendProperties
<1>6. PICK a : a = [i \in 1..n + 2 |-> IF i = n + 2 THEN m + k + 1 ELSE at[i]]
  OBVIOUS
<1>7. a[n + 2] = m + k + 1 /\ \A i \in 1..n + 1 : a[i] = at[i]
  BY <1>2, <1>6
<1>8. a \in [1..n + 2 -> Nat \ {0}]
  <2>1. \A i \in 1..n + 2 : i # n + 2 => i \in 1..n + 1
    BY <1>2
  <2>2. \A i \in 1..n + 2 : (IF i = n + 2 THEN m + k + 1 ELSE at[i]) \in Nat \ {0}
    BY <1>2, <1>3, <2>1
  <2>. QED BY <1>6, <2>2
<1>9. ASSUME NEW i \in 1..n
      PROVE  Holds(g, a[i], w[i]) /\ a[i + 1] = a[i] + Len(w[i])
  <2>1. i \in 1..n + 1 /\ i + 1 \in 1..n + 1
    BY <1>2
  <2>2. a[i] = at[i] /\ a[i + 1] = at[i + 1] /\ w[i] = l[i]
    BY <1>5, <1>7, <2>1
  <2>3. Holds(f, at[i], l[i]) /\ at[i + 1] = at[i] + Len(l[i])
    BY <1>3
  <2>4. PICK p, s, c : p = at[i] /\ s = l[i] /\ c = Len(l[i])
    OBVIOUS
  <2>5. p \in Nat \ {0} /\ c \in Nat
    <3>1. l[i] \in Seq(Slot)
      BY <1>1, ElementOfSeq
    <3>. QED BY <1>3, <2>1, <2>4, <3>1, LenProperties
  <2>6. p + c <= m + 1 /\ \A j \in 1..c : f[p + j - 1] = s[j]
    BY <1>1, <2>3, <2>4 DEF Holds
  <2>7. \A j \in 1..c : p + j - 1 \in 1..m
    BY <1>2, <2>5, <2>6
  <2>8. \A j \in 1..c : g[p + j - 1] = s[j]
    BY <1>4, <2>6, <2>7
  <2>9. p + c <= (m + k) + 1
    BY <1>2, <2>5, <2>6
  <2>10. Holds(g, p, s)
    BY <1>4, <2>4, <2>8, <2>9 DEF Holds
  <2>. QED BY <2>2, <2>3, <2>4, <2>10
<1>10. Holds(g, a[n + 1], w[n + 1]) /\ a[(n + 1) + 1] = a[n + 1] + Len(w[n + 1])
  <2>1. n + 1 \in 1..n + 1 /\ (n + 1) + 1 = n + 2
    BY <1>2
  <2>2. a[n + 1] = m + 1 /\ w[n + 1] = x
    BY <1>3, <1>5, <1>7, <2>1
  <2>3. a[(n + 1) + 1] = a[n + 1] + Len(w[n + 1])
    BY <1>1, <1>2, <1>7, <2>1, <2>2
  <2>4. \A j \in 1..k : (m + 1) + j - 1 = m + j
    BY <1>2
  <2>5. \A j \in 1..k : g[(m + 1) + j - 1] = x[j]
    BY <1>4, <2>4
  <2>6. (m + 1) + k <= (m + k) + 1
    BY <1>2
  <2>7. Holds(g, m + 1, x)
    BY <1>1, <1>4, <2>5, <2>6 DEF Holds
  <2>. QED BY <2>2, <2>3, <2>7
<1>11. Places(g, w, a)
  <2>1. Len(w) + 1 = n + 2 /\ 1 \in 1..n + 1 /\ (m + k) + 1 = m + k + 1
    BY <1>2, <1>5
  <2>2. a[1] = 1 /\ a[n + 2] = Len(g) + 1
    BY <1>3, <1>4, <1>7, <2>1
  <2>3. \A i \in 1..n + 1 : i \in 1..n \/ i = n + 1
    BY <1>2
  <2>4. \A i \in 1..n + 1 : Holds(g, a[i], w[i]) /\ a[i + 1] = a[i] + Len(w[i])
    BY <1>9, <1>10, <2>3
  <2>. QED BY <1>5, <1>8, <2>1, <2>2, <2>4 DEF Places
<1>. QED BY <1>1, <1>11

(* Nothing lies in the empty run.                                          *)
LEMMA PlacesNone == Places(<<>>, <<>>, [i \in 1..1 |-> 1])
<1>1. Len(<<>>) = 0
  OBVIOUS
<1>2. [i \in 1..1 |-> 1] \in [1..0 + 1 -> Nat \ {0}] /\ [i \in 1..1 |-> 1][1] = 1
  OBVIOUS
<1>. QED BY <1>1, <1>2 DEF Places

(* A flattened list.                                                       *)
LEMMA FlattenPlaces ==
    ASSUME NEW l \in Seq(Seq(Slot))
    PROVE  FlattenSeq(l) \in Seq(Slot) /\ \E at : Places(FlattenSeq(l), l, at)
<1>1. PICK n \in Nat : n = Len(l)
  BY LenProperties
<1>2. l = [i \in 1..n |-> l[i]]
  BY <1>1
<1>3. CASE n = 0
  <2>1. l = <<>>
    BY <1>1, <1>3, EmptySeq
  <2>2. FlattenSeq(l) = l
    BY <1>1, <1>3 DEF FlattenSeq
  <2>3. <<>> \in Seq(Slot)
    BY EmptySeq
  <2>. QED BY <2>1, <2>2, <2>3, PlacesNone
<1>4. CASE n # 0
  <2>1. PICK g : g[1] = l[1] /\ FlattenSeq(l) = g[n] /\ \A k \in 2..n : g[k] = g[k - 1] \o l[k]
    BY <1>1, <1>4, FlattenDef
  <2> DEFINE Cut(k) == [i \in 1..k |-> l[i]]
             Lying(k) == g[k] \in Seq(Slot) /\ \E at : Places(g[k], Cut(k), at)
             Ok == {k \in Nat : k + 1 <= n => Lying(k + 1)}
  <2>2. \A k \in 1..n : l[k] \in Seq(Slot)
    BY <1>1, ElementOfSeq
  <2>3. \A k \in 0..n : Cut(k) \in Seq(Seq(Slot)) /\ Len(Cut(k)) = k
    <3>1. \A k \in 0..n : \A i \in 1..k : i \in 1..n
      BY <1>1
    <3>2. \A k \in 0..n : Cut(k) \in [1..k -> Seq(Slot)] /\ k \in Nat
      BY <2>2, <3>1
    <3>. HIDE DEF Cut
    <3>. QED BY <3>2, IsASeq
  <2>4. ASSUME NEW k \in 0..n - 1
        PROVE  Append(Cut(k), l[k + 1]) = Cut(k + 1)
    BY CutAppend
  <2>5. 0 \in Ok
    <3>1. 0 \in 0..n - 1 /\ 1 \in 1..n /\ 0 + 1 = 1
      BY <1>1, <1>4
    <3>2. Cut(0) = <<>>
      <4>1. Cut(0) \in Seq(Seq(Slot)) /\ Len(Cut(0)) = 0
        <5>1. 0 \in 0..n
          BY <1>1
        <5>. HIDE DEF Cut
        <5>. QED BY <2>3, <5>1
      <4>. HIDE DEF Cut
      <4>. QED BY <4>1, EmptySeq
    <3>3. Append(<<>>, l[1]) = Cut(1)
      <4>. HIDE DEF Cut
      <4>. QED BY <2>4, <3>1, <3>2
    <3>4. <<>> \in Seq(Slot) /\ <<>> \in Seq(Seq(Slot)) /\ l[1] \in Seq(Slot)
      BY <2>2, <3>1, EmptySeq
    <3>5. \E at : Places(<<>> \o l[1], Append(<<>>, l[1]), at)
      BY <3>4, PlacesNone, PlacesAppend
    <3>6. <<>> \o l[1] = l[1]
      BY <3>4, ConcatEmptySeq
    <3>. HIDE DEF Cut
    <3>. QED BY <2>1, <3>1, <3>3, <3>4, <3>5, <3>6
  <2>6. ASSUME NEW k \in Ok \cap Nat
        PROVE  k + 1 \in Ok
    <3>. HIDE DEF Lying
    <3>. SUFFICES ASSUME (k + 1) + 1 <= n
                  PROVE  Lying((k + 1) + 1)
      OBVIOUS
    <3>. HIDE DEF Cut
    <3>1. k + 1 <= n /\ (k + 1) + 1 \in 2..n /\ ((k + 1) + 1) - 1 = k + 1
          /\ k + 1 \in 0..n - 1 /\ k + 1 \in 0..n /\ (k + 1) + 1 \in 1..n
      BY <1>1
    <3>2. g[k + 1] \in Seq(Slot) /\ \E at : Places(g[k + 1], Cut(k + 1), at)
      BY <3>1 DEF Lying
    <3>3. g[(k + 1) + 1] = g[k + 1] \o l[(k + 1) + 1]
      BY <2>1, <3>1
    <3>4. l[(k + 1) + 1] \in Seq(Slot) /\ Cut(k + 1) \in Seq(Seq(Slot))
      BY <2>2, <2>3, <3>1
    <3>5. Append(Cut(k + 1), l[(k + 1) + 1]) = Cut((k + 1) + 1)
      BY <2>4, <3>1
    <3>6. g[k + 1] \o l[(k + 1) + 1] \in Seq(Slot)
      BY <3>2, <3>4, CellsJoined
    <3>7. \E a : Places(g[k + 1] \o l[(k + 1) + 1], Append(Cut(k + 1), l[(k + 1) + 1]), a)
      BY <3>2, <3>4, PlacesAppend
    <3>. QED BY <3>3, <3>5, <3>6, <3>7 DEF Lying
  <2>7. Nat \subseteq Ok
    <3>. HIDE DEF Ok
    <3>. QED BY <2>5, <2>6, NumbersInduction
  <2>8. n - 1 \in Nat /\ (n - 1) + 1 = n /\ n <= n
    BY <1>1, <1>4
  <2>9. g[n] \in Seq(Slot) /\ \E at : Places(g[n], Cut(n), at)
    <3>1. n - 1 \in Ok
      <4>. HIDE DEF Ok
      <4>. QED BY <2>7, <2>8
    <3>. HIDE DEF Cut
    <3>. QED BY <2>8, <3>1
  <2>. QED BY <1>2, <2>1, <2>9
<1>. QED BY <1>3, <1>4
-----------------------------------------------------------------------------
(* What WriteArray and cp_encodeString write is what ReadPart returns.     *)

(* The head and the numbers of an array.                                   *)
Numbered(h, l, t, size, seq) ==
    /\ h \in {"fixarray", "array16"} /\ l \in Seq(Seq(Slot))
    /\ Len(l) = Len(seq) /\ \A i \in 1..Len(seq) : l[i] = Coded(t, seq[i])
    /\ WriteArray(t, size, seq) = Coded(h, size) \o FlattenSeq(l)
    /\ Coded(h, size) \in Seq(Slot) /\ FlattenSeq(l) \in Seq(Slot)
    /\ WriteArray(t, size, seq) \in Seq(Slot)

LEMMA ArrayCells ==
    ASSUME NEW t \in {"u16", "u8", "s8"}, NEW size \in Nat, NEW seq \in Seq(Int)
    PROVE  \E h, l : Numbered(h, l, t, size, seq)
<1>1. PICK n \in Nat : n = Len(seq)
  BY LenProperties
<1>2. DOMAIN seq = 1..n /\ \A i \in 1..n : seq[i] \in Int
  BY <1>1, LenProperties, ElementOfSeq
<1>3. PICK l : l = [i \in 1..n |-> Coded(t, seq[i])]
  OBVIOUS
<1>4. t \in Types
  BY DEF Types
<1>5. \A i \in 1..n : Coded(t, seq[i]) \in Seq(Slot)
  BY <1>2, <1>4, CodedIs
<1>6. l \in Seq(Seq(Slot)) /\ Len(l) = n /\ \A i \in 1..n : l[i] = Coded(t, seq[i])
  <2>1. l \in [1..n -> Seq(Slot)]
    BY <1>3, <1>5
  <2>. QED BY <1>3, <2>1, IsASeq
<1>7. PICK h : h = IF size <= 15 THEN "fixarray" ELSE "array16"
  OBVIOUS
<1>8. h \in {"fixarray", "array16"} /\ h \in Types
  BY <1>7 DEF Types
<1>9. WriteArray(t, size, seq) = Coded(h, size) \o FlattenSeq(l)
  BY <1>2, <1>3, <1>7, Zenon DEF WriteArray
<1>10. Coded(h, size) \in Seq(Slot) /\ FlattenSeq(l) \in Seq(Slot)
  <2>1. size \in Int
    OBVIOUS
  <2>2. Coded(h, size) \in Seq(Slot)
    BY <1>8, <2>1, CodedIs
  <2>3. FlattenSeq(l) \in Seq(Slot)
    BY <1>6, FlattenPlaces
  <2>. QED BY <2>2, <2>3
<1>11. WriteArray(t, size, seq) \in Seq(Slot)
  BY <1>9, <1>10, CellsJoined
<1>12. Numbered(h, l, t, size, seq)
  BY <1>1, <1>6, <1>8, <1>9, <1>10, <1>11 DEF Numbered
<1>. QED BY <1>12

LEMMA ArrayIs ==
    ASSUME NEW b \in Seq(Slot), NEW p \in Nat \ {0}, NEW t \in {"u16", "u8", "s8"},
           NEW size \in Nat, NEW seq \in Seq(Int), size \div Size(t) = Len(seq),
           Holds(b, p, WriteArray(t, size, seq)), NEW room
    PROVE  ReadPart(b, t, room, p)
               = [ok |-> TRUE, next |-> p + Len(WriteArray(t, size, seq)), val |-> seq]
<1>0. PICK h, l : Numbered(h, l, t, size, seq)
  BY ArrayCells
<1>1. /\ h \in {"fixarray", "array16"} /\ l \in Seq(Seq(Slot))
      /\ Len(l) = Len(seq) /\ \A i \in 1..Len(seq) : l[i] = Coded(t, seq[i])
      /\ WriteArray(t, size, seq) = Coded(h, size) \o FlattenSeq(l)
      /\ Coded(h, size) \in Seq(Slot) /\ FlattenSeq(l) \in Seq(Slot)
  BY <1>0 DEF Numbered
<1>2. PICK c, F, n, q, m, w :
        /\ w = WriteArray(t, size, seq) /\ w = c \o F
        /\ c \in Seq(Slot) /\ F \in Seq(Slot)
        /\ c = Coded(h, size) /\ F = FlattenSeq(l) /\ n = Len(seq) /\ q = p + Len(c) /\ m = Len(F)
  BY <1>1
<1>3. n \in Nat /\ m \in Nat /\ Len(c) \in Nat /\ Len(w) = Len(c) + m
  <2>1. Len(c \o F) = Len(c) + Len(F) /\ Len(c) \in Nat /\ Len(F) \in Nat
    BY <1>1, <1>2, CellsJoined
  <2>. QED BY <1>1, <1>2, <2>1, LenProperties
<1>4. Holds(b, p, c) /\ Holds(b, q, F)
  BY <1>1, <1>2, HoldsJoined
<1>5. h \in Types /\ t \in Types /\ t # "string"
  BY <1>1 DEF Types
<1>6. cmp_read_object(b, p) = [type |-> h, val |-> size, next |-> q]
  BY <1>2, <1>4, <1>5, ObjectIs
<1>7. PICK at : Places(F, l, at)
  BY <1>1, <1>2, FlattenPlaces
<1>8. /\ at \in [1..n + 1 -> Nat \ {0}] /\ at[1] = 1 /\ at[n + 1] = m + 1
      /\ \A i \in 1..n : Holds(F, at[i], Coded(t, seq[i]))
      /\ \A i \in 1..n : at[i + 1] = at[i] + Len(Coded(t, seq[i]))
  <2>1. /\ at \in [1..Len(l) + 1 -> Nat \ {0}] /\ at[1] = 1 /\ at[Len(l) + 1] = Len(F) + 1
        /\ \A i \in 1..Len(l) : Holds(F, at[i], l[i]) /\ at[i + 1] = at[i] + Len(l[i])
    BY Zenon, <1>7 DEF Places
  <2>2. Len(l) = n /\ Len(F) = m /\ \A i \in 1..n : l[i] = Coded(t, seq[i])
    BY Zenon, <1>1, <1>2
  <2>. QED BY Zenon, <2>1, <2>2
<1>9. q \in Nat \ {0}
  BY <1>2, <1>3
<1>10. ASSUME NEW i \in 1..n
       PROVE  cmp_read_object(b, q + at[i] - 1)
                  = [type |-> t, val |-> seq[i], next |-> q + at[i + 1] - 1]
  <2>1. i \in 1..n + 1 /\ i + 1 \in 1..n + 1 /\ seq[i] \in Int
    BY <1>2, <1>3, ElementOfSeq
  <2>2. PICK a \in Nat \ {0}, z \in {Coded(t, seq[i])} : a = at[i] /\ z = Coded(t, seq[i])
    BY <1>8, <2>1
  <2>3. z \in Seq(Slot) /\ Len(z) \in Nat
    BY <1>5, <2>1, <2>2, CodedIs, LenProperties
  <2>4. Holds(F, a, z)
    BY <1>8, <2>2
  <2>5. Holds(b, q + a - 1, z)
    <3>1. F \in Seq(Slot) /\ Holds(b, q, F) /\ q \in Int
      BY <1>2, <1>4, <1>9
    <3>. QED BY <2>2, <2>3, <2>4, <3>1, HoldsInside
  <2>6. q + a - 1 \in Nat \ {0}
    BY <1>9, <2>2
  <2>7. cmp_read_object(b, q + a - 1) = [type |-> t, val |-> seq[i], next |-> (q + a - 1) + Len(z)]
    BY <1>5, <2>1, <2>2, <2>5, <2>6, ObjectIs
  <2>8. at[i + 1] = a + Len(z)
    BY <1>8, <2>2
  <2>9. (q + a - 1) + Len(z) = q + (a + Len(z)) - 1
    BY <1>9, <2>2, <2>3
  <2>. QED BY <2>2, <2>7, <2>8, <2>9
<1>11. PICK read : read = NumbersRead(b, t, q, n)
  OBVIOUS
<1>12. /\ read[0] = [ok |-> TRUE, next |-> q, val |-> <<>>]
       /\ \A k \in 1..n : read[k] = ReadNumber(b, t, read[k - 1])
  BY <1>3, <1>11, NumbersReadDef
<1> DEFINE Cut(k) == [i \in 1..k |-> seq[i]]
           Done(k) == [ok |-> TRUE, next |-> q + at[k + 1] - 1, val |-> Cut(k)]
           Ok == {k \in Nat : k <= n => read[k] = Done(k)}
<1>13. Cut(0) = <<>>
  OBVIOUS
<1>14. 0 \in Ok
  <2>1. q + at[0 + 1] - 1 = q
    BY <1>8, <1>9
  <2>. QED BY <1>12, <1>13, <2>1
<1>15. ASSUME NEW k \in Ok \cap Nat
       PROVE  k + 1 \in Ok
  <2>. SUFFICES ASSUME k + 1 <= n
                PROVE  read[k + 1] = Done(k + 1)
    OBVIOUS
  <2>1. k <= n /\ k + 1 \in 1..n /\ (k + 1) - 1 = k /\ k \in Nat
    BY <1>3
  <2>2. read[k] = Done(k) /\ read[k + 1] = ReadNumber(b, t, read[k])
    <3>. HIDE DEF Done
    <3>. QED BY <1>12, <2>1
  <2>3. PICK s : s = Done(k)
    OBVIOUS
  <2>4. s.ok /\ s.next = q + at[k + 1] - 1 /\ s.val = Cut(k)
    <3>. HIDE DEF Cut
    <3>. QED BY <2>3
  <2>5. cmp_read_object(b, s.next)
          = [type |-> t, val |-> seq[k + 1], next |-> q + at[(k + 1) + 1] - 1]
    BY <1>10, <2>1, <2>4
  <2>6. Append(Cut(k), seq[k + 1]) = Cut(k + 1)
    BY <2>1, CutAppend
  <2>7. ReadNumber(b, t, s) = [ok |-> TRUE, next |-> q + at[(k + 1) + 1] - 1,
                               val |-> Append(s.val, seq[k + 1])]
    <3>1. PICK r : r = cmp_read_object(b, s.next)
      OBVIOUS
    <3>2. r.type = t /\ r.val = seq[k + 1] /\ r.next = q + at[(k + 1) + 1] - 1
      BY <2>5, <3>1
    <3>3. ReadNumber(b, t, s) = [ok |-> TRUE, next |-> r.next, val |-> Append(s.val, r.val)]
      BY <2>4, <3>1, <3>2, Zenon DEF ReadNumber
    <3>. QED BY <3>2, <3>3
  <2>. HIDE DEF Cut
  <2>. QED BY <2>2, <2>3, <2>4, <2>6, <2>7
<1>16. Nat \subseteq Ok
  <2>. HIDE DEF Ok
  <2>. QED BY <1>14, <1>15, NumbersInduction
<1>17. read[n] = Done(n)
  <2>1. n \in Ok /\ n <= n
    <3>. HIDE DEF Ok
    <3>. QED BY <1>3, <1>16
  <2>. HIDE DEF Done
  <2>. QED BY <2>1
<1>18. Cut(n) = seq
  BY <1>2, <1>3
<1>19. q + at[n + 1] - 1 = p + Len(w)
  BY <1>2, <1>3, <1>8
<1>20. ReadPart(b, t, room, p) = read[n]
  <2>1. size \div Size(t) = n
    BY <1>2
  <2>2. ReadPart(b, t, room, p) = ReadArray(b, t, [type |-> h, val |-> size, next |-> q])
    BY <1>5, <1>6, Zenon DEF ReadPart
  <2>. QED BY <1>1, <1>11, <2>1, <2>2 DEF ReadArray
<1>. HIDE DEF Cut
<1>. QED BY <1>2, <1>17, <1>18, <1>19, <1>20

LEMMA StringCells ==
    ASSUME NEW s \in Seq(Int)
    PROVE  \E h \in {"fixstr", "str8", "str16"} :
              /\ cp_encodeString(s) = Coded(h, Len(s)) \o Data(s)
              /\ Coded(h, Len(s)) \in Seq(Slot) /\ Data(s) \in Seq(Slot)
              /\ cp_encodeString(s) \in Seq(Slot)
<1>1. PICK h : h = IF Len(s) <= 31 THEN "fixstr" ELSE IF Len(s) <= 255 THEN "str8" ELSE "str16"
  OBVIOUS
<1>2. h \in {"fixstr", "str8", "str16"} /\ h \in Types /\ Len(s) \in Int
  BY <1>1, LenProperties DEF Types
<1>3. cp_encodeString(s) = Coded(h, Len(s)) \o Data(s)
  BY <1>1, Zenon DEF cp_encodeString
<1>4. Coded(h, Len(s)) \in Seq(Slot) /\ Data(s) \in Seq(Slot)
  BY <1>2, CodedIs, DataIs
<1>. QED BY <1>2, <1>3, <1>4, CellsJoined

LEMMA StringIs ==
    ASSUME NEW b \in Seq(Slot), NEW p \in Nat \ {0}, NEW s \in Seq(Int),
           Holds(b, p, cp_encodeString(s)), NEW room \in Nat
    PROVE  /\ Len(s) < room =>
                  ReadPart(b, "string", room, p)
                      = [ok |-> TRUE, next |-> p + Len(cp_encodeString(s)), val |-> s]
           /\ ~(Len(s) < room) => ReadPart(b, "string", room, p).ok = FALSE
<1>0. PICK h \in {"fixstr", "str8", "str16"} :
        /\ cp_encodeString(s) = Coded(h, Len(s)) \o Data(s)
        /\ Coded(h, Len(s)) \in Seq(Slot) /\ Data(s) \in Seq(Slot)
        /\ cp_encodeString(s) \in Seq(Slot)
  BY StringCells, Zenon
<1>1. PICK w :
        /\ w = cp_encodeString(s) /\ w = Coded(h, Len(s)) \o Data(s)
        /\ Coded(h, Len(s)) \in Seq(Slot) /\ Data(s) \in Seq(Slot)
  BY <1>0
<1>2. PICK c, d, n, q, l :
        c = Coded(h, Len(s)) /\ d = Data(s) /\ n = Len(s) /\ q = p + Len(c) /\ l = Len(b)
  OBVIOUS
<1>3. n \in Nat /\ Len(c) \in Nat /\ Len(w) = Len(c) + n /\ Len(d) = n /\ l \in Nat
      /\ \A i \in 1..n : d[i].val = s[i]
  <2>1. Len(c \o d) = Len(c) + Len(d) /\ Len(c) \in Nat
    BY <1>1, <1>2, CellsJoined
  <2>2. Len(d) = n /\ \A i \in 1..n : d[i].val = s[i]
    BY <1>2, DataIs
  <2>. QED BY <1>1, <1>2, <2>1, <2>2, LenProperties
<1>4. Holds(b, p, c) /\ Holds(b, q, d)
  BY <1>1, <1>2, HoldsJoined
<1>5. h \in Types /\ n \in Int
  BY <1>3 DEF Types
<1>6. cmp_read_object(b, p) = [type |-> h, val |-> n, next |-> q]
  BY <1>2, <1>4, <1>5, ObjectIs
<1>7. q + n <= l + 1 /\ \A i \in 1..n : b[q + i - 1] = d[i]
  BY <1>2, <1>3, <1>4 DEF Holds
<1>8. PICK r : r = [type |-> h, val |-> n, next |-> q]
  OBVIOUS
<1>9. r.type \in {"fixstr", "str8", "str16"} /\ r.val = n /\ r.next = q
  BY <1>8
<1>10. ReadPart(b, "string", room, p) = ReadString(b, room, r)
  BY <1>6, <1>8, Zenon DEF ReadPart
<1>11. ASSUME n < room
       PROVE  ReadPart(b, "string", room, p) = [ok |-> TRUE, next |-> p + Len(w), val |-> s]
  <2>1. n + 1 <= room /\ q + n - 1 <= Len(b)
    BY <1>2, <1>3, <1>7, <1>11
  <2>2. [i \in 1..n |-> b[q + i - 1].val] = s
    <3>1. \A i \in 1..n : b[q + i - 1].val = s[i]
      BY <1>3, <1>7
    <3>2. [i \in 1..n |-> b[q + i - 1].val] = [i \in 1..n |-> s[i]]
      BY <3>1
    <3>3. [i \in 1..n |-> s[i]] = s
      BY <1>2, <1>3
    <3>. QED BY <3>2, <3>3
  <2>3. q + n = p + Len(w)
    BY <1>2, <1>3
  <2>4. ReadString(b, room, r)
          = [ok |-> TRUE, next |-> q + n, val |-> [i \in 1..n |-> b[q + i - 1].val]]
    BY <1>9, <2>1, Zenon DEF ReadString
  <2>. QED BY <1>10, <2>2, <2>3, <2>4
<1>12. ASSUME ~(n < room)
       PROVE  ReadPart(b, "string", room, p).ok = FALSE
  <2>1. ~(n + 1 <= room)
    BY <1>3, <1>12
  <2>2. ReadString(b, room, r) = [ok |-> FALSE, next |-> q, val |-> <<>>]
    BY <1>9, <2>1, Zenon DEF ReadString
  <2>. QED BY <1>10, <2>2
<1>. QED BY <1>1, <1>2, <1>11, <1>12
-----------------------------------------------------------------------------
(* A record: a pair with the name of its device.                           *)
RecordOf(q) == pair(q) \o cp_encodeString(srcurl)
PartsOf(q) == Append(Append(Append(Append(<<>>, q.addr), q.url), triggersetup(q)), srcurl)

LEMMA HalfOfDouble == \A n \in Int : (2 * n) \div 2 = n
OBVIOUS

(* Four appended parts.                                                    *)
LEMMA FourParts ==
    ASSUME NEW a, NEW b, NEW c, NEW d, NEW s,
           s = Append(Append(Append(Append(<<>>, a), b), c), d)
    PROVE  s[1] = a /\ s[2] = b /\ s[3] = c /\ s[4] = d
<1>1. PICK S : S = {a, b, c, d}
  OBVIOUS
<1>2. a \in S /\ b \in S /\ c \in S /\ d \in S
  BY <1>1
<1>3. PICK s0, s1, s2, s3 :
        s0 = <<>> /\ s1 = Append(s0, a) /\ s2 = Append(s1, b) /\ s3 = Append(s2, c)
  OBVIOUS
<1>4. s = Append(s3, d)
  BY <1>3
<1>5. s0 \in Seq(S) /\ Len(s0) = 0
  BY <1>3
<1>6. s1 \in Seq(S) /\ Len(s1) = 1 /\ s1[1] = a
  BY <1>2, <1>3, <1>5, AppendProperties
<1>7. s2 \in Seq(S) /\ Len(s2) = 2 /\ s2[1] = a /\ s2[2] = b
  BY <1>2, <1>3, <1>6, AppendProperties
<1>8. s3 \in Seq(S) /\ Len(s3) = 3 /\ s3[1] = a /\ s3[2] = b /\ s3[3] = c
  BY <1>2, <1>3, <1>7, AppendProperties
<1>. QED BY <1>2, <1>4, <1>8, AppendProperties

LEMMA TriggersAre ==
    ASSUME NEW q, IsPair(q)
    PROVE  /\ triggersetup(q) \in Seq(Int) /\ Len(triggersetup(q)) = 3
           /\ \A i \in 1..3 : triggersetup(q)[i] =
                                  IF Events[i] \in DOMAIN q.actions THEN q.actions[Events[i]] ELSE -1
<1>1. q.actions \in [DOMAIN q.actions -> Nat]
  BY DEF IsPair
<1> DEFINE Trigger(e) == IF e \in DOMAIN q.actions THEN q.actions[e] ELSE -1
<1>2. \A e : Trigger(e) \in Int
  <2>1. \A e \in DOMAIN q.actions : q.actions[e] \in Nat
    BY <1>1
  <2>2. \A v \in Nat : v \in Int
    OBVIOUS
  <2>3. -1 \in Int
    OBVIOUS
  <2>. QED BY <2>1, <2>2, <2>3
<1>3. triggersetup(q) = [i \in 1..3 |-> Trigger(Events[i])]
  BY Zenon DEF triggersetup
<1>. HIDE DEF Trigger
<1>4. PICK g : g = [i \in 1..3 |-> Trigger(Events[i])]
  OBVIOUS
<1>5. g \in [1..3 -> Int] /\ \A i \in 1..3 : g[i] = Trigger(Events[i])
  BY <1>2, <1>4
<1>6. g \in Seq(Int) /\ Len(g) = 3
  <2>1. 3 \in Nat
    OBVIOUS
  <2>2. \A i \in 1..3 : g[i] \in Int
    BY <1>5
  <2>3. g = [i \in 1..3 |-> g[i]]
    BY <1>5
  <2>4. [i \in 1..3 |-> g[i]] \in Seq(Int) /\ Len([i \in 1..3 |-> g[i]]) = 3
    BY <2>1, <2>2, IsASeq
  <2>. QED BY <2>3, <2>4
<1>7. g = triggersetup(q)
  BY <1>3, <1>4
<1>. QED BY <1>5, <1>6, <1>7 DEF Trigger

(* A part that is read whole, and one that is not.                         *)
Got(r, next, val) == r = [ok |-> TRUE, next |-> next, val |-> val]
Sofar(s, next, parts) == s = [wrong |-> 0, next |-> next, parts |-> parts]

LEMMA NextPartIs ==
    ASSUME NEW b, NEW room, NEW kind, NEW at, NEW parts, NEW s, Sofar(s, at, parts),
           NEW next, NEW val, Got(ReadPart(b, kind, room, at), next, val)
    PROVE  Sofar(NextPart(b, room, kind, s), next, Append(parts, val))
<1>1. /\ s.wrong = 0 /\ s.next = at /\ s.parts = parts
      /\ s = [wrong |-> 0, next |-> at, parts |-> parts]
  BY DEF Sofar
<1>2. PICK r : r = ReadPart(b, kind, room, s.next)
  OBVIOUS
<1>3. r.ok /\ r.next = next /\ r.val = val
  BY <1>1, <1>2 DEF Got
<1>4. NextPart(b, room, kind, s) = [s EXCEPT !.next = r.next, !.parts = Append(@, r.val)]
  BY <1>1, <1>2, <1>3, Zenon DEF NextPart
<1>5. PICK w : w = Append(s.parts, r.val)
  OBVIOUS
<1>6. [s EXCEPT !.next = r.next, !.parts = Append(@, r.val)]
        = [s EXCEPT !.next = r.next, !.parts = w]
  BY <1>5, Zenon
<1>7. [s EXCEPT !.next = r.next, !.parts = w] = [wrong |-> 0, next |-> r.next, parts |-> w]
  <2>1. PICK t : t = [s EXCEPT !.next = r.next]
    OBVIOUS
  <2>2. t = [wrong |-> 0, next |-> r.next, parts |-> parts]
    BY <1>1, <2>1
  <2>3. [t EXCEPT !.parts = w] = [wrong |-> 0, next |-> r.next, parts |-> w]
    BY <2>2
  <2>4. [s EXCEPT !.next = r.next, !.parts = w] = [t EXCEPT !.parts = w]
    BY <2>1, Zenon
  <2>. QED BY <2>3, <2>4
<1>8. NextPart(b, room, kind, s) = [wrong |-> 0, next |-> r.next, parts |-> w]
  BY <1>4, <1>6, <1>7
<1>9. w = Append(parts, val)
  BY <1>1, <1>3, <1>5
<1>. QED BY <1>3, <1>8, <1>9 DEF Sofar

LEMMA NextPartWrong ==
    ASSUME NEW b, NEW room, NEW kind, NEW at, NEW parts, NEW s, Sofar(s, at, parts),
           ReadPart(b, kind, room, at).ok = FALSE, Len(parts) = 1
    PROVE  NextPart(b, room, kind, s).wrong = 2
<1>1. /\ s.wrong = 0 /\ s.next = at /\ s.parts = parts
      /\ s = [wrong |-> 0, next |-> at, parts |-> parts]
  BY DEF Sofar
<1>2. NextPart(b, room, kind, s) = [s EXCEPT !.wrong = Len(s.parts) + 1]
  BY <1>1, Zenon DEF NextPart
<1>3. Len(s.parts) + 1 = 2
  <2>1. Len(s.parts) = 1
    BY <1>1, Zenon
  <2>. QED BY <2>1
<1>4. [s EXCEPT !.wrong = 2].wrong = 2
  BY <1>1
<1>. QED BY <1>2, <1>3, <1>4

LEMMA WrongStays ==
    ASSUME NEW b, NEW room, NEW kind, NEW s, s.wrong = 2
    PROVE  NextPart(b, room, kind, s) = s
<1>1. s.wrong # 0
  OBVIOUS
<1>. QED BY <1>1, Zenon DEF NextPart

(* What the two kinds of parts are read as.                                *)
ArrayAt(b, p, t, size, seq, next) ==
    /\ b \in Seq(Slot) /\ p \in Nat \ {0} /\ t \in {"u16", "u8", "s8"} /\ size \in Nat
    /\ seq \in Seq(Int) /\ size \div Size(t) = Len(seq)
    /\ Holds(b, p, WriteArray(t, size, seq)) /\ next = p + Len(WriteArray(t, size, seq))
LEMMA ArrayGot ==
    ASSUME NEW b, NEW p, NEW t, NEW size, NEW seq, NEW next, NEW room,
           ArrayAt(b, p, t, size, seq, next)
    PROVE  Got(ReadPart(b, t, room, p), next, seq)
<1>1. /\ b \in Seq(Slot) /\ p \in Nat \ {0} /\ t \in {"u16", "u8", "s8"} /\ size \in Nat
      /\ seq \in Seq(Int) /\ size \div Size(t) = Len(seq)
      /\ Holds(b, p, WriteArray(t, size, seq)) /\ next = p + Len(WriteArray(t, size, seq))
  BY DEF ArrayAt
<1>2. ReadPart(b, t, room, p)
          = [ok |-> TRUE, next |-> p + Len(WriteArray(t, size, seq)), val |-> seq]
  BY <1>1, ArrayIs
<1>. QED BY <1>1, <1>2 DEF Got

StringAt(b, p, s, room, next) ==
    /\ b \in Seq(Slot) /\ p \in Nat \ {0} /\ s \in Seq(Int) /\ room \in Nat
    /\ Holds(b, p, cp_encodeString(s)) /\ next = p + Len(cp_encodeString(s))
LEMMA StringGot ==
    ASSUME NEW b, NEW p, NEW s, NEW room, NEW next, StringAt(b, p, s, room, next)
    PROVE  /\ Len(s) < room => Got(ReadPart(b, "string", room, p), next, s)
           /\ ~(Len(s) < room) => ReadPart(b, "string", room, p).ok = FALSE
<1>1. /\ b \in Seq(Slot) /\ p \in Nat \ {0} /\ s \in Seq(Int) /\ room \in Nat
      /\ Holds(b, p, cp_encodeString(s)) /\ next = p + Len(cp_encodeString(s))
  BY DEF StringAt
<1>2. /\ Len(s) < room =>
              ReadPart(b, "string", room, p)
                  = [ok |-> TRUE, next |-> p + Len(cp_encodeString(s)), val |-> s]
      /\ ~(Len(s) < room) => ReadPart(b, "string", room, p).ok = FALSE
  BY <1>1, StringIs
<1>. QED BY <1>1, <1>2 DEF Got

(* The runs a record consists of.                                          *)
Runs(q, w, x, y, z) ==
    /\ w = WriteArray("u16", 2 * Len(q.addr), q.addr) /\ x = cp_encodeString(q.url)
    /\ y = WriteArray("s8", 3, triggersetup(q)) /\ z = cp_encodeString(srcurl)
    /\ w \in Seq(Slot) /\ x \in Seq(Slot) /\ y \in Seq(Slot) /\ z \in Seq(Slot)
    /\ pair(q) = (w \o x) \o y /\ RecordOf(q) = ((w \o x) \o y) \o z
    /\ w \o x \in Seq(Slot) /\ (w \o x) \o y \in Seq(Slot)
    /\ pair(q) \in Seq(Slot) /\ RecordOf(q) \in Seq(Slot)

LEMMA RecordCells ==
    ASSUME srcurl \in Seq(Nat), NEW q, IsPair(q)
    PROVE  \E w, x, y, z : Runs(q, w, x, y, z)
<1>1. q.addr \in Seq(Int) /\ q.url \in Seq(Int) /\ srcurl \in Seq(Int)
  <2>1. Seq(Nat) \subseteq Seq(Int)
    OBVIOUS
  <2>. QED BY <2>1 DEF IsPair
<1>2. PICK w, x, y, z :
        /\ w = WriteArray("u16", 2 * Len(q.addr), q.addr) /\ x = cp_encodeString(q.url)
        /\ y = WriteArray("s8", 3, triggersetup(q)) /\ z = cp_encodeString(srcurl)
  OBVIOUS
<1>3. w \in Seq(Slot)
  <2>1. 2 * Len(q.addr) \in Nat
    BY <1>1, LenProperties
  <2>2. PICK h, l : Numbered(h, l, "u16", 2 * Len(q.addr), q.addr)
    BY <1>1, <2>1, ArrayCells
  <2>. QED BY <1>2, <2>2 DEF Numbered
<1>4. y \in Seq(Slot)
  <2>1. triggersetup(q) \in Seq(Int) /\ 3 \in Nat
    BY TriggersAre
  <2>2. PICK h, l : Numbered(h, l, "s8", 3, triggersetup(q))
    BY <2>1, ArrayCells
  <2>. QED BY <1>2, <2>2 DEF Numbered
<1>5. x \in Seq(Slot) /\ z \in Seq(Slot)
  BY <1>1, <1>2, StringCells
<1>6. pair(q) = (w \o x) \o y
  BY <1>2, Zenon DEF pair
<1>7. RecordOf(q) = ((w \o x) \o y) \o z
  BY <1>2, <1>6, Zenon DEF RecordOf
<1>8. w \o x \in Seq(Slot)
  BY <1>3, <1>5, CellsJoined
<1>9. (w \o x) \o y \in Seq(Slot)
  BY <1>4, <1>8, CellsJoined
<1>10. ((w \o x) \o y) \o z \in Seq(Slot)
  BY <1>5, <1>9, CellsJoined
<1>11. pair(q) \in Seq(Slot) /\ RecordOf(q) \in Seq(Slot)
  BY <1>6, <1>7, <1>9, <1>10
<1>12. Runs(q, w, x, y, z)
  BY <1>2, <1>3, <1>4, <1>5, <1>6, <1>7, <1>8, <1>9, <1>11, Zenon DEF Runs
<1>. QED BY <1>12

(* Reading a record gives back its parts, or stops at the URL.             *)
LEMMA PartsAre ==
    ASSUME srcurl \in Seq(Nat), NEW q, IsPair(q),
           NEW b \in Seq(Slot), NEW p \in Nat \ {0}, Holds(b, p, RecordOf(q)),
           NEW room \in Nat, Len(srcurl) < room
    PROVE  /\ Len(q.url) < room =>
                  Parts(b, p, room)
                      = [wrong |-> 0, next |-> p + Len(RecordOf(q)), parts |-> PartsOf(q)]
           /\ ~(Len(q.url) < room) => Parts(b, p, room).wrong = 2
<1>1. q.addr \in Seq(Int) /\ q.url \in Seq(Int) /\ srcurl \in Seq(Int)
  <2>1. Seq(Nat) \subseteq Seq(Int)
    OBVIOUS
  <2>. QED BY <2>1 DEF IsPair
<1>0. PICK w, x, y, z : Runs(q, w, x, y, z)
  BY RecordCells
<1>2. PICK u, v : u = w \o x /\ v = u \o y
  OBVIOUS
<1>3. /\ w \in Seq(Slot) /\ x \in Seq(Slot) /\ y \in Seq(Slot) /\ z \in Seq(Slot)
      /\ u \in Seq(Slot) /\ v \in Seq(Slot) /\ RecordOf(q) = v \o z
  BY <1>0, <1>2 DEF Runs
<1>4. /\ w = WriteArray("u16", 2 * Len(q.addr), q.addr) /\ x = cp_encodeString(q.url)
      /\ y = WriteArray("s8", 3, triggersetup(q)) /\ z = cp_encodeString(srcurl)
  BY <1>0 DEF Runs
<1>5. PICK k, l, m, n : k = Len(w) /\ l = Len(x) /\ m = Len(y) /\ n = Len(z)
  OBVIOUS
<1>6. k \in Nat /\ l \in Nat /\ m \in Nat /\ n \in Nat
  BY <1>3, <1>5, LenProperties
<1>7. Len(u) = k + l
  BY <1>2, <1>3, <1>5, CellsJoined
<1>8. Len(v) = (k + l) + m
  BY <1>2, <1>3, <1>5, <1>7, CellsJoined
<1>9. Len(RecordOf(q)) = ((k + l) + m) + n
  <2>1. Len(v \o z) = Len(v) + Len(z)
    BY ONLY <1>3, CellsJoined
  <2>. QED BY Zenon, <1>3, <1>5, <1>8, <2>1
<1>10. PICK p1, p2, p3, p4 :
         p1 = p + k /\ p2 = p + (k + l) /\ p3 = p + ((k + l) + m) /\ p4 = p + (((k + l) + m) + n)
  OBVIOUS
<1>11. /\ p1 \in Nat \ {0} /\ p2 \in Nat \ {0} /\ p3 \in Nat \ {0}
       /\ p2 = p1 + l /\ p3 = p2 + m /\ p4 = p3 + n
  BY <1>6, <1>10
<1>12. Holds(b, p, v) /\ Holds(b, p3, z)
  <2>1. Holds(b, p, v \o z) /\ p \in Int
    BY <1>3
  <2>2. Holds(b, p, v) /\ Holds(b, p + Len(v), z)
    BY <1>3, <2>1, HoldsJoined
  <2>. QED BY <1>8, <1>10, <2>2
<1>13. Holds(b, p, u) /\ Holds(b, p2, y)
  <2>1. Holds(b, p, u \o y) /\ p \in Int
    BY <1>2, <1>12
  <2>2. Holds(b, p, u) /\ Holds(b, p + Len(u), y)
    BY <1>3, <2>1, HoldsJoined
  <2>. QED BY <1>7, <1>10, <2>2
<1>14. Holds(b, p, w) /\ Holds(b, p1, x)
  <2>1. Holds(b, p, w \o x) /\ p \in Int
    BY <1>2, <1>13
  <2>2. Holds(b, p, w) /\ Holds(b, p + Len(w), x)
    BY <1>3, <2>1, HoldsJoined
  <2>. QED BY <1>5, <1>10, <2>2
<1>15. Got(ReadPart(b, "u16", room, p), p1, q.addr)
  <2>1. Len(q.addr) \in Nat
    BY <1>1, LenProperties
  <2>2. PICK len \in Nat : len = Len(q.addr)
    BY <2>1
  <2>3. PICK size : size = 2 * len
    OBVIOUS
  <2>4. size \in Nat /\ size \div 2 = len
    BY <2>3, HalfOfDouble
  <2>5. size \div Size("u16") = Len(q.addr)
    BY <2>2, <2>4 DEF Size
  <2>6. /\ Holds(b, p, WriteArray("u16", size, q.addr))
        /\ p1 = p + Len(WriteArray("u16", size, q.addr))
    BY <1>4, <1>5, <1>10, <1>14, <2>2, <2>3
  <2>7. ArrayAt(b, p, "u16", size, q.addr, p1)
    BY <1>1, <2>4, <2>5, <2>6 DEF ArrayAt
  <2>. QED BY <2>7, ArrayGot
<1>16. StringAt(b, p1, q.url, room, p2)
  <2>1. Holds(b, p1, cp_encodeString(q.url)) /\ p2 = p1 + Len(cp_encodeString(q.url))
    BY <1>4, <1>5, <1>11, <1>14
  <2>. QED BY <1>1, <1>11, <2>1 DEF StringAt
<1>17. /\ Len(q.url) < room => Got(ReadPart(b, "string", room, p1), p2, q.url)
       /\ ~(Len(q.url) < room) => ReadPart(b, "string", room, p1).ok = FALSE
  BY <1>16, StringGot
<1>18. Got(ReadPart(b, "s8", room, p2), p3, triggersetup(q))
  <2>1. triggersetup(q) \in Seq(Int) /\ Len(triggersetup(q)) = 3
    BY TriggersAre
  <2>2. 3 \div Size("s8") = Len(triggersetup(q))
    BY <2>1 DEF Size
  <2>3. /\ Holds(b, p2, WriteArray("s8", 3, triggersetup(q)))
        /\ p3 = p2 + Len(WriteArray("s8", 3, triggersetup(q)))
    BY <1>4, <1>5, <1>11, <1>13
  <2>4. ArrayAt(b, p2, "s8", 3, triggersetup(q), p3)
    BY <1>11, <2>1, <2>2, <2>3 DEF ArrayAt
  <2>. QED BY <2>4, ArrayGot
<1>19. Got(ReadPart(b, "string", room, p3), p4, srcurl)
  <2>1. Holds(b, p3, cp_encodeString(srcurl)) /\ p4 = p3 + Len(cp_encodeString(srcurl))
    BY <1>4, <1>5, <1>11, <1>12
  <2>2. StringAt(b, p3, srcurl, room, p4)
    BY <1>1, <1>11, <2>1 DEF StringAt
  <2>. QED BY <2>2, StringGot
<1>20. PICK s0, s1, s2, s3, s4 :
         /\ s0 = [wrong |-> 0, next |-> p, parts |-> <<>>]
         /\ s1 = NextPart(b, room, "u16", s0) /\ s2 = NextPart(b, room, "string", s1)
         /\ s3 = NextPart(b, room, "s8", s2) /\ s4 = NextPart(b, room, "string", s3)
  OBVIOUS
<1>21. Parts(b, p, room) = s4
  BY <1>20, Zenon DEF Parts
<1>22. PICK a, c, d, e, t : t = triggersetup(q) /\ a = Append(<<>>, q.addr) /\ c = Append(a, q.url)
                            /\ d = Append(c, t) /\ e = Append(d, srcurl)
  OBVIOUS
<1>23. a = <<q.addr>>
  BY <1>22
<1>24. e = PartsOf(q)
  BY <1>22, Zenon DEF PartsOf
<1>25. Sofar(s1, p1, a)
  <2>1. Sofar(s0, p, <<>>)
    BY <1>20 DEF Sofar
  <2>. QED BY <1>15, <1>20, <1>22, <2>1, NextPartIs
<1>26. ASSUME Len(q.url) < room
       PROVE  Sofar(s4, p4, e)
  <2>1. Sofar(s2, p2, c)
    BY <1>17, <1>20, <1>22, <1>25, <1>26, NextPartIs
  <2>2. Sofar(s3, p3, d)
    BY <1>18, <1>20, <1>22, <2>1, NextPartIs
  <2>. QED BY <1>19, <1>20, <1>22, <2>2, NextPartIs
<1>27. ASSUME ~(Len(q.url) < room)
       PROVE  s4.wrong = 2
  <2>1. Len(a) = 1
    BY <1>23
  <2>2. s2.wrong = 2
    BY <1>17, <1>20, <1>25, <1>27, <2>1, NextPartWrong
  <2>3. s3 = s2
    BY <1>20, <2>2, WrongStays
  <2>4. s4 = s3
    BY <1>20, <2>2, <2>3, WrongStays
  <2>. QED BY <2>2, <2>3, <2>4
<1>28. p4 = p + Len(RecordOf(q))
  BY <1>9, <1>10
<1>. QED BY <1>21, <1>24, <1>26, <1>27, <1>28 DEF Sofar
-----------------------------------------------------------------------------
(* A file of records: what cmp_write_bin writes is what NextRecord reads.  *)

(* Cells cut out of where they lie.                                        *)
LEMMA CutOut ==
    ASSUME NEW b \in Seq(Slot), NEW p \in Nat \ {0}, NEW s \in Seq(Slot), Holds(b, p, s)
    PROVE  SubSeq(b, p, p + Len(s) - 1) = s
<1>1. PICK n \in Nat, l \in Nat : n = Len(s) /\ l = Len(b)
  BY LenProperties
<1>2. p + n <= l + 1 /\ \A i \in 1..n : b[p + i - 1] = s[i]
  BY <1>1 DEF Holds
<1>3. PICK e \in Int : e = p + n - 1
  OBVIOUS
<1>4. \A i \in p..e : i \in 1..l
  BY <1>2, <1>3
<1>5. \A i \in p..e : b[i] \in Slot
  BY <1>1, <1>4, ElementOfSeq
<1>6. PICK c : c = SubSeq(b, p, e)
  OBVIOUS
<1>7. /\ c \in Seq(Slot) /\ Len(c) = (IF p <= e THEN e - p + 1 ELSE 0)
      /\ \A i \in 1..e - p + 1 : c[i] = b[p + i - 1]
  BY <1>5, <1>6, SubSeqProperties
<1>8. (IF p <= e THEN e - p + 1 ELSE 0) = n /\ e - p + 1 = n
  BY <1>3
<1>9. Len(c) = Len(s) /\ \A i \in 1..Len(c) : c[i] = s[i]
  BY <1>1, <1>2, <1>7, <1>8
<1>10. c = s
  BY <1>7, <1>9, SeqEqual
<1>. QED BY <1>1, <1>3, <1>6, <1>10

(* The head of a record: the record is behind it, and behind that is next. *)
HeadAt(b, p, c, next) ==
    \E t \in RecordTypes, n \in Nat \ {0} :
       /\ cmp_read_object(b, p) = [type |-> t, val |-> Len(c), next |-> n]
       /\ Holds(b, n, c) /\ next = n + Len(c)
       /\ p \in DOMAIN b /\ b[p].type \in RecordTypes /\ p < next

LEMMA BinCells ==
    ASSUME NEW c \in Seq(Slot)
    PROVE  /\ cmp_write_bin(c) \in Seq(Slot)
           /\ \E h \in RecordTypes : cmp_write_bin(c) = Coded(h, Len(c)) \o c
<1>1. PICK h : h = IF Len(c) <= 255 THEN "bin8" ELSE "bin16"
  OBVIOUS
<1>2. h \in RecordTypes /\ h \in Types /\ Len(c) \in Int
  BY <1>1, LenProperties DEF Types, RecordTypes
<1>3. cmp_write_bin(c) = Coded(h, Len(c)) \o c
  BY <1>1, Zenon DEF cmp_write_bin
<1>4. Coded(h, Len(c)) \in Seq(Slot)
  BY <1>2, CodedIs
<1>. QED BY <1>2, <1>3, <1>4, CellsJoined

LEMMA BinIs ==
    ASSUME NEW b \in Seq(Slot), NEW p \in Nat \ {0}, NEW c \in Seq(Slot),
           Holds(b, p, cmp_write_bin(c))
    PROVE  HeadAt(b, p, c, p + Len(cmp_write_bin(c)))
<1>1. PICK h \in RecordTypes : cmp_write_bin(c) = Coded(h, Len(c)) \o c
  BY BinCells
<1>2. PICK d, m : d = Coded(h, Len(c)) /\ m = Len(c)
  OBVIOUS
<1>3. h \in Types /\ m \in Nat /\ m \in Int
  BY <1>2, LenProperties DEF Types, RecordTypes
<1>4. d \in Seq(Slot) /\ Len(d) = 1 + Width(h) /\ Width(h) \in 0..2
  BY <1>2, <1>3, CodedIs
<1>5. Len(cmp_write_bin(c)) = Len(d) + m
  BY <1>1, <1>2, <1>4, CellsJoined
<1>6. PICK n \in Nat \ {0} : n = p + Len(d)
  BY <1>4
<1>7. Holds(b, p, d) /\ Holds(b, n, c)
  <2>1. Holds(b, p, d \o c) /\ p \in Int
    BY <1>1, <1>2
  <2>. QED BY <1>4, <1>6, <2>1, HoldsJoined
<1>8. /\ cmp_read_object(b, p) = [type |-> h, val |-> m, next |-> n]
      /\ b[p].type = h /\ p <= Len(b)
  <2>1. Holds(b, p, Coded(h, m))
    BY <1>2, <1>7
  <2>2. p + Len(Coded(h, m)) = n
    BY <1>2, <1>6
  <2>. QED BY <1>3, <2>1, <2>2, ObjectIs
<1>9. p \in DOMAIN b
  BY <1>8, LenProperties
<1>10. PICK next : next = p + Len(cmp_write_bin(c))
  OBVIOUS
<1>11. next = n + m /\ p < next
  BY <1>3, <1>4, <1>5, <1>6, <1>10
<1>. QED BY <1>2, <1>7, <1>8, <1>9, <1>10, <1>11 DEF HeadAt

(* The records of a file, and where their heads are.                       *)
Laid(f, r, at) ==
    /\ f \in Seq(Slot) /\ r \in Seq(Seq(Slot)) /\ at \in [1..Len(r) + 1 -> Nat \ {0}]
    /\ at[1] = 1 /\ at[Len(r) + 1] = Len(f) + 1
    /\ \A i \in 1..Len(r) : HeadAt(f, at[i], r[i], at[i + 1])

LEMMA LaidPlaces ==
    ASSUME NEW f \in Seq(Slot), NEW r \in Seq(Seq(Slot)), NEW l \in Seq(Seq(Slot)),
           Len(l) = Len(r), \A i \in 1..Len(r) : l[i] = cmp_write_bin(r[i]),
           NEW at, Places(f, l, at)
    PROVE  Laid(f, r, at)
<1>1. PICK n \in Nat : n = Len(r)
  BY LenProperties
<1>2. /\ at \in [1..n + 1 -> Nat \ {0}] /\ at[1] = 1 /\ at[n + 1] = Len(f) + 1
      /\ \A i \in 1..n : Holds(f, at[i], l[i]) /\ at[i + 1] = at[i] + Len(l[i])
  BY <1>1 DEF Places
<1>3. ASSUME NEW i \in 1..n
      PROVE  HeadAt(f, at[i], r[i], at[i + 1])
  <2>1. i \in 1..n + 1 /\ r[i] \in Seq(Slot)
    BY <1>1, ElementOfSeq
  <2>2. PICK p \in Nat \ {0}, c \in {r[i]} : p = at[i] /\ c = r[i]
    BY <1>2, <2>1
  <2>3. Holds(f, p, cmp_write_bin(c)) /\ at[i + 1] = p + Len(cmp_write_bin(c))
    BY <1>1, <1>2, <2>2
  <2>4. HeadAt(f, p, c, p + Len(cmp_write_bin(c)))
    BY <2>1, <2>2, <2>3, BinIs
  <2>. QED BY <2>2, <2>3, <2>4
<1>. QED BY <1>1, <1>2, <1>3 DEF Laid

(* There are as many heads as records, or more.                            *)
LEMMA HeadsOf ==
    ASSUME NEW f, NEW r, NEW at, Laid(f, r, at)
    PROVE  Heads(f) \in Nat /\ Len(r) \in Nat /\ Len(r) <= Heads(f)
<1>1. PICK n \in Nat : n = Len(r)
  BY LenProperties DEF Laid
<1>2. PICK l \in Nat : l = Len(f) /\ DOMAIN f = 1..l
  BY LenProperties DEF Laid
<1>3. at \in [1..n + 1 -> Nat \ {0}]
  BY <1>1 DEF Laid
<1>4. PICK H : H = {p \in DOMAIN f : f[p].type \in RecordTypes}
  OBVIOUS
<1>5. \A i \in 1..n : at[i] \in H /\ at[i] < at[i + 1]
  BY <1>1, <1>4 DEF Laid, HeadAt
<1>6. IsFiniteSet(H)
  <2>1. IsFiniteSet(1..l)
    BY FS_Interval
  <2>2. H \subseteq 1..l
    BY <1>2, <1>4
  <2>. QED BY <2>1, <2>2, FS_Subset
<1> DEFINE Ok == {k \in Nat : k <= n => \A i \in 1..k - 1 : at[i] < at[k]}
<1>7. 0 \in Ok
  OBVIOUS
<1>8. ASSUME NEW k \in Ok \cap Nat
      PROVE  k + 1 \in Ok
  <2>. SUFFICES ASSUME k + 1 <= n, NEW i \in 1..k
                PROVE  at[i] < at[k + 1]
    BY (k + 1) - 1 = k
  <2>1. k \in 1..n /\ k \in 1..n + 1 /\ k + 1 \in 1..n + 1 /\ i \in 1..n + 1
    OBVIOUS
  <2>2. at[k] < at[k + 1]
    BY <1>5, <2>1
  <2>3. CASE i = k
    BY <2>2, <2>3
  <2>4. CASE i # k
    <3>1. i \in 1..k - 1 /\ k <= n
      BY <2>1, <2>4
    <3>2. at[i] < at[k]
      BY <3>1
    <3>3. at[i] \in Nat /\ at[k] \in Nat /\ at[k + 1] \in Nat
      BY <1>3, <2>1
    <3>. QED BY <2>2, <3>2, <3>3
  <2>. QED BY <2>3, <2>4
<1>9. Nat \subseteq Ok
  <2>. HIDE DEF Ok
  <2>. QED BY <1>7, <1>8, NumbersInduction
<1>10. \A i, j \in 1..n : i < j => at[i] < at[j]
  <2>. SUFFICES ASSUME NEW i \in 1..n, NEW j \in 1..n, i < j
                PROVE  at[i] < at[j]
    OBVIOUS
  <2>1. j \in Ok
    <3>. HIDE DEF Ok
    <3>. QED BY <1>9
  <2>2. i \in 1..j - 1 /\ j <= n
    OBVIOUS
  <2>. QED BY <2>1, <2>2
<1>11. PICK g : g = [i \in 1..n |-> at[i]]
  OBVIOUS
<1>12. \A i \in 1..n : g[i] = at[i] /\ at[i] \in Nat
  <2>1. \A i \in 1..n : i \in 1..n + 1
    OBVIOUS
  <2>. QED BY <1>3, <1>11, <2>1
<1>13. g \in Injection(1..n, H)
  <2>1. g \in [1..n -> H]
    BY <1>5, <1>11
  <2>2. ASSUME NEW i \in 1..n, NEW j \in 1..n, g[i] = g[j]
        PROVE  i = j
    <3>1. ~(at[i] < at[j]) /\ ~(at[j] < at[i])
      BY <1>12, <2>2
    <3>2. ~(i < j) /\ ~(j < i)
      BY <1>10, <3>1
    <3>. QED BY <3>2
  <2>. QED BY <2>1, <2>2, Fun_IsInj
<1>14. Cardinality(1..n) <= Cardinality(H) /\ Cardinality(H) \in Nat
  BY <1>6, <1>13, FS_Injection, FS_CardinalityType
<1>15. Cardinality(1..n) = n
  <2>1. Cardinality(1..n) = IF 1 > n THEN 0 ELSE n - 1 + 1
    BY FS_Interval
  <2>. QED BY <2>1
<1>16. Heads(f) = Cardinality(H)
  BY <1>4, Zenon DEF Heads
<1>. QED BY <1>1, <1>14, <1>15, <1>16
AtRecord(s, p, l) == s = [next |-> p, records |-> l]

LEMMA NextRecordIs ==
    ASSUME NEW f \in Seq(Slot), NEW p, NEW c \in Seq(Slot), NEW next, HeadAt(f, p, c, next),
           Len(c) <= BUFFERSIZE, NEW s, NEW l, AtRecord(s, p, l)
    PROVE  AtRecord(NextRecord(f, s), next, Append(l, c))
<1>1. PICK t \in RecordTypes, n \in Nat \ {0} :
        /\ cmp_read_object(f, p) = [type |-> t, val |-> Len(c), next |-> n]
        /\ Holds(f, n, c) /\ next = n + Len(c)
  BY DEF HeadAt
<1>2. s.next = p /\ s.records = l
  BY DEF AtRecord
<1>3. PICK h : h = cmp_read_object(f, s.next)
  OBVIOUS
<1>4. h.type \in RecordTypes /\ h.val = Len(c) /\ h.next = n
  BY <1>1, <1>2, <1>3
<1>5. h.val <= BUFFERSIZE
  BY <1>4
<1>6. NextRecord(f, s) = [next |-> h.next + h.val,
                          records |-> Append(s.records, SubSeq(f, h.next, h.next + h.val - 1))]
  BY <1>3, <1>4, <1>5, Zenon DEF NextRecord
<1>7. SubSeq(f, n, n + Len(c) - 1) = c
  BY <1>1, CutOut
<1>8. NextRecord(f, s) = [next |-> n + Len(c), records |-> Append(l, c)]
  BY <1>2, <1>4, <1>6, <1>7, Zenon
<1>. QED BY <1>1, <1>8 DEF AtRecord

(* The end of a file reads as no record.                                   *)
LEMMA NoObject ==
    ASSUME NEW f \in Seq(Slot)
    PROVE  cmp_read_object(f, Len(f) + 1).type \notin RecordTypes
<1>1. Len(f) + 1 > Len(f)
  BY LenProperties
<1>2. cmp_read_object(f, Len(f) + 1) = [type |-> "none", val |-> 0, next |-> Len(f) + 1]
  BY <1>1, Zenon DEF cmp_read_object
<1>. QED BY <1>2 DEF RecordTypes

LEMMA RecordsStay ==
    ASSUME NEW f \in Seq(Slot), NEW s, NEW l, AtRecord(s, Len(f) + 1, l)
    PROVE  NextRecord(f, s) = s
<1>1. s.next = Len(f) + 1
  BY DEF AtRecord
<1>2. PICK h : h = cmp_read_object(f, s.next)
  OBVIOUS
<1>3. h.type \notin RecordTypes
  BY <1>1, <1>2, NoObject
<1>. QED BY <1>2, <1>3, Zenon DEF NextRecord

LEMMA RecordsAre ==
    ASSUME NEW f, NEW r, NEW at, Laid(f, r, at), \A i \in 1..Len(r) : Len(r[i]) <= BUFFERSIZE
    PROVE  Records(f) = r
<1>1. PICK n \in Nat, h \in Nat : n = Len(r) /\ h = Heads(f) /\ n <= h
  BY HeadsOf
<1>2. /\ f \in Seq(Slot) /\ r \in Seq(Seq(Slot))
      /\ at[1] = 1 /\ at[n + 1] = Len(f) + 1
      /\ \A i \in 1..n : HeadAt(f, at[i], r[i], at[i + 1])
  BY <1>1 DEF Laid
<1>3. PICK read : read = RecordsUpTo(f)
  OBVIOUS
<1>4. /\ read[0] = [next |-> 1, records |-> <<>>]
      /\ \A k \in 1..h : read[k] = NextRecord(f, read[k - 1])
  BY <1>1, <1>3, RecordsUpToDef
<1> DEFINE Cut(k) == [i \in 1..k |-> r[i]]
           Ok == {k \in Nat : k <= n => AtRecord(read[k], at[k + 1], Cut(k))}
           Rest == {k \in Nat : n + k <= h => AtRecord(read[n + k], Len(f) + 1, r)}
<1>5. 0 \in Ok
  <2>1. Cut(0) = <<>> /\ 0 + 1 = 1
    OBVIOUS
  <2>. HIDE DEF Cut
  <2>2. AtRecord(read[0], at[0 + 1], Cut(0))
    BY <1>2, <1>4, <2>1 DEF AtRecord
  <2>. QED BY <2>2
<1>6. ASSUME NEW k \in Ok \cap Nat
      PROVE  k + 1 \in Ok
  <2>. SUFFICES ASSUME k + 1 <= n
                PROVE  AtRecord(read[k + 1], at[(k + 1) + 1], Cut(k + 1))
    OBVIOUS
  <2>1. k <= n /\ k + 1 \in 1..n /\ k + 1 \in 1..h /\ (k + 1) - 1 = k
    BY <1>1
  <2>2. AtRecord(read[k], at[k + 1], Cut(k)) /\ read[k + 1] = NextRecord(f, read[k])
    <3>. HIDE DEF Cut
    <3>. QED BY <1>4, <2>1
  <2>3. r[k + 1] \in Seq(Slot) /\ Len(r[k + 1]) <= BUFFERSIZE
    BY <1>1, <1>2, <2>1, ElementOfSeq
  <2>4. HeadAt(f, at[k + 1], r[k + 1], at[(k + 1) + 1])
    BY <1>2, <2>1
  <2>5. Append(Cut(k), r[k + 1]) = Cut(k + 1)
    BY <2>1, CutAppend
  <2>. HIDE DEF Cut
  <2>6. AtRecord(NextRecord(f, read[k]), at[(k + 1) + 1], Append(Cut(k), r[k + 1]))
    BY <1>2, <2>2, <2>3, <2>4, NextRecordIs
  <2>. QED BY <2>2, <2>5, <2>6
<1>7. AtRecord(read[n], Len(f) + 1, r)
  <2>1. Nat \subseteq Ok
    <3>. HIDE DEF Ok
    <3>. QED BY <1>5, <1>6, NumbersInduction
  <2>2. AtRecord(read[n], at[n + 1], Cut(n))
    <3>1. n \in Ok /\ n <= n
      <4>. HIDE DEF Ok
      <4>. QED BY <2>1
    <3>. HIDE DEF Cut
    <3>. QED BY <3>1
  <2>3. Cut(n) = r
    BY <1>1, <1>2
  <2>. HIDE DEF Cut
  <2>. QED BY <1>2, <2>2, <2>3
<1>8. 0 \in Rest
  BY <1>7, n + 0 = n
<1>9. ASSUME NEW k \in Rest \cap Nat
      PROVE  k + 1 \in Rest
  <2>. SUFFICES ASSUME n + (k + 1) <= h
                PROVE  AtRecord(read[n + (k + 1)], Len(f) + 1, r)
    OBVIOUS
  <2>1. n + k <= h /\ n + (k + 1) \in 1..h /\ (n + (k + 1)) - 1 = n + k
    BY <1>1
  <2>2. AtRecord(read[n + k], Len(f) + 1, r) /\ read[n + (k + 1)] = NextRecord(f, read[n + k])
    BY <1>4, <2>1
  <2>3. NextRecord(f, read[n + k]) = read[n + k]
    BY <1>2, <2>2, RecordsStay
  <2>. QED BY <2>2, <2>3
<1>10. AtRecord(read[h], Len(f) + 1, r)
  <2>1. Nat \subseteq Rest
    <3>. HIDE DEF Rest
    <3>. QED BY <1>8, <1>9, NumbersInduction
  <2>2. h - n \in Nat /\ n + (h - n) = h /\ h <= h
    BY <1>1
  <2>3. h - n \in Rest
    <3>. HIDE DEF Rest
    <3>. QED BY <2>1, <2>2
  <2>. QED BY <2>2, <2>3
<1>11. Records(f) = read[h].records
  BY <1>1, <1>3, Zenon DEF Records
<1>. QED BY <1>10, <1>11 DEF AtRecord
-----------------------------------------------------------------------------
(* What the node makes of its records.                                     *)
Storables ==
    {p \in Pairs : IsPair(p) /\ Len(p.url) < StringMax /\ Len(RecordOf(p)) <= BUFFERSIZE}
RecordsOf(ps) == [i \in DOMAIN ps |-> RecordOf(ps[i])]

LEMMA RecordIsCells ==
    ASSUME PairsFit, NEW q, IsPair(q)
    PROVE  pair(q) \in Seq(Slot) /\ RecordOf(q) \in Seq(Slot)
<1>1. srcurl \in Seq(Nat)
  BY DEF PairsFit
<1>2. PICK w, x, y, z : Runs(q, w, x, y, z)
  BY <1>1, RecordCells
<1>. QED BY <1>2 DEF Runs

(* A record is parsed by the node as it was written, if there is room for  *)
(* its URL.                                                                *)
LEMMA MessageIs ==
    ASSUME PairsFit, NEW q, IsPair(q)
    PROVE  /\ Len(q.url) < StringMax =>
                  /\ parseMessage(RecordOf(q)).wrong = 0
                  /\ parseMessage(RecordOf(q)).parts = PartsOf(q)
           /\ ~(Len(q.url) < StringMax) => parseMessage(RecordOf(q)).wrong = 2
<1>1. srcurl \in Seq(Nat) /\ StringMax \in Nat /\ Len(srcurl) < StringMax
  BY DEF PairsFit
<1>2. RecordOf(q) \in Seq(Slot)
  BY RecordIsCells
<1>3. PICK b \in Seq(Slot) : b = RecordOf(q)
  BY <1>2
<1>4. PICK at \in Nat \ {0} : at = 1
  OBVIOUS
<1>5. Holds(b, at, RecordOf(q))
  BY <1>3, <1>4, HoldsItself
<1>6. /\ Len(q.url) < StringMax =>
             Parts(b, at, StringMax)
                 = [wrong |-> 0, next |-> at + Len(RecordOf(q)), parts |-> PartsOf(q)]
      /\ ~(Len(q.url) < StringMax) => Parts(b, at, StringMax).wrong = 2
  BY <1>1, <1>5, PartsAre
<1>7. parseMessage(RecordOf(q)) = Parts(b, at, StringMax)
  BY <1>3, <1>4 DEF parseMessage
<1>. QED BY <1>6, <1>7

LEMMA ParsedIs ==
    ASSUME NEW q, NEW m, m.parts = PartsOf(q)
    PROVE  Parsed(m) = AsParsed(q)
<1>1. PICK s : s = m.parts
  OBVIOUS
<1>2. s[1] = q.addr /\ s[2] = q.url /\ s[3] = triggersetup(q) /\ s[4] = srcurl
  BY <1>1, FourParts DEF PartsOf
<1>3. Parsed(m) = [addr |-> s[1], url |-> s[2], triggers |-> s[3], src |-> s[4]]
  BY <1>1, Zenon DEF Parsed
<1>. QED BY <1>2, <1>3, Zenon DEF AsParsed

LEMMA RecordsOfAre ==
    ASSUME PairsFit, NEW ps \in Seq(Storables)
    PROVE  /\ RecordsOf(ps) \in Seq(Seq(Slot)) /\ Len(RecordsOf(ps)) = Len(ps)
           /\ \A i \in 1..Len(ps) : /\ RecordsOf(ps)[i] = RecordOf(ps[i])
                                    /\ Len(RecordsOf(ps)[i]) <= BUFFERSIZE
<1>1. PICK n \in Nat : n = Len(ps)
  BY LenProperties
<1>2. DOMAIN ps = 1..n
  BY <1>1, LenProperties
<1>3. \A i \in 1..n : ps[i] \in Storables
  BY <1>1, ElementOfSeq
<1>4. \A i \in 1..n : RecordOf(ps[i]) \in Seq(Slot)
  BY <1>3, RecordIsCells DEF Storables
<1>5. PICK r : r = [i \in 1..n |-> RecordOf(ps[i])]
  OBVIOUS
<1>6. r \in [1..n -> Seq(Slot)] /\ \A i \in 1..n : r[i] = RecordOf(ps[i])
  BY <1>4, <1>5
<1>7. r \in Seq(Seq(Slot)) /\ Len(r) = n
  BY <1>6, IsASeq
<1>8. RecordsOf(ps) = r
  BY <1>2, <1>5, Zenon DEF RecordsOf
<1>9. \A i \in 1..n : Len(r[i]) <= BUFFERSIZE
  BY <1>3, <1>6 DEF Storables
<1>. QED BY <1>1, <1>6, <1>7, <1>8, <1>9

(* What a restart restores is what was joined.                             *)
LEMMA RestoredIs ==
    ASSUME PairsFit, NEW ps \in Seq(Storables), NEW f, NEW at, Laid(f, RecordsOf(ps), at)
    PROVE  restore_SensorPairs(f) = [i \in DOMAIN ps |-> AsParsed(ps[i])]
<1>1. PICK n \in Nat : n = Len(ps)
  BY LenProperties
<1>2. DOMAIN ps = 1..n
  BY <1>1, LenProperties
<1>3. PICK r : r = RecordsOf(ps)
  OBVIOUS
<1>4. r \in Seq(Seq(Slot)) /\ Len(r) = n /\ \A i \in 1..n : r[i] = RecordOf(ps[i])
  BY <1>1, <1>3, RecordsOfAre
<1>5. DOMAIN r = 1..n
  BY <1>4, LenProperties
<1>6. Records(f) = r
  BY <1>1, <1>3, RecordsOfAre, RecordsAre
<1>7. PICK ms : ms = [i \in 1..n |-> parseMessage(r[i])]
  OBVIOUS
<1>8. AllParsed(Records(f)) = ms
  BY <1>5, <1>6, <1>7, Zenon DEF AllParsed
<1>9. ASSUME NEW i \in 1..n
      PROVE  ms[i].wrong = 0 /\ ms[i].parts = PartsOf(ps[i])
  <2>1. ps[i] \in Storables
    BY <1>1, ElementOfSeq
  <2>2. IsPair(ps[i]) /\ Len(ps[i].url) < StringMax
    BY <2>1 DEF Storables
  <2>3. ms[i] = parseMessage(RecordOf(ps[i]))
    BY <1>4, <1>7
  <2>. QED BY <2>2, <2>3, MessageIs
<1>10. DOMAIN ms = 1..n
  BY <1>7
<1>11. PICK T : T = Range(ms)
  OBVIOUS
<1>12. T = {ms[i] : i \in 1..n}
  BY <1>10, <1>11, Zenon DEF Range
<1>13. ms \in Seq(T)
  <2>1. ms \in [1..n -> T]
    BY <1>7, <1>12
  <2>. QED BY <2>1
<1>14. {m \in T : m.wrong = 0} = T
  BY <1>9, <1>12
<1>15. WholeOnes(ms) = ms
  <2>1. WholeOnes(ms) = Only(ms, T)
    BY <1>11, <1>14, Zenon DEF WholeOnes
  <2>. QED BY <1>13, <2>1, OnlyAll
<1>16. restore_SensorPairs(f) = [i \in DOMAIN ms |-> Parsed(ms[i])]
  BY <1>8, <1>15, Zenon DEF restore_SensorPairs
<1>17. \A i \in 1..n : Parsed(ms[i]) = AsParsed(ps[i])
  BY <1>9, ParsedIs
<1>18. [i \in 1..n |-> Parsed(ms[i])] = [i \in 1..n |-> AsParsed(ps[i])]
  BY <1>17
<1>. QED BY <1>2, <1>10, <1>16, <1>18
-----------------------------------------------------------------------------
(* What the user sees of the records.                                      *)

LEMMA JoinedOne ==
    ASSUME NEW S, NEW l \in Seq(S), NEW e \in S
    PROVE  l \o <<e>> = Append(l, e)
<1>1. PICK a, c, n : a = l \o <<e>> /\ c = Append(l, e) /\ n = Len(l)
  OBVIOUS
<1>2. <<e>> \in Seq(S) /\ Len(<<e>>) = 1 /\ <<e>>[1] = e
  OBVIOUS
<1>3. /\ a \in Seq(S) /\ Len(a) = n + 1 /\ n \in Nat
      /\ \A i \in 1..n : a[i] = l[i]
      /\ \A i \in 1..1 : a[n + i] = <<e>>[i]
  BY <1>1, <1>2, CellsJoined
<1>4. a[n + 1] = e
  BY <1>2, <1>3
<1>5. c \in Seq(S) /\ Len(c) = n + 1 /\ c[n + 1] = e /\ \A i \in 1..n : c[i] = l[i]
  BY <1>1, AppendProperties
<1>6. \A i \in 1..n + 1 : i \in 1..n \/ i = n + 1
  BY <1>3
<1>7. \A i \in 1..n + 1 : a[i] = c[i]
  BY <1>3, <1>4, <1>5, <1>6
<1>8. a = c
  BY <1>3, <1>5, <1>7, SeqEqual
<1>. QED BY <1>1, <1>8

(* The actions are read from the triggers.                                 *)
LEMMA ActionsAre ==
    ASSUME NEW q, IsPair(q), NEW s, s = triggersetup(q)
    PROVE  [e \in {Events[i] : i \in {j \in 1..3 : s[j] # -1}} |->
               s[CHOOSE i \in 1..3 : Events[i] = e]] = q.actions
<1>1. PICK d, a : a = q.actions /\ d = DOMAIN a
  OBVIOUS
<1>2. a \in [d -> Nat] /\ d \subseteq Range(Events)
  BY <1>1 DEF IsPair
<1>3. \A i \in 1..3 : s[i] = IF Events[i] \in d THEN a[Events[i]] ELSE -1
  BY <1>1, TriggersAre
<1>4. Events = <<"above", "below", "change">>
  BY DEF Events
<1>5. DOMAIN Events = 1..3 /\ \A i, j \in 1..3 : Events[i] = Events[j] => i = j
  BY <1>4
<1>6. \A e \in d : \E i \in 1..3 : e = Events[i]
  BY <1>2, <1>5 DEF Range
<1>7. \A i \in 1..3 : s[i] # -1 <=> Events[i] \in d
  <2>1. \A e \in d : a[e] # -1
    <3>1. \A e \in d : a[e] \in Nat
      BY <1>2
    <3>2. \A v \in Nat : v # -1
      OBVIOUS
    <3>. QED BY <3>1, <3>2
  <2>. QED BY <1>3, <2>1
<1>8. PICK D : D = {Events[i] : i \in {j \in 1..3 : s[j] # -1}}
  OBVIOUS
<1>9. D = d
  <2>1. \A e \in D : e \in d
    BY <1>7, <1>8
  <2>2. \A e \in d : e \in D
    BY <1>6, <1>7, <1>8
  <2>. QED BY <2>1, <2>2
<1>10. ASSUME NEW e \in d
       PROVE  s[CHOOSE i \in 1..3 : Events[i] = e] = a[e]
  <2>1. PICK j : j = CHOOSE i \in 1..3 : Events[i] = e
    OBVIOUS
  <2>2. j \in 1..3 /\ Events[j] = e
    BY <1>6, <2>1
  <2>. QED BY <1>3, <2>1, <2>2
<1>11. [e \in d |-> s[CHOOSE i \in 1..3 : Events[i] = e]] = [e \in d |-> a[e]]
  BY <1>10
<1>12. [e \in d |-> a[e]] = a
  BY <1>2
<1>. QED BY <1>1, <1>8, <1>9, <1>11, <1>12

LEMMA RowIs ==
    ASSUME NEW q, IsPair(q), NEW m, m.parts = PartsOf(q)
    PROVE  Len(m.parts[3]) = 3 /\ Row(m) = AsShown(q)
<1>1. PICK s : s = m.parts
  OBVIOUS
<1>2. s[1] = q.addr /\ s[2] = q.url /\ s[3] = triggersetup(q) /\ s[4] = srcurl
  BY <1>1, FourParts DEF PartsOf
<1>3. Len(s[3]) = 3
  BY <1>2, TriggersAre
<1>4. [e \in {Events[i] : i \in {j \in 1..3 : m.parts[3][j] # -1}} |->
          m.parts[3][CHOOSE i \in 1..3 : Events[i] = e]] = q.actions
  <2>1. m.parts[3] = triggersetup(q)
    BY <1>1, <1>2
  <2>. QED BY <2>1, ActionsAre
<1>5. PICK a : a = [e \in {Events[i] : i \in {j \in 1..3 : m.parts[3][j] # -1}} |->
                       m.parts[3][CHOOSE i \in 1..3 : Events[i] = e]]
  OBVIOUS
<1>6. Row(m) = [addr |-> m.parts[1], url |-> m.parts[2], src |-> m.parts[4], actions |-> a]
  BY <1>5, Zenon DEF Row
<1>7. a = q.actions
  BY <1>4, <1>5
<1>8. Row(m) = [addr |-> q.addr, url |-> q.url, src |-> srcurl, actions |-> q.actions]
  BY <1>1, <1>2, <1>6, <1>7
<1>9. [addr |-> q.addr, url |-> q.url, src |-> srcurl, actions |-> q.actions] = AsShown(q)
  BY DEF AsShown
<1>. QED BY <1>1, <1>3, <1>8, <1>9

(* The pairs up to the first one with a long URL.                          *)
LEMMA UpToLongIs ==
    ASSUME NEW S, NEW ps \in Seq(S)
    PROVE  \E m \in 0..Len(ps) :
              /\ UpToLong(ps) = [i \in 1..m |-> ps[i]]
              /\ \A i \in 1..m : Short(ps[i])
              /\ m < Len(ps) => ~Short(ps[m + 1])
<1>1. PICK n \in Nat : n = Len(ps)
  BY LenProperties
<1>2. DOMAIN ps = 1..n
  BY <1>1, LenProperties
<1> DEFINE long == {i \in DOMAIN ps : ~Short(ps[i])}
<1>3. long = {i \in DOMAIN ps : ~Short(ps[i])}
  OBVIOUS
<1>4. UpToLong(ps) = IF long = {} THEN ps
                     ELSE SubSeq(ps, 1, CHOOSE i \in 0..Len(ps) :
                                            i + 1 \in long /\ \A j \in 1..i : j \notin long)
  BY Zenon DEF UpToLong
<1>. HIDE DEF long
<1>5. \A i \in 1..n : i \in long <=> ~Short(ps[i])
  BY <1>2, <1>3
<1>6. CASE long = {}
  <2>1. UpToLong(ps) = ps
    BY <1>4, <1>6
  <2>2. ps = [i \in 1..n |-> ps[i]]
    BY <1>1
  <2>3. n \in 0..n /\ ~(n < n)
    OBVIOUS
  <2>. QED BY <1>1, <1>5, <1>6, <2>1, <2>2, <2>3
<1>7. CASE long # {}
  <2>1. long \in SUBSET Nat
    BY <1>2, <1>3
  <2>2. PICK x \in long : \A y \in long : x <= y
    BY <1>7, <2>1, LeastNumber
  <2>3. x \in 1..n
    BY <1>2, <1>3
  <2>4. x - 1 \in 0..n /\ (x - 1) + 1 \in long /\ \A j \in 1..x - 1 : j \notin long
    BY <2>2, <2>3
  <2>5. PICK m : m = CHOOSE i \in 0..n : i + 1 \in long /\ \A j \in 1..i : j \notin long
    OBVIOUS
  <2>6. m \in 0..n /\ m + 1 \in long /\ \A j \in 1..m : j \notin long
    BY <2>4, <2>5
  <2>7. m + 1 \in 1..n
    BY <1>2, <1>3, <2>6
  <2>8. \A i \in 1..m : i \in 1..n
    BY <2>6
  <2>9. UpToLong(ps) = SubSeq(ps, 1, m)
    BY <1>1, <1>4, <1>7, <2>5
  <2>10. SubSeq(ps, 1, m) = [i \in 1..m |-> ps[i]]
    <3>1. PICK c : c = SubSeq(ps, 1, m)
      OBVIOUS
    <3>2. \A i \in 1..m : ps[i] \in S
      BY <1>1, <2>8, ElementOfSeq
    <3>3. c \in Seq(S) /\ Len(c) = (IF 1 <= m THEN m - 1 + 1 ELSE 0)
          /\ \A i \in 1..m - 1 + 1 : c[i] = ps[1 + i - 1]
      BY <2>6, <3>1, <3>2, SubSeqProperties
    <3>4. (IF 1 <= m THEN m - 1 + 1 ELSE 0) = m /\ m - 1 + 1 = m /\ \A i \in 1..m : 1 + i - 1 = i
      BY <2>6
    <3>5. Len(c) = m /\ \A i \in 1..m : c[i] = ps[i]
      BY <3>3, <3>4
    <3>6. c = [i \in 1..m |-> c[i]]
      BY <3>3, <3>5
    <3>. QED BY <3>1, <3>5, <3>6
  <2>. QED BY <1>1, <1>5, <2>6, <2>7, <2>8, <2>9, <2>10
<1>. QED BY <1>6, <1>7
AtRow(s, p, l) == s = [next |-> p, list |-> l]

(* A record that is shown, and one whose URL is too long.                  *)
LEMMA NextRowIs ==
    ASSUME PairsFit, NEW f \in Seq(Slot), NEW p, NEW q, IsPair(q), NEW next,
           HeadAt(f, p, RecordOf(q), next), NEW s, NEW R, NEW l \in Seq(R),
           AtRow(s, p, l), AsShown(q) \in R
    PROVE  /\ Short(q) => AtRow(NextRow(f, s), next, Append(l, AsShown(q)))
           /\ ~Short(q) => AtRow(NextRow(f, s), Len(f) + 1, l)
<1>1. PICK t \in RecordTypes, n \in Nat \ {0} :
        /\ cmp_read_object(f, p) = [type |-> t, val |-> Len(RecordOf(q)), next |-> n]
        /\ Holds(f, n, RecordOf(q)) /\ next = n + Len(RecordOf(q))
  BY DEF HeadAt
<1>2. s.next = p /\ s.list = l
  BY DEF AtRow
<1>3. PICK h : h = cmp_read_object(f, s.next)
  OBVIOUS
<1>4. h.type \in RecordTypes /\ h.next = n
  BY <1>1, <1>2, <1>3
<1>5. PICK m : m = Parts(f, n, ShownMax)
  OBVIOUS
<1>6. srcurl \in Seq(Nat) /\ ShownMax \in Nat /\ Len(srcurl) < ShownMax
  BY DEF PairsFit
<1>7. /\ Len(q.url) < ShownMax =>
            m = [wrong |-> 0, next |-> n + Len(RecordOf(q)), parts |-> PartsOf(q)]
      /\ ~(Len(q.url) < ShownMax) => m.wrong = 2
  BY <1>1, <1>5, <1>6, PartsAre
<1>8. PICK r : r = parsePairList(f, h.next)
  OBVIOUS
<1>9. NextRow(f, s) = [next |-> r.next, list |-> l \o r.row]
  BY <1>2, <1>3, <1>4, <1>8, Zenon DEF NextRow
<1>10. r = IF m.wrong = 0 /\ Len(m.parts[3]) = 3 THEN [row |-> <<Row(m)>>, next |-> m.next]
           ELSE [row |-> <<>>, next |-> Len(f) + 1]
  BY <1>4, <1>5, <1>8, Zenon DEF parsePairList
<1>11. ASSUME Short(q)
       PROVE  AtRow(NextRow(f, s), next, Append(l, AsShown(q)))
  <2>1. m.wrong = 0 /\ m.next = n + Len(RecordOf(q)) /\ m.parts = PartsOf(q)
    BY <1>7, <1>11 DEF Short
  <2>2. Len(m.parts[3]) = 3 /\ Row(m) = AsShown(q)
    BY <2>1, RowIs
  <2>3. r.row = <<AsShown(q)>> /\ r.next = next
    <3>1. r = [row |-> <<Row(m)>>, next |-> m.next]
      BY <1>10, <2>1, <2>2
    <3>. QED BY <1>1, <2>1, <2>2, <3>1
  <2>4. l \o <<AsShown(q)>> = Append(l, AsShown(q))
    BY JoinedOne
  <2>. QED BY <1>9, <2>3, <2>4 DEF AtRow
<1>12. ASSUME ~Short(q)
       PROVE  AtRow(NextRow(f, s), Len(f) + 1, l)
  <2>1. m.wrong = 2
    BY <1>7, <1>12 DEF Short
  <2>2. m.wrong # 0
    BY <2>1
  <2>3. r = [row |-> <<>>, next |-> Len(f) + 1]
    BY <1>10, <2>2
  <2>4. l \o <<>> = l
    BY ConcatEmptySeq
  <2>. QED BY <1>9, <2>3, <2>4 DEF AtRow
<1>. QED BY <1>11, <1>12

LEMMA RowsStay ==
    ASSUME NEW f \in Seq(Slot), NEW s, NEW l, AtRow(s, Len(f) + 1, l)
    PROVE  NextRow(f, s) = s
<1>1. s.next = Len(f) + 1
  BY DEF AtRow
<1>2. PICK h : h = cmp_read_object(f, s.next)
  OBVIOUS
<1>3. h.type \notin RecordTypes
  BY <1>1, <1>2, NoObject
<1>. QED BY <1>2, <1>3, Zenon DEF NextRow

(* The list shows the pairs up to the first one with a long URL.           *)
LEMMA RowsAre ==
    ASSUME PairsFit, NEW ps \in Seq(Storables), NEW f, NEW at, Laid(f, RecordsOf(ps), at)
    PROVE  parseList(f) = [k \in DOMAIN UpToLong(ps) |-> AsShown(UpToLong(ps)[k])]
<1>0. PICK r : r = RecordsOf(ps)
  OBVIOUS
<1>1. PICK n \in Nat, h \in Nat : n = Len(ps) /\ n = Len(r) /\ h = Heads(f) /\ n <= h
  <2>1. Len(r) = Len(ps)
    BY <1>0, RecordsOfAre
  <2>. QED BY <1>0, <2>1, HeadsOf
<1>2. /\ f \in Seq(Slot) /\ at[1] = 1 /\ at[n + 1] = Len(f) + 1
      /\ \A i \in 1..n : HeadAt(f, at[i], r[i], at[i + 1])
  BY <1>0, <1>1 DEF Laid
<1>3. \A i \in 1..n : r[i] = RecordOf(ps[i])
  BY <1>0, <1>1, RecordsOfAre
<1>4. \A i \in 1..n : ps[i] \in Storables
  BY <1>1, ElementOfSeq
<1>5. \A i \in 1..n : IsPair(ps[i]) /\ HeadAt(f, at[i], RecordOf(ps[i]), at[i + 1])
  BY <1>2, <1>3, <1>4 DEF Storables
<1>6. PICK m \in 0..n :
        /\ UpToLong(ps) = [i \in 1..m |-> ps[i]]
        /\ \A i \in 1..m : Short(ps[i])
        /\ m < n => ~Short(ps[m + 1])
  BY <1>1, UpToLongIs
<1>7. PICK g : g = [i \in 1..n |-> AsShown(ps[i])]
  OBVIOUS
<1>8. PICK R : R = {AsShown(ps[i]) : i \in 1..n}
  OBVIOUS
<1>9. \A i \in 1..n : g[i] = AsShown(ps[i]) /\ AsShown(ps[i]) \in R
  BY <1>7, <1>8
<1>10. PICK read : read = RowsUpTo(f)
  OBVIOUS
<1>11. /\ read[0] = [next |-> 1, list |-> <<>>]
       /\ \A k \in 1..h : read[k] = NextRow(f, read[k - 1])
  BY <1>1, <1>10, RowsUpToDef
<1> DEFINE Cut(k) == [i \in 1..k |-> g[i]]
           Ok == {k \in Nat : k <= m => AtRow(read[k], at[k + 1], Cut(k))}
           Rest == {k \in Nat :
                k <= h => (k > m \/ (k = m /\ m = n) => AtRow(read[k], Len(f) + 1, Cut(m)))}
<1>12. \A k \in 0..n : Cut(k) \in Seq(R)
  <2>. SUFFICES ASSUME NEW k \in 0..n
                PROVE  Cut(k) \in Seq(R)
    OBVIOUS
  <2>1. \A i \in 1..k : g[i] \in R
    BY <1>9
  <2>. QED BY <2>1, IsASeq
<1>13. 0 \in Ok
  <2>1. Cut(0) = <<>> /\ 0 + 1 = 1
    OBVIOUS
  <2>. HIDE DEF Cut
  <2>2. AtRow(read[0], at[0 + 1], Cut(0))
    BY <1>2, <1>11, <2>1 DEF AtRow
  <2>. QED BY <2>2
<1>14. ASSUME NEW k \in Ok \cap Nat
       PROVE  k + 1 \in Ok
  <2>. SUFFICES ASSUME k + 1 <= m
                PROVE  AtRow(read[k + 1], at[(k + 1) + 1], Cut(k + 1))
    OBVIOUS
  <2>1. k <= m /\ k + 1 \in 1..m /\ k + 1 \in 1..n /\ k + 1 \in 1..h /\ (k + 1) - 1 = k /\ k \in 0..n
    BY <1>1, <1>6
  <2>2. AtRow(read[k], at[k + 1], Cut(k)) /\ read[k + 1] = NextRow(f, read[k])
    <3>. HIDE DEF Cut
    <3>. QED BY <1>11, <2>1
  <2>3. PICK q : q = ps[k + 1]
    OBVIOUS
  <2>4. /\ IsPair(q) /\ HeadAt(f, at[k + 1], RecordOf(q), at[(k + 1) + 1])
        /\ g[k + 1] = AsShown(q) /\ AsShown(q) \in R /\ Short(q)
    BY <1>5, <1>6, <1>9, <2>1, <2>3
  <2>5. Append(Cut(k), g[k + 1]) = Cut(k + 1)
    BY <2>1, CutAppend
  <2>6. Cut(k) \in Seq(R)
    <3>. HIDE DEF Cut
    <3>. QED BY <1>12, <2>1
  <2>. HIDE DEF Cut
  <2>7. AtRow(NextRow(f, read[k]), at[(k + 1) + 1], Append(Cut(k), AsShown(q)))
    BY <1>2, <2>2, <2>4, <2>6, NextRowIs
  <2>. QED BY <2>2, <2>4, <2>5, <2>7
<1>15. AtRow(read[m], at[m + 1], Cut(m))
  <2>1. Nat \subseteq Ok
    <3>. HIDE DEF Ok
    <3>. QED BY <1>13, <1>14, NumbersInduction
  <2>2. m \in Ok /\ m <= m
    <3>. HIDE DEF Ok
    <3>. QED BY <2>1
  <2>. HIDE DEF Cut
  <2>. QED BY <2>2
<1>16. Cut(m) \in Seq(R)
  <2>. HIDE DEF Cut
  <2>. QED BY <1>12
<1>. HIDE DEF Cut
<1>17. 0 \in Rest
  <2>. SUFFICES ASSUME 0 > m \/ (0 = m /\ m = n)
                PROVE  AtRow(read[0], Len(f) + 1, Cut(m))
    OBVIOUS
  <2>1. m = 0 /\ n = 0
    OBVIOUS
  <2>. QED BY <1>2, <1>15, <2>1
<1>18. ASSUME NEW k \in Rest \cap Nat
       PROVE  k + 1 \in Rest
  <2>. SUFFICES ASSUME k + 1 <= h, k + 1 > m \/ (k + 1 = m /\ m = n)
                PROVE  AtRow(read[k + 1], Len(f) + 1, Cut(m))
    OBVIOUS
  <2>1. k + 1 \in 1..h /\ (k + 1) - 1 = k
    OBVIOUS
  <2>2. read[k + 1] = NextRow(f, read[k])
    BY <1>11, <2>1
  <2>3. CASE k + 1 = m
    <3>1. m = n /\ k + 1 = n
      BY <2>3
    <3>. QED BY <1>2, <1>15, <2>3, <3>1
  <2>4. CASE k = m /\ m < n
    <3>1. m + 1 \in 1..n /\ ~Short(ps[m + 1])
      BY <1>6, <2>4
    <3>2. PICK q : q = ps[m + 1]
      OBVIOUS
    <3>3. IsPair(q) /\ HeadAt(f, at[m + 1], RecordOf(q), at[(m + 1) + 1]) /\ AsShown(q) \in R
      BY <1>5, <1>9, <3>1, <3>2
    <3>4. AtRow(NextRow(f, read[m]), Len(f) + 1, Cut(m))
      BY <1>2, <1>15, <1>16, <3>1, <3>2, <3>3, NextRowIs
    <3>. QED BY <2>2, <2>4, <3>4
  <2>5. CASE k > m \/ (k = m /\ m = n)
    <3>1. AtRow(read[k], Len(f) + 1, Cut(m))
      BY <2>5
    <3>2. NextRow(f, read[k]) = read[k]
      BY <1>2, <3>1, RowsStay
    <3>. QED BY <2>2, <3>1, <3>2
  <2>. QED BY <2>3, <2>4, <2>5
<1>19. AtRow(read[h], Len(f) + 1, Cut(m))
  <2>1. Nat \subseteq Rest
    <3>. HIDE DEF Rest
    <3>. QED BY <1>17, <1>18, NumbersInduction
  <2>2. h \in Rest
    <3>. HIDE DEF Rest
    <3>. QED BY <2>1
  <2>3. CASE h > m \/ (h = m /\ m = n)
    BY <2>2, <2>3
  <2>4. CASE ~(h > m \/ (h = m /\ m = n))
    BY <1>1, <2>4
  <2>. QED BY <2>3, <2>4
<1>20. parseList(f) = read[h].list
  BY <1>1, <1>10, Zenon DEF parseList
<1>21. Cut(m) = [k \in 1..m |-> AsShown(ps[k])]
  <2>1. \A k \in 1..m : g[k] = AsShown(ps[k])
    BY <1>9
  <2>. QED BY <2>1 DEF Cut
<1>22. [k \in DOMAIN UpToLong(ps) |-> AsShown(UpToLong(ps)[k])] = [k \in 1..m |-> AsShown(ps[k])]
  <2>1. PICK u : u = UpToLong(ps)
    OBVIOUS
  <2>2. DOMAIN u = 1..m /\ \A k \in 1..m : u[k] = ps[k]
    BY <1>6, <2>1
  <2>3. [k \in DOMAIN u |-> AsShown(u[k])] = [k \in 1..m |-> AsShown(ps[k])]
    BY <2>2
  <2>. QED BY <2>1, <2>3
<1>. QED BY <1>19, <1>20, <1>21, <1>22 DEF AtRow
-----------------------------------------------------------------------------
(* What a removal keeps.                                                   *)

LEMMA RecordsAppend ==
    ASSUME PairsFit, NEW ps \in Seq(Storables), NEW e \in Storables
    PROVE  RecordsOf(Append(ps, e)) = Append(RecordsOf(ps), RecordOf(e))
<1>1. PICK n \in Nat, qs \in {Append(ps, e)} : n = Len(ps) /\ qs = Append(ps, e)
  BY LenProperties
<1>2. qs \in Seq(Storables) /\ Len(qs) = n + 1 /\ qs[n + 1] = e /\ \A i \in 1..n : qs[i] = ps[i]
  BY <1>1, AppendProperties
<1>3. PICK r, s, c : r = RecordsOf(ps) /\ s = RecordsOf(qs) /\ c = Append(r, RecordOf(e))
  OBVIOUS
<1>4. /\ r \in Seq(Seq(Slot)) /\ Len(r) = n /\ \A i \in 1..n : r[i] = RecordOf(ps[i])
      /\ s \in Seq(Seq(Slot)) /\ Len(s) = n + 1 /\ \A i \in 1..n + 1 : s[i] = RecordOf(qs[i])
  <2>1. Len(r) = n /\ r \in Seq(Seq(Slot)) /\ \A i \in 1..n : r[i] = RecordOf(ps[i])
    BY <1>1, <1>3, RecordsOfAre
  <2>2. s \in Seq(Seq(Slot)) /\ Len(s) = Len(qs) /\ \A i \in 1..Len(qs) : s[i] = RecordOf(qs[i])
    BY <1>2, <1>3, RecordsOfAre
  <2>. QED BY <1>2, <2>1, <2>2
<1>5. RecordOf(e) \in Seq(Slot)
  BY RecordIsCells DEF Storables
<1>6. /\ c \in Seq(Seq(Slot)) /\ Len(c) = n + 1 /\ c[n + 1] = RecordOf(e)
      /\ \A i \in 1..n : c[i] = r[i]
  BY <1>3, <1>4, <1>5, AppendProperties
<1>7. ASSUME NEW i \in 1..n + 1
      PROVE  s[i] = c[i]
  <2>1. CASE i = n + 1
    BY <1>2, <1>4, <1>6, <2>1
  <2>2. CASE i # n + 1
    <3>1. i \in 1..n
      BY <2>2
    <3>2. s[i] = RecordOf(ps[i]) /\ c[i] = RecordOf(ps[i])
      BY <1>2, <1>4, <1>6, <3>1
    <3>. QED BY <3>2
  <2>. QED BY <2>1, <2>2
<1>8. s = c
  BY <1>4, <1>6, <1>7, SeqEqual
<1>. QED BY <1>1, <1>3, <1>8

(* The same is copied of the records and of the pairs.                     *)
Alike(x, y, k) ==
    \E j, l : /\ x = [i |-> j, kept |-> l] /\ y = [i |-> j, kept |-> RecordsOf(l)]
              /\ l \in Seq(Storables) /\ Len(l) <= k

LEMMA NextAlike ==
    ASSUME PairsFit, NEW ps \in Seq(Storables), NEW ids, NEW k \in Nat, k + 1 <= Len(ps),
           NEW x, NEW y, Alike(x, y, k)
    PROVE  Alike(NextKept(ps, ids, x, k + 1), NextKept(RecordsOf(ps), ids, y, k + 1), k + 1)
<1>1. PICK j, l : /\ x = [i |-> j, kept |-> l] /\ y = [i |-> j, kept |-> RecordsOf(l)]
                  /\ l \in Seq(Storables) /\ Len(l) <= k
  BY DEF Alike
<1>2. x.i = j /\ x.kept = l /\ y.i = j /\ y.kept = RecordsOf(l)
  BY <1>1
<1>3. PICK n \in Nat : n = Len(ps)
  BY LenProperties
<1>4. k + 1 \in 1..n
  BY <1>3
<1>5. PICK e : e = ps[k + 1]
  OBVIOUS
<1>6. e \in Storables /\ RecordsOf(ps)[k + 1] = RecordOf(e)
  BY <1>3, <1>4, <1>5, ElementOfSeq, RecordsOfAre
<1>7. PICK cond : cond = (j <= Len(ids) /\ ids[j] = (k + 1) - 1)
  OBVIOUS
<1>8. /\ NextKept(ps, ids, x, k + 1) = IF cond THEN [x EXCEPT !.i = @ + 1]
                                       ELSE [x EXCEPT !.kept = Append(@, ps[k + 1])]
      /\ NextKept(RecordsOf(ps), ids, y, k + 1) =
             IF cond THEN [y EXCEPT !.i = @ + 1]
             ELSE [y EXCEPT !.kept = Append(@, RecordsOf(ps)[k + 1])]
  BY <1>2, <1>7, Zenon DEF NextKept
<1>9. CASE cond
  <2>1. NextKept(ps, ids, x, k + 1) = [i |-> j + 1, kept |-> l]
    <3>1. [x EXCEPT !.i = @ + 1] = [i |-> j + 1, kept |-> l]
      BY <1>1
    <3>. QED BY <1>8, <1>9, <3>1
  <2>2. NextKept(RecordsOf(ps), ids, y, k + 1) = [i |-> j + 1, kept |-> RecordsOf(l)]
    <3>1. [y EXCEPT !.i = @ + 1] = [i |-> j + 1, kept |-> RecordsOf(l)]
      BY <1>1
    <3>. QED BY <1>8, <1>9, <3>1
  <2>3. Len(l) <= k + 1
    BY <1>1, LenProperties
  <2>. QED BY <1>1, <2>1, <2>2, <2>3 DEF Alike
<1>10. CASE ~cond
  <2>1. NextKept(ps, ids, x, k + 1) = [i |-> j, kept |-> Append(l, e)]
    <3>1. PICK w : w = Append(x.kept, ps[k + 1])
      OBVIOUS
    <3>2. [x EXCEPT !.kept = Append(@, ps[k + 1])] = [x EXCEPT !.kept = w]
      BY <3>1, Zenon
    <3>3. [x EXCEPT !.kept = w] = [i |-> j, kept |-> w]
      BY <1>1
    <3>4. w = Append(l, e)
      BY <1>2, <1>5, <3>1
    <3>. QED BY <1>8, <1>10, <3>2, <3>3, <3>4
  <2>2. NextKept(RecordsOf(ps), ids, y, k + 1)
          = [i |-> j, kept |-> Append(RecordsOf(l), RecordOf(e))]
    <3>1. PICK w : w = Append(y.kept, RecordsOf(ps)[k + 1])
      OBVIOUS
    <3>2. [y EXCEPT !.kept = Append(@, RecordsOf(ps)[k + 1])] = [y EXCEPT !.kept = w]
      BY <3>1, Zenon
    <3>3. [y EXCEPT !.kept = w] = [i |-> j, kept |-> w]
      BY <1>1
    <3>4. w = Append(RecordsOf(l), RecordOf(e))
      BY <1>2, <1>6, <3>1
    <3>. QED BY <1>8, <1>10, <3>2, <3>3, <3>4
  <2>3. RecordsOf(Append(l, e)) = Append(RecordsOf(l), RecordOf(e))
    BY <1>1, <1>6, RecordsAppend
  <2>4. Append(l, e) \in Seq(Storables) /\ Len(Append(l, e)) = Len(l) + 1
    BY <1>1, <1>6, AppendProperties
  <2>5. Len(l) + 1 <= k + 1
    BY <1>1, LenProperties
  <2>. QED BY <2>1, <2>2, <2>3, <2>4, <2>5 DEF Alike
<1>. QED BY <1>7, <1>9, <1>10

LEMMA KeptIs ==
    ASSUME PairsFit, NEW ps \in Seq(Storables), NEW ids
    PROVE  /\ Kept(ps, ids) \in Seq(Storables) /\ Len(Kept(ps, ids)) <= Len(ps)
           /\ Kept(RecordsOf(ps), ids) = RecordsOf(Kept(ps, ids))
<1>1. PICK n \in Nat, r \in {RecordsOf(ps)} : n = Len(ps) /\ r = RecordsOf(ps)
  BY LenProperties
<1>2. Len(r) = n
  BY <1>1, RecordsOfAre
<1>3. PICK a, c : a = KeptUpTo(ps, ids) /\ c = KeptUpTo(r, ids)
  OBVIOUS
<1>4. /\ a[0] = [i |-> 1, kept |-> <<>>] /\ c[0] = [i |-> 1, kept |-> <<>>]
      /\ \A k \in 1..n : a[k] = NextKept(ps, ids, a[k - 1], k)
      /\ \A k \in 1..n : c[k] = NextKept(r, ids, c[k - 1], k)
  <2>1. a[0] = [i |-> 1, kept |-> <<>>] /\ \A k \in 1..n : a[k] = NextKept(ps, ids, a[k - 1], k)
    BY <1>1, <1>3, KeptUpToDef
  <2>2. c[0] = [i |-> 1, kept |-> <<>>] /\ \A k \in 1..n : c[k] = NextKept(r, ids, c[k - 1], k)
    BY <1>2, <1>3, KeptUpToDef
  <2>. QED BY <2>1, <2>2
<1> DEFINE Ok == {k \in Nat : k <= n => Alike(a[k], c[k], k)}
<1>5. 0 \in Ok
  <2>1. <<>> \in Seq(Storables) /\ Len(<<>>) <= 0
    BY EmptySeq
  <2>2. RecordsOf(<<>>) = <<>>
    <3>1. Len(RecordsOf(<<>>)) = 0 /\ RecordsOf(<<>>) \in Seq(Seq(Slot))
      <4>1. Len(<<>>) = 0
        OBVIOUS
      <4>. QED BY <2>1, <4>1, RecordsOfAre
    <3>. QED BY <3>1, EmptySeq
  <2>3. Alike(a[0], c[0], 0)
    BY <1>4, <2>1, <2>2 DEF Alike
  <2>. QED BY <2>3
<1>6. ASSUME NEW k \in Ok \cap Nat
      PROVE  k + 1 \in Ok
  <2>. SUFFICES ASSUME k + 1 <= n
                PROVE  Alike(a[k + 1], c[k + 1], k + 1)
    OBVIOUS
  <2>1. k <= n /\ k + 1 \in 1..n /\ (k + 1) - 1 = k
    OBVIOUS
  <2>2. Alike(a[k], c[k], k)
    BY <2>1
  <2>3. a[k + 1] = NextKept(ps, ids, a[k], k + 1) /\ c[k + 1] = NextKept(r, ids, c[k], k + 1)
    BY <1>4, <2>1
  <2>. QED BY <1>1, <2>2, <2>3, NextAlike
<1>7. Alike(a[n], c[n], n)
  <2>1. Nat \subseteq Ok
    <3>. HIDE DEF Ok
    <3>. QED BY <1>5, <1>6, NumbersInduction
  <2>2. n \in Ok /\ n <= n
    <3>. HIDE DEF Ok
    <3>. QED BY <2>1
  <2>. QED BY <2>2
<1>8. Kept(ps, ids) = a[n].kept /\ Kept(r, ids) = c[n].kept
  BY <1>1, <1>2, <1>3, Zenon DEF Kept
<1>9. PICK j, l : /\ a[n] = [i |-> j, kept |-> l] /\ c[n] = [i |-> j, kept |-> RecordsOf(l)]
                  /\ l \in Seq(Storables) /\ Len(l) <= n
  BY <1>7 DEF Alike
<1>. QED BY <1>1, <1>8, <1>9

-----------------------------------------------------------------------------
(* The file: the records of the pairs, one behind the other.               *)
FiledOf(ps) == [i \in DOMAIN ps |-> cmp_write_bin(RecordOf(ps[i]))]
InFile(f, ps) ==
    f \in Seq(Slot) /\ ps \in Seq(Storables) /\ \E at : Places(f, FiledOf(ps), at)

LEMMA FiledAre ==
    ASSUME PairsFit, NEW ps \in Seq(Storables)
    PROVE  /\ FiledOf(ps) \in Seq(Seq(Slot)) /\ Len(FiledOf(ps)) = Len(ps)
           /\ \A i \in 1..Len(ps) : FiledOf(ps)[i] = cmp_write_bin(RecordOf(ps[i]))
<1>1. PICK n \in Nat : n = Len(ps)
  BY LenProperties
<1>2. DOMAIN ps = 1..n
  BY <1>1, LenProperties
<1>3. \A i \in 1..n : ps[i] \in Storables
  BY <1>1, ElementOfSeq
<1>4. \A i \in 1..n : RecordOf(ps[i]) \in Seq(Slot)
  BY <1>3, RecordIsCells DEF Storables
<1>5. \A i \in 1..n : cmp_write_bin(RecordOf(ps[i])) \in Seq(Slot)
  BY <1>4, BinCells
<1>6. PICK r : r = [i \in 1..n |-> cmp_write_bin(RecordOf(ps[i]))]
  OBVIOUS
<1>7. r \in [1..n -> Seq(Slot)] /\ \A i \in 1..n : r[i] = cmp_write_bin(RecordOf(ps[i]))
  BY <1>5, <1>6
<1>8. r \in Seq(Seq(Slot)) /\ Len(r) = n
  BY <1>7, IsASeq
<1>9. FiledOf(ps) = r
  BY <1>2, <1>6, Zenon DEF FiledOf
<1>. QED BY <1>1, <1>7, <1>8, <1>9

LEMMA InFileNone == InFile(<<>>, <<>>)
<1>1. <<>> \in Seq(Slot) /\ <<>> \in Seq(Storables)
  BY EmptySeq
<1>2. FiledOf(<<>>) = <<>>
  BY DEF FiledOf
<1>. QED BY <1>1, <1>2, PlacesNone DEF InFile

LEMMA InFileAppend ==
    ASSUME PairsFit, NEW f, NEW ps, InFile(f, ps), NEW q \in Storables
    PROVE  InFile(f \o cmp_write_bin(RecordOf(q)), Append(ps, q))
<1>1. f \in Seq(Slot) /\ ps \in Seq(Storables)
  BY DEF InFile
<1>2. PICK at : Places(f, FiledOf(ps), at)
  BY DEF InFile
<1>3. PICK x : x = cmp_write_bin(RecordOf(q))
  OBVIOUS
<1>4. x \in Seq(Slot)
  <2>1. RecordOf(q) \in Seq(Slot)
    BY RecordIsCells DEF Storables
  <2>. QED BY <1>3, <2>1, BinCells
<1>5. PICK l, n, qs : l = FiledOf(ps) /\ n = Len(ps) /\ qs = Append(ps, q)
  OBVIOUS
<1>6. l \in Seq(Seq(Slot)) /\ Len(l) = n /\ n \in Nat
      /\ \A i \in 1..n : l[i] = cmp_write_bin(RecordOf(ps[i]))
  BY <1>1, <1>5, FiledAre, LenProperties
<1>7. qs \in Seq(Storables) /\ Len(qs) = n + 1 /\ qs[n + 1] = q /\ \A i \in 1..n : qs[i] = ps[i]
  BY <1>1, <1>5, AppendProperties
<1>8. PICK a, c : a = Append(l, x) /\ c = FiledOf(qs)
  OBVIOUS
<1>9. a \in Seq(Seq(Slot)) /\ Len(a) = n + 1 /\ a[n + 1] = x /\ \A i \in 1..n : a[i] = l[i]
  BY <1>4, <1>6, <1>8, AppendProperties
<1>10. /\ c \in Seq(Seq(Slot)) /\ Len(c) = n + 1
       /\ \A i \in 1..n + 1 : c[i] = cmp_write_bin(RecordOf(qs[i]))
  <2>1. /\ c \in Seq(Seq(Slot)) /\ Len(c) = Len(qs)
        /\ \A i \in 1..Len(qs) : c[i] = cmp_write_bin(RecordOf(qs[i]))
    BY <1>7, <1>8, FiledAre
  <2>. QED BY <1>7, <2>1
<1>11. ASSUME NEW i \in 1..n + 1
       PROVE  a[i] = c[i]
  <2>1. CASE i = n + 1
    BY <1>3, <1>7, <1>9, <1>10, <2>1
  <2>2. CASE i # n + 1
    <3>1. i \in 1..n
      BY <1>6, <2>2
    <3>2. a[i] = cmp_write_bin(RecordOf(ps[i])) /\ c[i] = cmp_write_bin(RecordOf(ps[i]))
      BY <1>6, <1>7, <1>9, <1>10, <3>1
    <3>. QED BY <3>2
  <2>. QED BY <2>1, <2>2
<1>12. a = c
  BY <1>9, <1>10, <1>11, SeqEqual
<1>13. \E w : Places(f \o x, a, w)
  BY <1>1, <1>2, <1>4, <1>5, <1>6, <1>8, PlacesAppend
<1>14. f \o x \in Seq(Slot)
  BY <1>1, <1>4, CellsJoined
<1>. QED BY <1>3, <1>5, <1>7, <1>8, <1>12, <1>13, <1>14 DEF InFile

LEMMA InFileLaid ==
    ASSUME PairsFit, NEW f, NEW ps, InFile(f, ps)
    PROVE  \E at : Laid(f, RecordsOf(ps), at)
<1>1. f \in Seq(Slot) /\ ps \in Seq(Storables)
  BY DEF InFile
<1>2. PICK at : Places(f, FiledOf(ps), at)
  BY DEF InFile
<1>3. PICK l, r, n : l = FiledOf(ps) /\ r = RecordsOf(ps) /\ n = Len(ps)
  OBVIOUS
<1>4. l \in Seq(Seq(Slot)) /\ Len(l) = n /\ \A i \in 1..n : l[i] = cmp_write_bin(RecordOf(ps[i]))
  BY <1>1, <1>3, FiledAre
<1>5. r \in Seq(Seq(Slot)) /\ Len(r) = n /\ \A i \in 1..n : r[i] = RecordOf(ps[i])
  BY <1>1, <1>3, RecordsOfAre
<1>6. Len(l) = Len(r) /\ \A i \in 1..Len(r) : l[i] = cmp_write_bin(r[i])
  BY <1>4, <1>5
<1>7. Laid(f, r, at)
  BY <1>1, <1>2, <1>3, <1>4, <1>5, <1>6, LaidPlaces
<1>. QED BY <1>3, <1>7

(* The file a removal writes.                                              *)
LEMMA InFileWritten ==
    ASSUME PairsFit, NEW ps \in Seq(Storables), NEW r, r = RecordsOf(ps)
    PROVE  InFile(FlattenSeq([i \in DOMAIN r |-> cmp_write_bin(r[i])]), ps)
<1>1. PICK n \in Nat : n = Len(ps)
  BY LenProperties
<1>2. r \in Seq(Seq(Slot)) /\ Len(r) = n /\ \A i \in 1..n : r[i] = RecordOf(ps[i])
  BY <1>1, RecordsOfAre
<1>3. DOMAIN r = 1..n /\ DOMAIN ps = 1..n
  BY <1>1, <1>2, LenProperties
<1>4. \A i \in 1..n : cmp_write_bin(r[i]) = cmp_write_bin(RecordOf(ps[i]))
  BY <1>2
<1>5. [i \in 1..n |-> cmp_write_bin(r[i])] = [i \in 1..n |-> cmp_write_bin(RecordOf(ps[i]))]
  BY <1>4
<1>6. FiledOf(ps) = [i \in 1..n |-> cmp_write_bin(RecordOf(ps[i]))]
  BY <1>3, Zenon DEF FiledOf
<1>7. [i \in DOMAIN r |-> cmp_write_bin(r[i])] = FiledOf(ps)
  BY <1>3, <1>5, <1>6
<1>8. FiledOf(ps) \in Seq(Seq(Slot))
  BY FiledAre
<1>9. /\ FlattenSeq(FiledOf(ps)) \in Seq(Slot)
      /\ \E at : Places(FlattenSeq(FiledOf(ps)), FiledOf(ps), at)
  BY <1>8, FlattenPlaces
<1>10. InFile(FlattenSeq(FiledOf(ps)), ps)
  BY <1>9 DEF InFile
<1>. QED BY <1>7, <1>10
-----------------------------------------------------------------------------
(* Blocks of the file.                                                     *)

LEMMA HoldsLonger ==
    ASSUME NEW f \in Seq(Slot), NEW x \in Seq(Slot), NEW r \in Seq(Slot), Holds(f, 1, r)
    PROVE  Holds(f \o x, 1, r)
<1>1. PICK b \in Seq(Slot) : b = f \o x
  BY CellsJoined
<1>2. Holds(b, 1, f \o x)
  BY <1>1, HoldsItself
<1>3. Holds(b, 1, f)
  <2>1. 1 \in Int
    OBVIOUS
  <2>. QED BY <1>2, <2>1, HoldsJoined
<1>4. PICK p \in Int, q \in Nat \ {0} : p = 1 /\ q = 1
  OBVIOUS
<1>5. Holds(b, p, f) /\ Holds(f, q, r)
  BY <1>3, <1>4
<1>6. Holds(b, p + q - 1, r)
  BY <1>5, HoldsInside
<1>7. p + q - 1 = 1
  BY <1>4
<1>. QED BY <1>1, <1>6, <1>7

LEMMA HoldsAll ==
    ASSUME NEW f \in Seq(Slot), NEW r \in Seq(Slot), Holds(f, 1, r), Len(r) = Len(f)
    PROVE  r = f
<1>1. PICK n \in Nat : n = Len(f)
  BY LenProperties
<1>2. \A i \in 1..n : f[1 + i - 1] = r[i] /\ 1 + i - 1 = i
  BY <1>1 DEF Holds
<1>3. \A i \in 1..n : r[i] = f[i]
  BY <1>2
<1>. QED BY <1>1, <1>3, SeqEqual

LEMMA OneMore == \A n, m \in Nat : n * m \in Nat /\ (n + 1) * m = n * m + m
OBVIOUS

LEMMA BlockIs ==
    ASSUME NEW f \in Seq(Slot), NEW n \in Nat, BlockSize \in Nat \ {0}
    PROVE  /\ BlockOf(f, n) \in Seq(Slot) /\ Len(BlockOf(f, n)) <= BlockSize
           /\ n * BlockSize <= Len(f) => Holds(f, n * BlockSize + 1, BlockOf(f, n))
           /\ n * BlockSize <= Len(f) /\ Len(BlockOf(f, n)) # BlockSize
                  => n * BlockSize + Len(BlockOf(f, n)) = Len(f)
<1>1. PICK s \in Nat \ {0}, l \in Nat : s = BlockSize /\ l = Len(f)
  BY LenProperties
<1>2. PICK k \in Nat : k = n * BlockSize
  BY OneMore
<1>3. (n + 1) * BlockSize = k + s
  BY <1>1, <1>2, OneMore
<1>4. PICK e \in Nat : e = IF k + s < l THEN k + s ELSE l
  BY <1>1, <1>2
<1>5. BlockOf(f, n) = SubSeq(f, k + 1, e)
  BY <1>1, <1>2, <1>3, <1>4 DEF BlockOf
<1>6. PICK c : c = SubSeq(f, k + 1, e)
  OBVIOUS
<1>7. \A i \in k + 1..e : f[i] \in Slot
  <2>1. \A i \in k + 1..e : i \in 1..l
    BY <1>4
  <2>. QED BY <1>1, <2>1, ElementOfSeq
<1>8. PICK g \in Int : g = k + 1
  OBVIOUS
<1>9. /\ c \in Seq(Slot) /\ Len(c) = (IF g <= e THEN e - g + 1 ELSE 0)
      /\ \A i \in 1..e - g + 1 : c[i] = f[g + i - 1]
  BY <1>6, <1>7, <1>8, SubSeqProperties
<1>10. Len(c) = IF k <= e THEN e - k ELSE 0
  BY <1>8, <1>9
<1>11. Len(c) <= s
  BY <1>4, <1>10
<1>12. ASSUME k <= l
       PROVE  Holds(f, k + 1, c) /\ (Len(c) # s => k + Len(c) = l)
  <2>1. k <= e /\ e <= l /\ Len(c) = e - k
    BY <1>4, <1>10, <1>12
  <2>2. \A i \in 1..e - k : i \in 1..e - g + 1 /\ g + i - 1 = (k + 1) + i - 1
    BY <1>8
  <2>3. \A i \in 1..Len(c) : f[(k + 1) + i - 1] = c[i]
    BY <1>9, <2>1, <2>2
  <2>4. (k + 1) + Len(c) <= l + 1
    BY <2>1
  <2>5. Holds(f, k + 1, c)
    BY <1>1, <2>3, <2>4 DEF Holds
  <2>6. Len(c) # s => k + Len(c) = l
    BY <1>4, <2>1
  <2>. QED BY <2>5, <2>6
<1>. QED BY <1>1, <1>2, <1>5, <1>6, <1>9, <1>11, <1>12

-----------------------------------------------------------------------------
(* The invariant: the file holds the records of the pairs that should be   *)
(* in it; what was read of it is its beginning, unless a removal fell      *)
(* between; and what is said of the rows and of the answer is so.          *)
Restorables == {AsParsed(p) : p \in Pairs}
Reading ==
    IF num = Idle THEN rx = <<>>
    ELSE /\ num \in Nat /\ rx \in Seq(Slot) /\ Len(rx) = num * BlockSize
         /\ ~mixed => Holds(file, 1, rx)
Answers(a) == /\ Len(a) \in {0, 2}
              /\ a # <<>> /\ Len(a[1].url) < StringMax => a[2] \in {"2.01", "3.04"}
Shows(list, ps) == list = [k \in DOMAIN UpToLong(ps) |-> AsShown(UpToLong(ps)[k])]
Tells(t, list) == t = <<>> \/ \E ps : t = <<ps>> /\ Shows(list, ps)
Counts ==
    /\ ram \in Seq(Restorables) /\ Len(ram) <= joins /\ Len(stored) <= joins
    /\ mixed \in BOOLEAN /\ joins \in 0..MaxJoins /\ removals \in 0..MaxRemovals
PairInv == InFile(file, stored) /\ Reading /\ Answers(answer) /\ Tells(told, rows) /\ Counts

LEMMA InitPairInv ==
    ASSUME PairsFit, Init
    PROVE  PairInv
<1>1. file = <<>> /\ stored = <<>> /\ ram = <<>> /\ answer = <<>> /\ rx = <<>> /\ num = Idle
      /\ told = <<>> /\ mixed = FALSE /\ joins = 0 /\ removals = 0
  BY DEF Init
<1>2. InFile(file, stored)
  BY <1>1, InFileNone
<1>3. Reading
  BY <1>1 DEF Reading
<1>4. Answers(answer)
  BY <1>1 DEF Answers
<1>5. Tells(told, rows)
  BY <1>1 DEF Tells
<1>6. Counts
  <2>1. MaxJoins \in Nat /\ MaxRemovals \in Nat
    BY DEF PairsFit
  <2>2. <<>> \in Seq(Restorables) /\ Len(<<>>) <= 0 /\ FALSE \in BOOLEAN
    BY EmptySeq
  <2>3. 0 \in 0..MaxJoins /\ 0 \in 0..MaxRemovals
    BY <2>1
  <2>. QED BY <1>1, <2>2, <2>3 DEF Counts
<1>. QED BY <1>2, <1>3, <1>4, <1>5, <1>6 DEF PairInv

(* A join that fits in the GUI's buffer is parsed by the node.             *)
LEMMA JoinIs ==
    ASSUME PairsFit, NEW p \in Pairs, Join(p)
    PROVE  /\ \E code : /\ answer' = <<p, code>>
                        /\ Len(p.url) < StringMax => code \in {"2.01", "3.04"}
           /\ \/ UNCHANGED <<ram, file, stored>>
              \/ /\ p \in Storables /\ ram' = Append(ram, AsParsed(p))
                 /\ file' = file \o cmp_write_bin(RecordOf(p)) /\ stored' = Append(stored, p)
<1>1. IsPair(p) /\ srcurl \in Seq(Nat) /\ BUFFERSIZE \in Nat /\ StoreSize \in Nat
      /\ StoreSize + Len(cp_encodeString(srcurl)) <= BUFFERSIZE
  BY DEF PairsFit
<1>2. PICK w, x : w = pair(p) /\ x = cp_encodeString(srcurl)
  OBVIOUS
<1>3. srcurl \in Seq(Int)
  <2>1. Seq(Nat) \subseteq Seq(Int)
    OBVIOUS
  <2>. QED BY <1>1, <2>1
<1>4. w \in Seq(Slot) /\ x \in Seq(Slot) /\ Len(srcurl) <= Len(x) /\ Len(srcurl) \in Nat
  <2>1. w \in Seq(Slot)
    BY <1>1, <1>2, RecordIsCells
  <2>2. PICK h : /\ x = Coded(h, Len(srcurl)) \o Data(srcurl)
                 /\ Coded(h, Len(srcurl)) \in Seq(Slot) /\ Data(srcurl) \in Seq(Slot)
                 /\ x \in Seq(Slot)
    BY <1>2, <1>3, StringCells
  <2>3. Len(x) = Len(Coded(h, Len(srcurl))) + Len(Data(srcurl)) /\ Len(Coded(h, Len(srcurl))) \in Nat
    BY <2>2, CellsJoined
  <2>4. Len(Data(srcurl)) = Len(srcurl) /\ Len(srcurl) \in Nat
    BY <1>3, DataIs, LenProperties
  <2>5. Len(srcurl) <= Len(x)
    BY <2>3, <2>4
  <2>. QED BY <2>1, <2>2, <2>4, <2>5
<1>5. RecordOf(p) = w \o x
  BY <1>2 DEF RecordOf
<1>6. Len(w) <= StoreSize
  BY <1>2 DEF Join
<1>7. Len(RecordOf(p)) = Len(w) + Len(x) /\ Len(w) \in Nat /\ Len(x) \in Nat
  BY <1>4, <1>5, CellsJoined
<1>8. Len(RecordOf(p)) <= BUFFERSIZE /\ ~(Len(w) + Len(srcurl) > BUFFERSIZE)
  BY <1>1, <1>2, <1>4, <1>6, <1>7
<1>9. PICK m : m = parseMessage(RecordOf(p))
  OBVIOUS
<1>10. Joined(p, RecordOf(p), m)
  <2>1. \E data \in {w \o x} : \E c \in {parseMessage(data)} : Joined(p, data, c)
    <3>1. IF Len(w) + Len(srcurl) > BUFFERSIZE THEN Refuse(p, "5.00")
          ELSE \E data \in {w \o x} : \E c \in {parseMessage(data)} : Joined(p, data, c)
      BY <1>2, Zenon DEF Join
    <3>. QED BY <1>8, <3>1
  <2>2. Joined(p, w \o x, parseMessage(w \o x))
    BY <2>1, Zenon
  <2>. QED BY <1>5, <1>9, <2>2
<1>11. CASE Len(p.url) < StringMax
  <2>1. m.wrong = 0 /\ m.parts = PartsOf(p)
    BY <1>1, <1>9, <1>11, MessageIs
  <2>2. Parsed(m) = AsParsed(p)
    BY <2>1, ParsedIs
  <2>3. p \in Storables
    BY <1>1, <1>8, <1>11 DEF Storables
  <2>4. m.wrong # 3 /\ ~(m.wrong # 0)
    BY <2>1
  <2>5. \/ Refuse(p, "3.04")
        \/ Answered(p, "2.01", Append(ram, AsParsed(p)), file \o cmp_write_bin(RecordOf(p)),
                    Append(stored, p))
    BY <1>10, <2>2, <2>4, Zenon DEF Joined
  <2>6. CASE Refuse(p, "3.04")
    <3>1. answer' = <<p, "3.04">> /\ ram' = ram /\ file' = file /\ stored' = stored
      BY <2>6 DEF Refuse, Answered
    <3>. QED BY <3>1
  <2>7. CASE Answered(p, "2.01", Append(ram, AsParsed(p)), file \o cmp_write_bin(RecordOf(p)),
                      Append(stored, p))
    <3>1. /\ answer' = <<p, "2.01">> /\ ram' = Append(ram, AsParsed(p))
          /\ file' = file \o cmp_write_bin(RecordOf(p)) /\ stored' = Append(stored, p)
      BY <2>7, Zenon DEF Answered
    <3>. QED BY <2>3, <3>1
  <2>. QED BY <2>5, <2>6, <2>7
<1>12. CASE ~(Len(p.url) < StringMax)
  <2>1. m.wrong = 2
    BY <1>1, <1>9, <1>12, MessageIs
  <2>2. m.wrong # 3 /\ m.wrong # 0
    BY <2>1
  <2>3. Refuse(p, "4.00")
    BY <1>10, <2>2, Zenon DEF Joined
  <2>4. answer' = <<p, "4.00">> /\ ram' = ram /\ file' = file /\ stored' = stored
    BY <2>3 DEF Refuse, Answered
  <2>. QED BY <1>12, <2>4
<1>. QED BY <1>11, <1>12
LEMMA JoinPairInv ==
    ASSUME PairsFit, PairInv, NEW p \in Pairs, Join(p)
    PROVE  PairInv'
<1>1. /\ joins < MaxJoins /\ joins' = joins + 1 /\ rx' = rx /\ num' = num /\ rows' = rows
      /\ mixed' = mixed /\ told' = told /\ removals' = removals
  BY DEF Join
<1>2. PICK code : /\ answer' = <<p, code>>
                  /\ Len(p.url) < StringMax => code \in {"2.01", "3.04"}
  BY JoinIs
<1>3. \/ UNCHANGED <<ram, file, stored>>
      \/ /\ p \in Storables /\ ram' = Append(ram, AsParsed(p))
         /\ file' = file \o cmp_write_bin(RecordOf(p)) /\ stored' = Append(stored, p)
  BY JoinIs
<1>4. Answers(answer')
  <2>1. PICK a : a = <<p, code>>
    OBVIOUS
  <2>2. Len(a) = 2 /\ a[1] = p /\ a[2] = code
    BY <2>1
  <2>. QED BY <1>2, <2>1, <2>2 DEF Answers
<1>5. Tells(told', rows')
  BY <1>1 DEF PairInv
<1>6. InFile(file', stored')
  <2>1. CASE UNCHANGED <<ram, file, stored>>
    BY <2>1 DEF PairInv
  <2>2. CASE ~UNCHANGED <<ram, file, stored>>
    BY <1>3, <2>2, InFileAppend DEF PairInv
  <2>. QED BY <2>1, <2>2
<1>7. Reading'
  <2>1. CASE num = Idle
    BY <1>1, <2>1 DEF PairInv, Reading
  <2>2. CASE num # Idle
    <3>1. /\ num \in Nat /\ rx \in Seq(Slot) /\ Len(rx) = num * BlockSize
          /\ ~mixed => Holds(file, 1, rx)
      BY <2>2 DEF PairInv, Reading
    <3>2. ~mixed => Holds(file', 1, rx)
      <4>1. CASE UNCHANGED <<ram, file, stored>>
        BY <3>1, <4>1
      <4>2. CASE ~UNCHANGED <<ram, file, stored>>
        <5>1. p \in Storables /\ file' = file \o cmp_write_bin(RecordOf(p))
          BY <1>3, <4>2
        <5>2. RecordOf(p) \in Seq(Slot)
          BY <5>1, RecordIsCells DEF Storables
        <5>3. cmp_write_bin(RecordOf(p)) \in Seq(Slot) /\ file \in Seq(Slot)
          BY <5>2, BinCells DEF PairInv, InFile
        <5>. QED BY <3>1, <5>1, <5>3, HoldsLonger
      <4>. QED BY <4>1, <4>2
    <3>. QED BY <1>1, <2>2, <3>1, <3>2 DEF Reading
  <2>. QED BY <2>1, <2>2
<1>8. Counts'
  <2>1. /\ ram \in Seq(Restorables) /\ Len(ram) <= joins /\ Len(stored) <= joins
        /\ mixed \in BOOLEAN /\ joins \in 0..MaxJoins /\ removals \in 0..MaxRemovals
    BY DEF PairInv, Counts
  <2>2. MaxJoins \in Nat
    BY DEF PairsFit
  <2>3. joins \in Nat /\ joins + 1 \in 0..MaxJoins
    BY <1>1, <2>1, <2>2
  <2>4. stored \in Seq(Storables)
    BY DEF PairInv, InFile
  <2>5. Len(ram) \in Nat /\ Len(stored) \in Nat
    BY <2>1, <2>4, LenProperties
  <2>6. ram' \in Seq(Restorables) /\ Len(ram') <= joins + 1 /\ Len(stored') <= joins + 1
    <3>1. CASE UNCHANGED <<ram, file, stored>>
      <4>1. ram' = ram /\ stored' = stored
        BY <3>1
      <4>2. Len(ram) <= joins + 1 /\ Len(stored) <= joins + 1
        BY <2>1, <2>3, <2>5
      <4>. QED BY <2>1, <4>1, <4>2
    <3>2. CASE ~UNCHANGED <<ram, file, stored>>
      <4>1. p \in Storables /\ ram' = Append(ram, AsParsed(p)) /\ stored' = Append(stored, p)
        BY <1>3, <3>2
      <4>2. AsParsed(p) \in Restorables
        BY DEF Restorables
      <4>3. /\ Append(ram, AsParsed(p)) \in Seq(Restorables)
            /\ Len(Append(ram, AsParsed(p))) = Len(ram) + 1
        BY <2>1, <4>2, AppendProperties
      <4>4. Len(Append(stored, p)) = Len(stored) + 1
        BY <2>4, <4>1, AppendProperties
      <4>5. Len(ram) + 1 <= joins + 1 /\ Len(stored) + 1 <= joins + 1
        BY <2>1, <2>3, <2>5
      <4>. QED BY <4>1, <4>3, <4>4, <4>5
    <3>. QED BY <3>1, <3>2
  <2>. QED BY <1>1, <2>1, <2>3, <2>6 DEF Counts
<1>. QED BY <1>4, <1>5, <1>6, <1>7, <1>8 DEF PairInv

(* The indexes of a removal are read as they were sent.                    *)
LEMMA OneByOne == \A n \in Int : n \div 1 = n
OBVIOUS

LEMMA IndexIs ==
    ASSUME NEW ids \in Seq(Nat)
    PROVE  ReadPart(removeItems(ids), "u8", 0, 1).val = ids
<1>1. ids \in Seq(Int)
  <2>1. Seq(Nat) \subseteq Seq(Int)
    OBVIOUS
  <2>. QED BY <2>1
<1>2. PICK n \in Nat : n = Len(ids)
  BY LenProperties
<1>3. PICK b : b = WriteArray("u8", n, ids)
  OBVIOUS
<1>4. b \in Seq(Slot)
  <2>1. \E h, l : Numbered(h, l, "u8", n, ids)
    BY <1>1, ArrayCells
  <2>2. PICK h, l : Numbered(h, l, "u8", n, ids)
    BY <2>1
  <2>. QED BY <1>3, <2>2 DEF Numbered
<1>5. n \div Size("u8") = Len(ids)
  <2>1. Size("u8") = 1
    BY DEF Size
  <2>2. n \div 1 = n
    BY OneByOne
  <2>. QED BY <1>2, <2>1, <2>2
<1>6. Holds(b, 1, WriteArray("u8", n, ids))
  BY <1>3, <1>4, HoldsItself
<1>7. PICK next : next = 1 + Len(WriteArray("u8", n, ids))
  OBVIOUS
<1>8. ArrayAt(b, 1, "u8", n, ids, next)
  <2>1. 1 \in Nat \ {0} /\ "u8" \in {"u16", "u8", "s8"} /\ n \in Nat
    OBVIOUS
  <2>. QED BY <1>1, <1>4, <1>5, <1>6, <1>7, <2>1, Zenon DEF ArrayAt
<1>9. Got(ReadPart(b, "u8", 0, 1), next, ids)
  BY <1>8, ArrayGot
<1>10. ReadPart(b, "u8", 0, 1).val = ids
  BY <1>9 DEF Got
<1>11. removeItems(ids) = b
  BY <1>2, <1>3 DEF removeItems
<1>. QED BY <1>10, <1>11

LEMMA RemovePairInv ==
    ASSUME PairsFit, PairInv, NEW ids \in Seq(Nat), pairing_remove(ids)
    PROVE  PairInv'
<1>1. /\ removals < MaxRemovals /\ removals' = removals + 1 /\ stored' = Kept(stored, ids)
      /\ mixed' = (mixed \/ num # Idle) /\ ram' = ram /\ answer' = answer /\ rx' = rx /\ num' = num
      /\ rows' = rows /\ told' = told /\ joins' = joins
  BY DEF pairing_remove
<1>2. PICK kept : /\ kept = Kept(Records(file), ids)
                  /\ file' = FlattenSeq([i \in DOMAIN kept |-> cmp_write_bin(kept[i])])
  <2>1. ReadPart(removeItems(ids), "u8", 0, 1).val = ids
    BY IndexIs
  <2>2. \E index \in {ReadPart(removeItems(ids), "u8", 0, 1).val} :
           \E kept \in {Kept(Records(file), index)} :
              file' = FlattenSeq([i \in DOMAIN kept |-> cmp_write_bin(kept[i])])
    BY Zenon DEF pairing_remove
  <2>. QED BY <2>1, <2>2, Zenon
<1>3. stored \in Seq(Storables)
  BY DEF PairInv, InFile
<1>4. Records(file) = RecordsOf(stored)
  <2>1. PICK at : Laid(file, RecordsOf(stored), at)
    BY InFileLaid DEF PairInv
  <2>2. PICK r : r = RecordsOf(stored)
    OBVIOUS
  <2>3. \A i \in 1..Len(r) : Len(r[i]) <= BUFFERSIZE
    BY <1>3, <2>2, RecordsOfAre
  <2>. QED BY <2>1, <2>2, <2>3, RecordsAre
<1>5. /\ Kept(stored, ids) \in Seq(Storables) /\ Len(Kept(stored, ids)) <= Len(stored)
      /\ kept = RecordsOf(Kept(stored, ids))
  BY <1>2, <1>3, <1>4, KeptIs
<1>6. InFile(file', stored')
  <2>1. InFile(FlattenSeq([i \in DOMAIN kept |-> cmp_write_bin(kept[i])]), Kept(stored, ids))
    BY <1>5, InFileWritten
  <2>. QED BY <1>1, <1>2, <2>1
<1>7. Reading'
  <2>1. IF num = Idle THEN rx = <<>>
        ELSE num \in Nat /\ rx \in Seq(Slot) /\ Len(rx) = num * BlockSize
    BY DEF PairInv, Reading
  <2>2. num # Idle => mixed'
    BY <1>1
  <2>. QED BY <1>1, <2>1, <2>2 DEF Reading
<1>8. Counts'
  <2>1. /\ ram \in Seq(Restorables) /\ Len(ram) <= joins /\ Len(stored) <= joins
        /\ mixed \in BOOLEAN /\ joins \in 0..MaxJoins /\ removals \in 0..MaxRemovals
    BY DEF PairInv, Counts
  <2>2. MaxRemovals \in Nat
    BY DEF PairsFit
  <2>3. removals + 1 \in 0..MaxRemovals
    BY <1>1, <2>1, <2>2
  <2>4. Len(stored') <= joins
    <3>1. Len(stored) \in Nat /\ Len(Kept(stored, ids)) \in Nat /\ joins \in Nat
      BY <1>3, <1>5, <2>1, LenProperties
    <3>. QED BY <1>1, <1>5, <2>1, <3>1
  <2>5. mixed' \in BOOLEAN
    BY <1>1
  <2>. QED BY <1>1, <2>1, <2>3, <2>4, <2>5 DEF Counts
<1>9. Answers(answer') /\ Tells(told', rows')
  BY <1>1 DEF PairInv
<1>. QED BY <1>6, <1>7, <1>8, <1>9 DEF PairInv
LEMMA RestartPairInv ==
    ASSUME PairsFit, PairInv, Restart
    PROVE  PairInv'
<1>1. /\ ram' = restore_SensorPairs(file)
      /\ UNCHANGED <<file, answer, rx, num, rows, stored, mixed, told, joins, removals>>
  BY DEF Restart
<1>2. stored \in Seq(Storables)
  BY DEF PairInv, InFile
<1>3. ram' = [i \in DOMAIN stored |-> AsParsed(stored[i])]
  <2>1. PICK at : Laid(file, RecordsOf(stored), at)
    BY InFileLaid DEF PairInv
  <2>. QED BY <1>1, <1>2, <2>1, RestoredIs
<1>4. PICK n \in Nat : n = Len(stored) /\ DOMAIN stored = 1..n
  BY <1>2, LenProperties
<1>5. ram' \in Seq(Restorables) /\ Len(ram') = n
  <2>1. \A i \in 1..n : stored[i] \in Pairs
    <3>1. \A i \in 1..n : stored[i] \in Storables
      BY <1>2, <1>4, ElementOfSeq
    <3>. QED BY <3>1 DEF Storables
  <2>2. \A i \in 1..n : AsParsed(stored[i]) \in Restorables
    BY <2>1 DEF Restorables
  <2>3. PICK g : g = [i \in 1..n |-> AsParsed(stored[i])]
    OBVIOUS
  <2>4. g \in [1..n -> Restorables]
    BY <2>2, <2>3
  <2>5. g \in Seq(Restorables) /\ Len(g) = n
    BY <2>4
  <2>. QED BY <1>3, <1>4, <2>3, <2>5
<1>6. Counts'
  BY <1>1, <1>4, <1>5 DEF PairInv, Counts
<1>7. Reading'
  BY <1>1 DEF PairInv, Reading
<1>8. InFile(file', stored') /\ Answers(answer') /\ Tells(told', rows')
  BY <1>1 DEF PairInv
<1>. QED BY <1>6, <1>7, <1>8 DEF PairInv

LEMMA AskPairInv ==
    ASSUME PairsFit, PairInv, getpairingslist
    PROVE  PairInv'
<1>1. /\ num' = 0 /\ rx' = <<>> /\ mixed' = FALSE
      /\ UNCHANGED <<file, ram, answer, rows, stored, told, joins, removals>>
  BY DEF getpairingslist
<1>2. file \in Seq(Slot) /\ BlockSize \in Nat
  BY DEF PairInv, InFile, PairsFit
<1>3. <<>> \in Seq(Slot) /\ Len(<<>>) = 0
  BY EmptySeq
<1>4. 0 * BlockSize = 0
  BY <1>2
<1>5. Holds(file, 1, <<>>)
  BY <1>2, <1>3, LenProperties DEF Holds
<1>6. Reading'
  BY <1>1, <1>3, <1>4, <1>5 DEF Reading
<1>7. Counts'
  BY <1>1 DEF PairInv, Counts
<1>8. InFile(file', stored') /\ Answers(answer') /\ Tells(told', rows')
  BY <1>1 DEF PairInv
<1>. QED BY <1>6, <1>7, <1>8 DEF PairInv

(* An empty file has no pairs, and an empty list shows none.               *)
LEMMA NothingShown ==
    ASSUME PairsFit, NEW ps, InFile(<<>>, ps)
    PROVE  Shows(<<>>, ps)
<1>1. ps \in Seq(Storables)
  BY DEF InFile
<1>2. PICK at : Laid(<<>>, RecordsOf(ps), at)
  BY InFileLaid
<1>3. PICK n \in Nat : n = Len(ps) /\ n = Len(RecordsOf(ps))
  BY <1>1, RecordsOfAre, LenProperties
<1>4. n = 0
  <2>. SUFFICES ASSUME n # 0
                PROVE  FALSE
    OBVIOUS
  <2>1. 1 \in 1..n
    OBVIOUS
  <2>2. HeadAt(<<>>, at[1], RecordsOf(ps)[1], at[1 + 1])
    BY <1>2, <1>3, <2>1 DEF Laid
  <2>3. at[1] \in DOMAIN <<>>
    BY <2>2 DEF HeadAt
  <2>. QED BY <2>3
<1>5. PICK m \in 0..n : UpToLong(ps) = [i \in 1..m |-> ps[i]]
  BY <1>1, <1>3, UpToLongIs
<1>6. PICK u : u = UpToLong(ps)
  OBVIOUS
<1>7. DOMAIN u = {}
  BY <1>4, <1>5, <1>6
<1>8. [k \in DOMAIN u |-> AsShown(u[k])] = <<>>
  BY <1>7
<1>. QED BY <1>6, <1>8 DEF Shows

LEMMA BlockPairInv ==
    ASSUME PairsFit, PairInv, BlockArrives
    PROVE  PairInv'
<1>1. num # Idle /\ UNCHANGED <<file, ram, answer, stored, mixed, joins, removals>>
  BY DEF BlockArrives
<1>2. /\ num \in Nat /\ rx \in Seq(Slot) /\ Len(rx) = num * BlockSize
      /\ ~mixed => Holds(file, 1, rx)
  BY <1>1 DEF PairInv, Reading
<1>3. file \in Seq(Slot) /\ BlockSize \in Nat \ {0}
  BY DEF PairInv, InFile, PairsFit
<1>4. PICK block : block = BlockOf(file, num)
  OBVIOUS
<1>5. /\ block \in Seq(Slot) /\ Len(block) <= BlockSize
      /\ num * BlockSize <= Len(file) => Holds(file, num * BlockSize + 1, block)
      /\ num * BlockSize <= Len(file) /\ Len(block) # BlockSize
             => num * BlockSize + Len(block) = Len(file)
  BY <1>2, <1>3, <1>4, BlockIs
<1>6. IF More(block)
      THEN num' = num + 1 /\ rx' = rx \o block /\ UNCHANGED <<rows, told>>
      ELSE /\ num' = Idle /\ rx' = <<>>
           /\ \E got \in {rx \o block} :
                 /\ rows' = ParsedRows(got)
                 /\ told' = IF mixed \/ (got = <<>> /\ rows # <<>>) THEN <<>> ELSE <<stored>>
  BY <1>4, Zenon DEF BlockArrives
<1>7. PICK got : got = rx \o block
  OBVIOUS
<1>8. got \in Seq(Slot) /\ Len(got) = Len(rx) + Len(block) /\ Len(rx) \in Nat /\ Len(block) \in Nat
  BY <1>2, <1>5, <1>7, CellsJoined
<1>9. ~mixed => Holds(file, 1, got) /\ num * BlockSize <= Len(file)
  <2>. SUFFICES ASSUME ~mixed
                PROVE  Holds(file, 1, got) /\ num * BlockSize <= Len(file)
    OBVIOUS
  <2>1. Holds(file, 1, rx)
    BY <1>2
  <2>2. PICK k \in Nat, l \in Nat : k = num * BlockSize /\ l = Len(file) /\ k = Len(rx)
    BY <1>2, <1>3, <1>8, LenProperties
  <2>3. 1 + Len(rx) <= Len(file) + 1
    BY <2>1 DEF Holds
  <2>4. k <= l
    BY <2>2, <2>3
  <2>5. Holds(file, 1 + Len(rx), block)
    <3>1. k + 1 = 1 + Len(rx)
      BY <2>2
    <3>. QED BY <1>5, <2>2, <2>4, <3>1
  <2>6. 1 \in Int
    OBVIOUS
  <2>7. Holds(file, 1, rx \o block)
    BY <1>2, <1>3, <1>5, <2>1, <2>5, <2>6, HoldsJoined
  <2>. QED BY <1>7, <2>2, <2>4, <2>7
<1>10. InFile(file', stored') /\ Answers(answer')
  BY <1>1 DEF PairInv
<1>11. Counts'
  BY <1>1 DEF PairInv, Counts
<1>12. CASE More(block)
  <2>1. num' = num + 1 /\ rx' = got /\ rows' = rows /\ told' = told
    BY <1>6, <1>7, <1>12
  <2>2. Len(block) = BlockSize
    BY <1>12 DEF More
  <2>3. Len(got) = (num + 1) * BlockSize
    BY <1>2, <1>3, <1>8, <2>2, OneMore
  <2>4. num + 1 # Idle /\ num + 1 \in Nat
    BY <1>2 DEF Idle
  <2>5. Reading'
    BY <1>1, <1>8, <1>9, <2>1, <2>3, <2>4 DEF Reading
  <2>6. Tells(told', rows')
    BY <2>1 DEF PairInv
  <2>. QED BY <1>10, <1>11, <2>5, <2>6 DEF PairInv
<1>13. CASE ~More(block)
  <2>1. /\ num' = Idle /\ rx' = <<>> /\ rows' = ParsedRows(got)
        /\ told' = IF mixed \/ (got = <<>> /\ rows # <<>>) THEN <<>> ELSE <<stored>>
    BY <1>6, <1>7, <1>13
  <2>2. Reading'
    BY <2>1 DEF Reading
  <2>3. Tells(told', rows')
    <3>1. CASE mixed \/ (got = <<>> /\ rows # <<>>)
      BY <2>1, <3>1 DEF Tells
    <3>2. CASE ~(mixed \/ (got = <<>> /\ rows # <<>>))
      <4>1. told' = <<stored>> /\ ~mixed
        BY <2>1, <3>2
      <4>2. Len(block) # BlockSize
        BY <1>13 DEF More
      <4>3. Len(got) = Len(file)
        BY <1>2, <1>5, <1>8, <1>9, <4>1, <4>2
      <4>4. got = file
        BY <1>3, <1>8, <1>9, <4>1, <4>3, HoldsAll
      <4>5. CASE got = <<>>
        <5>1. rows' = rows /\ rows = <<>>
          BY <2>1, <3>2, <4>5 DEF ParsedRows
        <5>2. Shows(<<>>, stored)
          BY <4>4, <4>5, NothingShown DEF PairInv
        <5>. QED BY <4>1, <5>1, <5>2 DEF Tells
      <4>6. CASE got # <<>>
        <5>1. rows' = parseList(file)
          BY <2>1, <4>4, <4>6 DEF ParsedRows
        <5>2. PICK at : Laid(file, RecordsOf(stored), at)
          BY InFileLaid DEF PairInv
        <5>3. stored \in Seq(Storables)
          BY DEF PairInv, InFile
        <5>4. Shows(rows', stored)
          BY <5>1, <5>2, <5>3, RowsAre DEF Shows
        <5>. QED BY <4>1, <5>4 DEF Tells
      <4>. QED BY <4>5, <4>6
    <3>. QED BY <3>1, <3>2
  <2>. QED BY <1>10, <1>11, <2>2, <2>3 DEF PairInv
<1>. QED BY <1>12, <1>13

LEMMA InvariantPair == ASSUME PairsFit PROVE Spec => []PairInv
<1>1. Init => PairInv
  BY InitPairInv
<1>2. PairInv /\ [Next]_pairVars => PairInv'
  <2>. SUFFICES ASSUME PairInv, [Next]_pairVars
                PROVE  PairInv'
    OBVIOUS
  <2>1. CASE \E p \in Pairs : Join(p)
    BY <2>1, JoinPairInv
  <2>2. CASE \E ids \in {<<0>>, <<1>>, <<0, 1>>, <<0, 2>>} : pairing_remove(ids)
    <3>1. <<0>> \in Seq(Nat) /\ <<1>> \in Seq(Nat)
      OBVIOUS
    <3>2. <<0, 1>> \in Seq(Nat) /\ <<0, 2>> \in Seq(Nat)
      OBVIOUS
    <3>3. PICK ids \in {<<0>>, <<1>>, <<0, 1>>, <<0, 2>>} : pairing_remove(ids)
      BY <2>2
    <3>4. ids \in Seq(Nat)
      BY <3>1, <3>2
    <3>. QED BY <3>3, <3>4, RemovePairInv
  <2>3. CASE Restart
    BY <2>3, RestartPairInv
  <2>4. CASE getpairingslist
    BY <2>4, AskPairInv
  <2>5. CASE BlockArrives
    BY <2>5, BlockPairInv
  <2>6. CASE UNCHANGED pairVars
    BY <2>6 DEF pairVars, PairInv, Reading, Counts
  <2>. QED BY <2>1, <2>2, <2>3, <2>4, <2>5, <2>6 DEF Next
<1>. QED BY <1>1, <1>2, PTL DEF Spec

(* What a user joins is what the node restores and what a user sees again, *)
(* whatever the numbers, URLs and actions of the pairs, and however joins, *)
(* removals, restarts and the blocks of a list follow one another          *)
(* (sensor.cpp, pairing.c, wsn.cpp).                                       *)
THEOREM PairReadAsJoined == ASSUME PairsFit PROVE Spec => []PairsReadAlike
<1>1. PairInv => PairsReadAlike
  <2>. SUFFICES ASSUME PairInv
                PROVE  PairsReadAlike
    OBVIOUS
  <2>1. restore_SensorPairs(file) = [i \in DOMAIN stored |-> AsParsed(stored[i])]
    <3>1. PICK at : Laid(file, RecordsOf(stored), at)
      BY InFileLaid DEF PairInv
    <3>2. stored \in Seq(Storables)
      BY DEF PairInv, InFile
    <3>. QED BY <3>1, <3>2, RestoredIs
  <2>2. answer # <<>> /\ Len(answer[1].url) < StringMax => answer[2] \in {"2.01", "3.04"}
    BY DEF PairInv, Answers
  <2>3. ASSUME NEW i \in DOMAIN told
        PROVE  Shows(rows, told[i])
    <3>1. told = <<>> \/ \E ps : told = <<ps>> /\ Shows(rows, ps)
      BY DEF PairInv, Tells
    <3>2. told # <<>>
      BY <2>3
    <3>3. PICK ps : told = <<ps>> /\ Shows(rows, ps)
      BY <3>1, <3>2
    <3>4. told[i] = ps
      BY <2>3, <3>3
    <3>. QED BY <3>3, <3>4
  <2>. QED BY <2>1, <2>2, <2>3, Zenon DEF PairsReadAlike, Shows
<1>. QED BY <1>1, InvariantPair, PTL

(* Type correctness.                                                       *)
THEOREM PairCodingTypes == ASSUME PairsFit PROVE Spec => []TypeOK
<1>1. PairInv => TypeOK
  <2>. SUFFICES ASSUME PairInv
                PROVE  TypeOK
    OBVIOUS
  <2>1. IF num = Idle THEN rx = <<>> ELSE num \in Nat /\ Len(rx) = num * BlockSize
    BY DEF PairInv, Reading
  <2>2. Len(told) <= 1
    <3>1. told = <<>> \/ \E ps : told = <<ps>>
      BY DEF PairInv, Tells
    <3>2. Len(<<>>) <= 1 /\ \A ps : Len(<<ps>>) <= 1
      OBVIOUS
    <3>. QED BY <3>1, <3>2
  <2>. QED BY <2>1, <2>2 DEF PairInv, Counts, Answers, TypeOK
<1>. QED BY <1>1, InvariantPair, PTL
=============================================================================
