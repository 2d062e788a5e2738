---------------------------- MODULE MessageProofs ----------------------------
(***************************************************************************)
(* Theorems about the message CoapPdu builds: whatever is put in is found  *)
(* by the receiver.  From the byte of an option up: what insertOption      *)
(* writes is what the accessors read (OptionIs, OptionAtIs); a message     *)
(* that is laid out as token, options and payload is walked over as it was *)
(* built (WalkIs, WhatIsRead); findInsertionPosition finds the place of an *)
(* option (FindIs); moving bytes to make room keeps the message laid out   *)
(* (InsertLaid, ShiftLaid, TailLaid); so every call keeps the invariant    *)
(* PduInv, of which ParsesAsBuilt is a consequence.                        *)
(***************************************************************************)
EXTENDS CoapPdu, SequenceTheorems, WellFoundedInduction, TLAPS

(* Where a sequence of bytes lies in a message.                            *)
Byte == 0..255
Lies(p, at, s) == \A i \in 1..Len(s) : p[at + i - 1] = s[i]

(* The values whose bytes are all copied (insertOption).                   *)
Values == {v \in Seq(Byte) : Len(v) <= 268}

(* The bytes of an option behind those of its difference.                  *)
Text(v) == ExtraBytes(Len(v)) \o v
Size(delta, v) == 1 + computeExtraBytes(delta) + Len(Text(v))
OptionLies(p, at, delta, v) ==
    /\ p[at] = 16 * Nibble(delta) + Nibble(Len(v))
    /\ Lies(p, at + 1, ExtraBytes(delta))
    /\ Lies(p, at + 1 + computeExtraBytes(delta), Text(v))

(* What differences and small numbers are.                                 *)
LEMMA Small ==
    /\ \A d \in Differences : d \in Int /\ d >= 0
    /\ \A d \in Nat : d <= 268 => d \in Differences
<1>1. \A d \in Differences : d \in Int /\ d >= 0
  BY SMT DEF Differences
<1>2. \A d \in Nat : d <= 268 => d \in Differences
  BY SMT DEF Differences
<1>. QED BY <1>1, <1>2

(* A uint16_t holds every difference, and nothing else.                    *)
LEMMA U16Is ==
    /\ \A d \in Differences : u16(d) = d
    /\ \A n \in Int : u16(n) \in Differences
<1>1. \A d \in Differences : u16(d) = d
  BY SMT DEF Differences, u16
<1>2. \A n \in Int : u16(n) \in Differences
  BY SMT DEF Differences, u16
<1>. QED BY <1>1, <1>2

(* The nibble and the extra bytes of a difference or a length: the nibble  *)
(* tells how many extra bytes follow.                                      *)
LEMMA Nibbles ==
    ASSUME NEW d \in Differences
    PROVE  /\ computeExtraBytes(d) \in 0..2 /\ Nibble(d) \in 0..14
           /\ ExtraOf(Nibble(d)) = computeExtraBytes(d)
           /\ ExtraBytes(d) \in Seq(Byte)
           /\ Len(ExtraBytes(d)) = computeExtraBytes(d)
<1>0. d \in Int /\ d >= 0
  BY Small
<1>1. CASE d < 13
  <2>1. computeExtraBytes(d) = 0 /\ Nibble(d) = d
    BY <1>1 DEF computeExtraBytes, Nibble
  <2>2. ExtraBytes(d) = <<>>
    BY <2>1 DEF ExtraBytes
  <2>3. ExtraOf(d) = 0
    BY <1>0, <1>1 DEF ExtraOf
  <2>4. Nibble(d) \in 0..14 /\ ExtraBytes(d) \in Seq(Byte) /\ Len(ExtraBytes(d)) = 0
    BY <1>0, <1>1, <2>1, <2>2, EmptySeq
  <2>. QED BY <2>1, <2>3, <2>4
<1>2. CASE d >= 13 /\ d < 269
  <2>1. computeExtraBytes(d) = 1 /\ Nibble(d) = 13
    BY <1>0, <1>2 DEF computeExtraBytes, Nibble
  <2>2. ExtraBytes(d) = <<d - 13>>
    BY <2>1 DEF ExtraBytes
  <2>3. ExtraOf(13) = 1
    BY DEF ExtraOf
  <2>4. d - 13 \in Byte
    BY <1>0, <1>2 DEF Byte
  <2>5. <<d - 13>> \in Seq(Byte) /\ Len(<<d - 13>>) = 1
    BY <2>4
  <2>. QED BY <2>1, <2>2, <2>3, <2>5
<1>3. CASE d >= 269
  <2>1. computeExtraBytes(d) = 2 /\ Nibble(d) = 14
    BY <1>0, <1>3 DEF computeExtraBytes, Nibble
  <2>2. ExtraBytes(d) = <<(d - 269) \div 256, (d - 269) % 256>>
    BY <2>1 DEF ExtraBytes
  <2>3. ExtraOf(14) = 2
    BY DEF ExtraOf
  <2>4. (d - 269) \div 256 \in Byte /\ (d - 269) % 256 \in Byte
    BY SMT, <1>0, <1>3 DEF Byte, Differences
  <2>5. \A a, b \in Byte : <<a, b>> \in Seq(Byte) /\ Len(<<a, b>>) = 2
    OBVIOUS
  <2>. QED BY <2>1, <2>2, <2>3, <2>4, <2>5
<1>. QED BY <1>0, <1>1, <1>2, <1>3

(* A difference or a length is read as it was written.                     *)
LEMMA ExtendedIs ==
    ASSUME NEW d \in Differences, NEW p, NEW at \in Nat, Lies(p, at, ExtraBytes(d)),
           Len(p) \in Nat, at + computeExtraBytes(d) <= Len(p) + 1
    PROVE  Extended(p, Nibble(d), at) = d
<1>0. d \in Int /\ d >= 0
  BY Small
<1>1. CASE d < 13
  <2>1. Nibble(d) = d
    BY <1>0, <1>1 DEF Nibble
  <2>. QED BY <1>0, <1>1, <2>1 DEF Extended
<1>2. CASE d >= 13 /\ d < 269
  <2>1. computeExtraBytes(d) = 1 /\ Nibble(d) = 13
    BY <1>0, <1>2 DEF computeExtraBytes, Nibble
  <2>2. ExtraBytes(d) = <<d - 13>>
    BY <2>1 DEF ExtraBytes
  <2>3. p[at + 1 - 1] = d - 13
    <3>1. Len(<<d - 13>>) = 1 /\ <<d - 13>>[1] = d - 13 /\ 1 \in 1..1
      OBVIOUS
    <3>. QED BY <2>2, <3>1 DEF Lies
  <2>4. p[at] = d - 13
    BY <2>3
  <2>5. Extended(p, 13, at) = p[at] + 13
    <3>1. at <= Len(p)
      BY <2>1
    <3>. QED BY <3>1 DEF Extended, ByteAt
  <2>6. (d - 13) + 13 = d
    BY <1>0
  <2>. QED BY <2>1, <2>4, <2>5, <2>6
<1>3. CASE d >= 269
  <2>1. computeExtraBytes(d) = 2 /\ Nibble(d) = 14
    BY <1>0, <1>3 DEF computeExtraBytes, Nibble
  <2>2. ExtraBytes(d) = <<(d - 269) \div 256, (d - 269) % 256>>
    BY <2>1 DEF ExtraBytes
  <2>3. p[at + 1 - 1] = (d - 269) \div 256 /\ p[at + 2 - 1] = (d - 269) % 256
    <3>1. \A a, b : /\ Len(<<a, b>>) = 2 /\ <<a, b>>[1] = a /\ <<a, b>>[2] = b
                    /\ 1 \in 1..2 /\ 2 \in 1..2
      OBVIOUS
    <3>. QED BY <2>2, <3>1 DEF Lies
  <2>4. p[at] = (d - 269) \div 256 /\ p[at + 1] = (d - 269) % 256
    BY <2>3
  <2>5. Extended(p, 14, at) = u16(256 * p[at] + p[at + 1] + 269)
    <3>1. at <= Len(p) /\ at + 1 <= Len(p)
      BY <2>1
    <3>2. ByteAt(p, at) = p[at] /\ ByteAt(p, at + 1) = p[at + 1]
      BY <3>1 DEF ByteAt
    <3>. QED BY <3>2 DEF Extended
  <2>6. 256 * p[at] + p[at + 1] + 269 = d
    <3>1. 256 * ((d - 269) \div 256) + ((d - 269) % 256) + 269 = d
      BY <1>0, <1>3
    <3>. QED BY <2>4, <3>1
  <2>7. u16(d) = d
    BY SMT DEF Differences, u16
  <2>. QED BY <2>1, <2>5, <2>6, <2>7
<1>. QED BY <1>0, <1>1, <1>2, <1>3

(* Two nibbles in a byte are found again, and they are no payload marker.  *)
LEMMA TwoNibbles ==
    ASSUME NEW a \in 0..14, NEW b \in 0..14
    PROVE  /\ (16 * a + b) \div 16 = a /\ (16 * a + b) % 16 = b
           /\ 16 * a + b \in Byte /\ 16 * a + b # 255
BY DEF Byte

(* What lies where, of two sequences one behind the other.                 *)
LEMMA Joined ==
    ASSUME NEW a \in Seq(Byte), NEW b \in Seq(Byte)
    PROVE  /\ a \o b \in Seq(Byte) /\ Len(a \o b) = Len(a) + Len(b)
           /\ Len(a) \in Nat /\ Len(b) \in Nat
           /\ \A i \in 1..Len(a) : (a \o b)[i] = a[i]
           /\ \A i \in 1..Len(b) : (a \o b)[Len(a) + i] = b[i]
<1>1. /\ a \o b \in Seq(Byte) /\ Len(a \o b) = Len(a) + Len(b)
      /\ \A i \in 1..Len(a) + Len(b) :
            (a \o b)[i] = IF i <= Len(a) THEN a[i] ELSE b[i - Len(a)]
  BY ConcatProperties
<1>2. Len(a) \in Nat /\ Len(b) \in Nat
  BY LenProperties
<1>3. PICK w, m, n : w = a \o b /\ m = Len(a) /\ n = Len(b)
  OBVIOUS
<1>4. m \in Nat /\ n \in Nat /\ \A i \in 1..m + n : w[i] = IF i <= m THEN a[i] ELSE b[i - m]
  BY <1>1, <1>2, <1>3
<1>5. \A i \in 1..m : i \in 1..m + n /\ i <= m
  BY <1>4
<1>6. \A i \in 1..m : w[i] = a[i]
  BY <1>4, <1>5
<1>7. \A i \in 1..n : m + i \in 1..m + n /\ ~(m + i <= m) /\ (m + i) - m = i
  BY <1>4
<1>8. \A i \in 1..n : w[m + i] = b[i]
  BY <1>4, <1>7
<1>. QED BY <1>1, <1>2, <1>3, <1>6, <1>8

(* A joined sequence lies somewhere when its parts lie there one behind    *)
(* the other.                                                              *)
LEMMA LiesJoined ==
    ASSUME NEW a \in Seq(Byte), NEW b \in Seq(Byte), NEW p, NEW at \in Int
    PROVE  Lies(p, at, a \o b) <=> Lies(p, at, a) /\ Lies(p, at + Len(a), b)
<1>1. PICK w, m, n : w = a \o b /\ m = Len(a) /\ n = Len(b)
  OBVIOUS
<1>2. /\ m \in Nat /\ n \in Nat /\ Len(w) = m + n
      /\ \A i \in 1..m : w[i] = a[i]
      /\ \A i \in 1..n : w[m + i] = b[i]
  BY <1>1, Joined
<1>3. ASSUME \A i \in 1..m + n : p[at + i - 1] = w[i]
      PROVE  /\ \A i \in 1..m : p[at + i - 1] = a[i]
             /\ \A i \in 1..n : p[(at + m) + i - 1] = b[i]
  <2>1. \A i \in 1..m : i \in 1..m + n
    BY <1>2
  <2>2. \A i \in 1..n : m + i \in 1..m + n /\ at + (m + i) - 1 = (at + m) + i - 1
    BY <1>2
  <2>3. \A i \in 1..n : p[at + (m + i) - 1] = w[m + i]
    BY <1>3, <2>2
  <2>. QED BY <1>2, <1>3, <2>1, <2>2, <2>3
<1>4. ASSUME \A i \in 1..m : p[at + i - 1] = a[i],
             \A i \in 1..n : p[(at + m) + i - 1] = b[i],
             NEW i \in 1..m + n
      PROVE  p[at + i - 1] = w[i]
  <2>1. CASE i <= m
    <3>1. i \in 1..m
      BY <1>2, <2>1
    <3>. QED BY <1>2, <1>4, <3>1
  <2>2. CASE i > m
    <3>1. i - m \in 1..n /\ (at + m) + (i - m) - 1 = at + i - 1 /\ m + (i - m) = i
      BY <1>2, <2>2
    <3>2. p[(at + m) + (i - m) - 1] = b[i - m] /\ w[m + (i - m)] = b[i - m]
      BY <1>2, <1>4, <3>1
    <3>. QED BY <3>1, <3>2
  <2>. QED BY <1>2, <2>1, <2>2
<1>5. (\A i \in 1..m + n : p[at + i - 1] = w[i])
         <=> /\ \A i \in 1..m : p[at + i - 1] = a[i]
             /\ \A i \in 1..n : p[(at + m) + i - 1] = b[i]
  BY <1>3, <1>4
<1>. QED BY <1>1, <1>2, <1>5 DEF Lies

(* The bytes of a value with those of its length.                          *)
LEMMA TextIs ==
    ASSUME NEW v \in Values
    PROVE  /\ v \in Seq(Byte) /\ Len(v) \in 0..268 /\ Len(v) \in Differences
           /\ computeExtraBytes(Len(v)) \in 0..1
           /\ ExtraBytes(Len(v)) \in Seq(Byte)
           /\ Len(ExtraBytes(Len(v))) = computeExtraBytes(Len(v))
           /\ Text(v) \in Seq(Byte) /\ Len(Text(v)) = computeExtraBytes(Len(v)) + Len(v)
<1>1. v \in Seq(Byte) /\ Len(v) \in Nat /\ Len(v) <= 268
  BY DEF Values
<1>2. Len(v) \in Differences
  BY <1>1, Small
<1>3. computeExtraBytes(Len(v)) \in 0..1
  BY <1>1 DEF computeExtraBytes
<1>4. ExtraBytes(Len(v)) \in Seq(Byte) /\ Len(ExtraBytes(Len(v))) = computeExtraBytes(Len(v))
  BY <1>2, Nibbles
<1>5. Text(v) \in Seq(Byte) /\ Len(Text(v)) = Len(ExtraBytes(Len(v))) + Len(v)
  BY <1>1, <1>4, Joined DEF Text
<1>6. Len(v) \in 0..268
  <2>. \A n \in Nat : n <= 268 => n \in 0..268
    OBVIOUS
  <2>. QED BY <1>1
<1>. QED BY <1>1, <1>2, <1>3, <1>4, <1>5, <1>6

(* What insertOption makes, by what is found at its bytes.                 *)
LEMMA OptionIs ==
    ASSUME NEW d \in Differences, NEW v \in Values
    PROVE  /\ insertOption(d, v) \in Seq(Byte)
           /\ Len(insertOption(d, v)) = Size(d, v) /\ Size(d, v) \in Nat \ {0}
           /\ \A p : \A at \in Nat : Lies(p, at, insertOption(d, v)) <=> OptionLies(p, at, d, v)
<1>1. PICK n, head, x, k, y, t :
        /\ n = Len(v) /\ head = 16 * Nibble(d) + Nibble(n)
        /\ x = ExtraBytes(d) /\ k = computeExtraBytes(d) /\ y = ExtraBytes(n) /\ t = Text(v)
  OBVIOUS
<1>2. v \in Seq(Byte) /\ n \in 0..268 /\ n \in Differences /\ t \in Seq(Byte) /\ y \in Seq(Byte)
  BY <1>1, TextIs
<1>3. k \in 0..2 /\ Nibble(d) \in 0..14 /\ x \in Seq(Byte) /\ Len(x) = k
  BY <1>1, Nibbles
<1>4. Nibble(n) \in 0..14
  BY <1>2, Nibbles
<1>5. head \in Byte
  BY <1>1, <1>3, <1>4, TwoNibbles
<1>6. <<head>> \in Seq(Byte) /\ Len(<<head>>) = 1 /\ <<head>>[1] = head
  BY <1>5
<1>7. PICK h, front : h = <<head>> /\ front = h \o x
  OBVIOUS
<1>8. h \in Seq(Byte) /\ Len(h) = 1 /\ h[1] = head
  BY <1>6, <1>7
<1>9. front \in Seq(Byte) /\ Len(front) = 1 + k
  BY <1>3, <1>7, <1>8, Joined
<1>10. insertOption(d, v) = front \o t
  <2>1. v = [i \in 1..n |-> v[i]]
    BY <1>1, <1>2, LenProperties
  <2>2. \A i \in 1..n : (IF i <= n THEN v[i] ELSE Garbage) = v[i]
    BY <1>2
  <2>3. [i \in 1..n |-> IF i <= n THEN v[i] ELSE Garbage] = v
    BY <2>1, <2>2
  <2>4. n < 269
    BY <1>2
  <2>5. insertOption(d, v) = h \o x \o y \o [i \in 1..n |-> IF i <= n THEN v[i] ELSE Garbage]
    <3>1. insertOption(d, v) = <<head>> \o x \o y
              \o [i \in 1..n |-> IF i <= (IF n < 269 THEN n ELSE n - 269) THEN v[i] ELSE Garbage]
      BY <1>1, Zenon DEF insertOption
    <3>2. (IF n < 269 THEN n ELSE n - 269) = n
      BY <2>4
    <3>. QED BY <1>7, <3>1, <3>2, Zenon
  <2>6. insertOption(d, v) = (front \o y) \o v
    BY <1>7, <2>3, <2>5, Zenon
  <2>7. (front \o y) \o v = front \o (y \o v)
    <3>1. front \in Seq(Byte) /\ y \in Seq(Byte) /\ v \in Seq(Byte)
      BY <1>2, <1>9
    <3>. QED BY <3>1, ConcatAssociative
  <2>8. t = y \o v
    BY <1>1 DEF Text
  <2>. QED BY <2>6, <2>7, <2>8
<1>11. front \o t \in Seq(Byte) /\ Len(front \o t) = Len(front) + Len(t) /\ Len(t) \in Nat
  BY <1>2, <1>9, Joined
<1>12. Size(d, v) = 1 + k + Len(t)
  BY <1>1 DEF Size
<1>13. ASSUME NEW p, NEW at \in Nat
       PROVE  Lies(p, at, front \o t) <=> OptionLies(p, at, d, v)
  <2>0. at \in Int
    OBVIOUS
  <2>1. Lies(p, at, front \o t) <=> Lies(p, at, front) /\ Lies(p, at + (1 + k), t)
    BY <1>2, <1>9, <2>0, LiesJoined
  <2>2. Lies(p, at, front) <=> Lies(p, at, h) /\ Lies(p, at + 1, x)
    BY <1>3, <1>7, <1>8, <2>0, LiesJoined
  <2>3. Lies(p, at, h) <=> p[at] = head
    <3>1. at + 1 - 1 = at /\ 1..1 = {1}
      OBVIOUS
    <3>. QED BY <1>8, <3>1 DEF Lies
  <2>4. at + (1 + k) = at + 1 + k
    BY <1>3
  <2>5. OptionLies(p, at, d, v) <=> p[at] = head /\ Lies(p, at + 1, x) /\ Lies(p, at + 1 + k, t)
    BY <1>1 DEF OptionLies
  <2>. QED BY <2>1, <2>2, <2>3, <2>4, <2>5
<1>14. Len(front \o t) = Size(d, v) /\ Size(d, v) \in Nat \ {0}
  BY <1>3, <1>9, <1>11, <1>12
<1>. QED BY <1>10, <1>11, <1>13, <1>14

(* The number before the i-th option, from which it counts.                *)
Known == {d \in Differences : d \in Numbers \cup {URI_PATH, CONTENT_FORMAT, URI_QUERY}}
Opt == [number : Known, value : Values]
PriorTo(opts, i) == IF i = 1 THEN 0 ELSE opts[i - 1].number
Delta(opts, i) == opts[i].number - PriorTo(opts, i)
Risen(opts) == \A i, j \in 1..Len(opts) : i <= j => opts[i].number <= opts[j].number
Tailed(body) == IF body = <<>> THEN <<>> ELSE <<Marker>> \o body

(* The message is token, options and tail one behind the other: pos[i] is  *)
(* where the i-th option begins.                                           *)
Laid(p, tkl, opts, pos, tail) ==
    /\ pos \in [1..Len(opts) + 1 -> Nat] /\ pos[1] = tkl + 1
    /\ \A i \in 1..Len(opts) :
          /\ OptionLies(p, pos[i], Delta(opts, i), opts[i].value)
          /\ pos[i + 1] = pos[i] + Size(Delta(opts, i), opts[i].value)
    /\ pos[Len(opts) + 1] + Len(tail) = Len(p) + 1
    /\ Lies(p, pos[Len(opts) + 1], tail)

(* A set of natural numbers has a least member.                            *)
LEMMA LeastNumber ==
    ASSUME NEW T \in SUBSET Nat, T # {}
    PROVE  \E x \in T : \A y \in T : x <= y
<1>1. PICK x \in T : \A y \in T : <<y, x>> \notin OpToRel(<, Nat)
  BY NatLessThanWellFounded, WFMin
<1>2. \A y \in T : ~(y < x)
  BY <1>1 DEF OpToRel
<1>. QED BY <1>2

(* A set with 0 and with the successor of every number in it has them all: *)
(* induction with a set, which the provers can instantiate.                *)
LEMMA NumbersInduction ==
    ASSUME NEW T, 0 \in T, \A n \in T \cap Nat : n + 1 \in T
    PROVE  Nat \subseteq T
<1>. SUFFICES ASSUME NEW m \in Nat, m \notin T
              PROVE  FALSE
  OBVIOUS
<1>1. PICK x \in Nat \ T : \A y \in Nat \ T : x <= y
  BY LeastNumber, Nat \ T \in SUBSET Nat, m \in Nat \ T
<1>2. x - 1 \in Nat /\ ~(x <= x - 1) /\ (x - 1) + 1 = x
  BY <1>1
<1>. QED BY <1>1, <1>2

(* In a list in order the differences are no less than zero, and each      *)
(* leads from one number to the next.                                      *)
LEMMA DeltaIs ==
    ASSUME NEW opts \in Seq(Opt), Risen(opts), NEW i \in 1..Len(opts)
    PROVE  /\ PriorTo(opts, i) \in Differences /\ Delta(opts, i) \in Differences
           /\ opts[i].number \in Differences /\ opts[i].value \in Values
           /\ PriorTo(opts, i) + Delta(opts, i) = opts[i].number
           /\ PriorTo(opts, i + 1) = opts[i].number
<1>1. Len(opts) \in Nat
  BY LenProperties
<1>2. opts[i] \in Opt
  BY ElementOfSeq
<1>3. opts[i].number \in Differences /\ opts[i].value \in Values
  BY <1>2 DEF Opt, Known
<1>4. PriorTo(opts, i) \in Differences /\ PriorTo(opts, i) <= opts[i].number
  <2>1. CASE i = 1
    <3>1. PriorTo(opts, i) = 0
      BY <2>1 DEF PriorTo
    <3>2. 0 \in Differences
      BY Small
    <3>3. opts[i].number >= 0
      BY <1>3, Small
    <3>. QED BY <3>1, <3>2, <3>3
  <2>2. CASE i # 1
    <3>1. i - 1 \in 1..Len(opts) /\ i - 1 <= i
      BY <1>1, <2>2
    <3>2. PriorTo(opts, i) = opts[i - 1].number
      BY <2>2 DEF PriorTo
    <3>3. opts[i - 1] \in Opt
      BY <3>1, ElementOfSeq
    <3>4. opts[i - 1].number <= opts[i].number
      BY <3>1 DEF Risen
    <3>. QED BY <3>2, <3>3, <3>4 DEF Opt, Known
  <2>. QED BY <2>1, <2>2
<1>5. \A a, b \in Differences : a <= b => b - a \in Differences /\ a + (b - a) = b
  BY SMT DEF Differences
<1>6. Delta(opts, i) \in Differences /\ PriorTo(opts, i) + Delta(opts, i) = opts[i].number
  BY <1>3, <1>4, <1>5 DEF Delta
<1>7. PriorTo(opts, i + 1) = opts[i].number
  <2>1. i + 1 # 1 /\ (i + 1) - 1 = i
    BY <1>1
  <2>. QED BY <2>1 DEF PriorTo
<1>. QED BY <1>3, <1>4, <1>6, <1>7

(* What lies in a message is cut out of it.                                *)
LEMMA CatLies ==
    ASSUME NEW p \in Seq(Byte), NEW v \in Seq(Byte), NEW from \in Nat \ {0},
           from + Len(v) - 1 <= Len(p), Lies(p, from, v)
    PROVE  Cat(p, from, from + Len(v) - 1) = v
<1>1. PICK n \in Nat : n = Len(v) /\ v = [i \in 1..n |-> v[i]]
  BY LenProperties
<1>2. PICK m \in Nat : m = Len(p) /\ p \in [1..m -> Byte]
  BY LenProperties
<1>3. PICK to \in Int : to = from + n - 1 /\ from - 1 <= to /\ to <= m
  BY <1>1, <1>2
<1>4. Cat(p, from, to) = SubSeq(p, from, to)
  BY <1>3 DEF Cat
<1>5. \A i \in from..to : p[i] \in Byte
  BY <1>2, <1>3
<1>6. PICK w : w = SubSeq(p, from, to)
  OBVIOUS
<1>7. /\ w \in Seq(Byte) /\ Len(w) = IF from <= to THEN to - from + 1 ELSE 0
      /\ \A i \in 1..to - from + 1 : w[i] = p[from + i - 1]
  BY <1>3, <1>5, <1>6, SubSeqProperties
<1>8. to - from + 1 = n /\ Len(w) = n
  BY <1>1, <1>3, <1>7
<1>9. \A i \in 1..n : w[i] = v[i]
  BY <1>1, <1>7, <1>8 DEF Lies
<1>10. w = v
  BY <1>1, <1>7, <1>8, <1>9, SeqEqual
<1>. QED BY <1>1, <1>3, <1>4, <1>6, <1>10

(* An option that lies in the message is read as it was made.              *)
LEMMA OptionAtIs ==
    ASSUME NEW p \in Seq(Byte), NEW d \in Differences, NEW v \in Values,
           NEW prev \in Differences, prev + d \in Differences,
           NEW at \in Nat \ {0}, at + Size(d, v) <= Len(p) + 1, OptionLies(p, at, d, v)
    PROVE  /\ at <= Len(p) /\ p[at] # Marker /\ HeaderFits(p, at)
           /\ getOptionDelta(p, at) = d
           /\ OptionAt(p, at, prev) = [at |-> at, prev |-> prev, number |-> prev + d,
                                       end |-> at + Size(d, v), value |-> v]
<1>1. PICK n, k, l, y, t :
        /\ n = Len(v) /\ k = computeExtraBytes(d) /\ l = computeExtraBytes(n)
        /\ y = ExtraBytes(n) /\ t = Text(v)
  OBVIOUS
<1>2. /\ v \in Seq(Byte) /\ n \in 0..268 /\ n \in Differences /\ l \in 0..1
      /\ y \in Seq(Byte) /\ Len(y) = l /\ Len(t) = l + n
  BY <1>1, TextIs
<1>3. k \in 0..2 /\ Nibble(d) \in 0..14 /\ ExtraOf(Nibble(d)) = k
  BY <1>1, Nibbles
<1>4. Nibble(n) \in 0..14 /\ ExtraOf(Nibble(n)) = l
  BY <1>1, <1>2, Nibbles
<1>5. p[at] = 16 * Nibble(d) + Nibble(n)
  BY <1>1 DEF OptionLies
<1>6. p[at] \div 16 = Nibble(d) /\ p[at] % 16 = Nibble(n) /\ p[at] # 255
  <2>1. /\ (16 * Nibble(d) + Nibble(n)) \div 16 = Nibble(d)
        /\ (16 * Nibble(d) + Nibble(n)) % 16 = Nibble(n) /\ 16 * Nibble(d) + Nibble(n) # 255
    BY <1>3, <1>4, TwoNibbles
  <2>. QED BY <1>5, <2>1
<1>7. Lies(p, at + 1, ExtraBytes(d)) /\ Lies(p, at + 1 + k, t)
  BY <1>1 DEF OptionLies
<1>8. Size(d, v) = 1 + k + (l + n)
  BY <1>1, <1>2 DEF Size
<1>9. Len(p) \in Nat
  BY LenProperties
<1>10. PICK from \in Nat \ {0} : from = at + 1 + k + l
  BY <1>2, <1>3
<1>11. Lies(p, at + 1 + k, y) /\ Lies(p, from, v)
  <2>1. t = y \o v
    BY <1>1 DEF Text
  <2>2. at + 1 + k \in Int
    BY <1>3
  <2>3. Lies(p, at + 1 + k, y) /\ Lies(p, at + 1 + k + Len(y), v)
    BY <1>2, <1>7, <2>1, <2>2, LiesJoined
  <2>. QED BY <1>2, <1>10, <2>3
<1>12. from + n = at + Size(d, v) /\ from + n - 1 <= Len(p) /\ at <= Len(p) /\ at + k + l <= Len(p)
  <2>1. PICK size, last : size = Size(d, v) /\ last = Len(p)
    OBVIOUS
  <2>2. size = 1 + k + (l + n) /\ at + size <= last + 1 /\ last \in Nat
    BY <1>8, <1>9, <2>1
  <2>3. k \in Nat /\ l \in Nat /\ n \in Nat
    BY <1>2, <1>3
  <2>4. from + n = at + size /\ from + n - 1 <= last /\ at <= last /\ at + k + l <= last
    BY <1>10, <2>2, <2>3
  <2>. QED BY <2>1, <2>4
<1>13. getOptionDelta(p, at) = d
  <2>1. at + 1 \in Nat /\ at + 1 + computeExtraBytes(d) <= Len(p) + 1
    <3>1. PICK last : last = Len(p)
      OBVIOUS
    <3>2. at + k + l <= last /\ last \in Nat
      BY <1>9, <1>12, <3>1
    <3>3. at + 1 \in Nat /\ at + 1 + k <= last + 1
      BY <1>2, <1>3, <3>2
    <3>. QED BY Zenon, <1>1, <3>1, <3>3
  <2>2. Extended(p, Nibble(d), at + 1) = d
    BY <1>7, <1>9, <2>1, ExtendedIs
  <2>. QED BY <1>6, <2>2 DEF getOptionDelta
<1>14. getOptionValueLength(p, at) = n
  <2>1. at + 1 + k \in Nat /\ at + 1 + k + computeExtraBytes(n) <= Len(p) + 1
    <3>1. k \in Nat /\ l \in Nat
      BY <1>2, <1>3
    <3>2. at + 1 + k + l <= Len(p) + 1
      BY <1>9, <1>12, <3>1
    <3>. QED BY <1>1, <3>1, <3>2
  <2>2. Extended(p, Nibble(n), at + 1 + k) = n
    BY <1>1, <1>2, <1>9, <1>11, <2>1, ExtendedIs
  <2>. QED BY <1>3, <1>6, <2>2 DEF getOptionValueLength
<1>15. Cat(p, from, from + n - 1) = v
  BY <1>1, <1>2, <1>11, <1>12, CatLies
<1>16. HeaderFits(p, at)
  <2>1. p[at] \div 16 # 15 /\ p[at] % 16 # 15
    <3>. \A x \in 0..14 : x # 15
      OBVIOUS
    <3>1. Nibble(d) # 15 /\ Nibble(n) # 15
      BY <1>3, <1>4
    <3>. QED BY <1>6, <3>1
  <2>2. computeExtraBytes(p[at] \div 16) <= k /\ computeExtraBytes(p[at] % 16) <= l
    <3>1. computeExtraBytes(Nibble(d)) <= k
      BY <1>1, Small DEF Nibble, computeExtraBytes
    <3>2. computeExtraBytes(Nibble(n)) <= l
      <4>1. n \in Int
        BY <1>2
      <4>2. computeExtraBytes(Nibble(n)) <= computeExtraBytes(n)
        BY ONLY <4>1 DEF Nibble, computeExtraBytes
      <4>. QED BY Zenon, <1>1, <4>2
    <3>. QED BY <1>6, <3>1, <3>2
  <2>3. computeExtraBytes(p[at] \div 16) \in Nat /\ computeExtraBytes(p[at] % 16) \in Nat
    BY DEF computeExtraBytes
  <2>4. at + computeExtraBytes(p[at] \div 16) + computeExtraBytes(p[at] % 16) <= at + k + l
    BY <1>2, <1>3, <2>2, <2>3
  <2>5. at + computeExtraBytes(p[at] \div 16) + computeExtraBytes(p[at] % 16) <= Len(p)
    <3>1. PICK u, z, last : /\ u = computeExtraBytes(p[at] \div 16)
                            /\ z = computeExtraBytes(p[at] % 16) /\ last = Len(p)
      OBVIOUS
    <3>2. u \in Nat /\ z \in Nat /\ last \in Nat /\ at + u + z <= at + k + l /\ at + k + l <= last
      BY <1>9, <1>12, <2>3, <2>4, <3>1
    <3>3. at + u + z <= last
      BY <1>2, <1>3, <3>2
    <3>. QED BY Zenon, <3>1, <3>3
  <2>. QED BY <2>1, <2>5 DEF HeaderFits
<1>17. u16(prev + d) = prev + d
  BY SMT DEF Differences, u16
<1>18. OptionAt(p, at, prev) = [at |-> at, prev |-> prev, number |-> prev + d,
                                end |-> from + n, value |-> v]
  <2>1. OptionAt(p, at, prev) = [at |-> at, prev |-> prev, number |-> u16(prev + d),
            end |-> from + n,
            value |-> IF from + n - 1 <= Len(p) THEN Cat(p, from, from + n - 1) ELSE <<>>]
    <3>. HIDE DEF Cat
    <3>. QED BY Zenon, <1>1, <1>10, <1>13, <1>14 DEF OptionAt
  <2>2. (IF from + n - 1 <= Len(p) THEN Cat(p, from, from + n - 1) ELSE <<>>) = v
    BY <1>12, <1>15
  <2>. QED BY Zenon, <1>17, <2>1, <2>2
<1>. QED BY <1>6, <1>13, <1>12, <1>16, <1>18 DEF Marker

(* The walk goes on option by option.                                      *)
LEMMA WalkedDef ==
    ASSUME NEW p, NEW tkl, Len(p) \in Nat
    PROVE  /\ walked(p, tkl)[0] = Started(tkl)
           /\ \A n \in 1..Len(p) + 1 : walked(p, tkl)[n] = WalkOn(p, walked(p, tkl)[n - 1])
<1>1. PICK k \in Nat : k = Len(p) + 1
  OBVIOUS
<1> DEFINE GoOn(f, n) == WalkOn(p, f[n - 1])
           Body(f) == [n \in 0..k |-> IF n = 0 THEN Started(tkl) ELSE GoOn(f, n)]
           found == CHOOSE f : f = Body(f)
           Begins(f, m) == /\ f = [n \in 0..m |-> f[n]] /\ f[0] = Started(tkl)
                           /\ \A n \in 1..m : f[n] = WalkOn(p, f[n - 1])
           Ok == {m \in Nat : \E f : Begins(f, m)}
<1>2. walked(p, tkl) = found
  BY <1>1 DEF walked
<1>3. 0 \in Ok
  <2>1. PICK f : f = [n \in 0..0 |-> Started(tkl)]
    OBVIOUS
  <2>2. Begins(f, 0)
    BY <2>1
  <2>. QED BY <2>2
<1>4. ASSUME NEW m \in Ok \cap Nat
      PROVE  m + 1 \in Ok
  <2>1. PICK f : Begins(f, m)
    OBVIOUS
  <2>2. PICK g : g = [n \in 0..m + 1 |-> IF n = m + 1 THEN WalkOn(p, f[m]) ELSE f[n]]
    OBVIOUS
  <2>3. /\ g = [n \in 0..m + 1 |-> g[n]] /\ g[m + 1] = WalkOn(p, f[m])
        /\ \A n \in 0..m : g[n] = f[n]
    BY <2>2
  <2>4. ASSUME NEW n \in 1..m + 1
        PROVE  g[n] = WalkOn(p, g[n - 1])
    <3>1. CASE n = m + 1
      <4>1. n - 1 = m /\ m \in 0..m
        BY <3>1
      <4>. QED BY <2>3, <3>1, <4>1
    <3>2. CASE n # m + 1
      <4>1. n \in 1..m /\ n \in 0..m /\ n - 1 \in 0..m
        BY <3>2
      <4>2. f[n] = WalkOn(p, f[n - 1])
        BY <2>1, <4>1
      <4>. QED BY <2>3, <4>1, <4>2
    <3>. QED BY <3>1, <3>2
  <2>5. g[0] = Started(tkl)
    BY <2>1, <2>3
  <2>6. Begins(g, m + 1)
    BY <2>3, <2>4, <2>5
  <2>7. m + 1 \in Nat
    OBVIOUS
  <2>. HIDE DEF Begins
  <2>. QED BY <2>6, <2>7
<1>5. k \in Ok
  <2>. HIDE DEF Ok
  <2>. QED BY <1>3, <1>4, NumbersInduction
<1>6. PICK f : Begins(f, k)
  BY <1>5
<1>7. f = Body(f)
  <2>1. \A n \in 0..k : n # 0 => n \in 1..k
    OBVIOUS
  <2>2. \A n \in 0..k : f[n] = IF n = 0 THEN Started(tkl) ELSE GoOn(f, n)
    BY <1>6, <2>1
  <2>. HIDE DEF GoOn
  <2>. QED BY <1>6, <2>2
<1>8. found = Body(found)
  <2>. HIDE DEF Body
  <2>. QED BY <1>7
<1>. HIDE DEF found
<1>9. found[0] = Started(tkl) /\ \A n \in 1..k : found[n] = GoOn(found, n)
  <2>. HIDE DEF GoOn
  <2>. QED BY <1>8
<1>. QED BY <1>1, <1>2, <1>9

(* A sequence with one element more.                                       *)
LEMMA AppendUpTo ==
    ASSUME NEW f, NEW n \in Nat
    PROVE  Append([i \in 1..n |-> f[i]], f[n + 1]) = [i \in 1..n + 1 |-> f[i]]
<1> DEFINE S == {f[i] : i \in 1..n + 1}
           s == [i \in 1..n |-> f[i]]
           t == [i \in 1..n + 1 |-> f[i]]
<1>1. s \in [1..n -> S] /\ t \in [1..n + 1 -> S] /\ f[n + 1] \in S
  BY n + 1 \in 1..n + 1
<1>2. (\A i \in 1..n : s[i] = f[i]) /\ \A i \in 1..n + 1 : t[i] = f[i]
  OBVIOUS
<1>. HIDE DEF S, s, t
<1>3. s \in Seq(S) /\ Len(s) = n /\ t \in Seq(S) /\ Len(t) = n + 1
  BY <1>1
<1>4. PICK w : w = Append(s, f[n + 1])
  OBVIOUS
<1>5. /\ w \in Seq(S) /\ Len(w) = n + 1 /\ w[n + 1] = f[n + 1]
      /\ \A i \in 1..n : w[i] = s[i]
  BY <1>1, <1>3, <1>4, AppendProperties
<1>6. \A i \in 1..n + 1 : w[i] = t[i]
  <2>1. \A i \in 1..n + 1 : i \in 1..n \/ i = n + 1
    OBVIOUS
  <2>. QED BY <1>2, <1>5, <2>1
<1>7. w = t
  BY <1>3, <1>5, <1>6, SeqEqual
<1>. QED BY <1>4, <1>7 DEF s, t

(* Options are at least a byte long.                                       *)
LEMMA PlacesRise ==
    ASSUME NEW p \in Seq(Byte), NEW tkl \in Nat, NEW opts \in Seq(Opt), Risen(opts),
           NEW pos, NEW tail \in Seq(Byte), Laid(p, tkl, opts, pos, tail)
    PROVE  /\ \A i \in 1..Len(opts) + 1 : /\ pos[i] \in Nat /\ pos[i] >= i + tkl
                                          /\ pos[i] <= Len(p) + 1
           /\ \A i, j \in 1..Len(opts) + 1 : i < j => pos[i] < pos[j]
<1>1. PICK n \in Nat : n = Len(opts)
  BY LenProperties
<1>2. /\ pos \in [1..n + 1 -> Nat] /\ pos[1] = tkl + 1
      /\ \A i \in 1..n : pos[i + 1] = pos[i] + Size(Delta(opts, i), opts[i].value)
      /\ pos[n + 1] + Len(tail) = Len(p) + 1
  BY <1>1 DEF Laid
<1>3. \A i \in 1..n : Size(Delta(opts, i), opts[i].value) \in Nat \ {0}
  BY <1>1, DeltaIs, OptionIs
<1>4. \A i \in 1..n : pos[i] \in Nat /\ pos[i + 1] \in Nat /\ pos[i + 1] > pos[i]
  <2>1. \A i \in 1..n : i \in 1..n + 1 /\ i + 1 \in 1..n + 1
    OBVIOUS
  <2>2. \A i \in 1..n : pos[i] \in Nat /\ pos[i + 1] \in Nat
    BY <1>2, <2>1
  <2>3. \A a, b \in Nat : \A c \in Nat \ {0} : b = a + c => b > a
    OBVIOUS
  <2>. QED BY <1>2, <1>3, <2>2, <2>3
<1> DEFINE Ok == {m \in Nat : \A i \in 1..n + 1 : i + m <= n + 1 => pos[i + m] >= pos[i] + m}
<1>5. 0 \in Ok
  <2>1. \A i \in 1..n + 1 : i + 0 = i /\ pos[i] \in Nat
    BY <1>2
  <2>2. \A i \in 1..n + 1 : pos[i + 0] >= pos[i] + 0
    BY <2>1
  <2>. QED BY <2>2
<1>6. ASSUME NEW m \in Ok \cap Nat
      PROVE  m + 1 \in Ok
  <2>. SUFFICES ASSUME NEW i \in 1..n + 1, i + (m + 1) <= n + 1
                PROVE  pos[i + (m + 1)] >= pos[i] + (m + 1)
    OBVIOUS
  <2>1. i + m \in 1..n /\ i + (m + 1) = (i + m) + 1 /\ i + m <= n + 1
    OBVIOUS
  <2>2. pos[i + m] >= pos[i] + m
    BY <2>1
  <2>3. pos[i] \in Nat
    BY <1>2
  <2>4. pos[i + m] \in Nat /\ pos[(i + m) + 1] \in Nat /\ pos[(i + m) + 1] > pos[i + m]
    BY <1>4, <2>1
  <2>5. pos[(i + m) + 1] >= pos[i] + (m + 1)
    BY <2>2, <2>3, <2>4
  <2>. QED BY <2>1, <2>5
<1>7. Nat \subseteq Ok
  <2>. HIDE DEF Ok
  <2>. QED BY <1>5, <1>6, NumbersInduction
<1>8. ASSUME NEW i \in 1..n + 1, NEW j \in 1..n + 1, i <= j
      PROVE  pos[j] >= pos[i] + (j - i) /\ pos[i] \in Nat /\ pos[j] \in Nat
  <2>1. j - i \in Nat /\ i + (j - i) = j /\ j <= n + 1
    BY <1>8
  <2>2. j - i \in Ok
    BY <1>7, <2>1
  <2>3. pos[i + (j - i)] >= pos[i] + (j - i)
    BY <2>1, <2>2
  <2>. QED BY <1>2, <2>1, <2>3
<1>. HIDE DEF Ok
<1>9. ASSUME NEW i \in 1..n + 1
      PROVE  pos[i] \in Nat /\ pos[i] >= i + tkl /\ pos[i] <= Len(p) + 1
  <2>1. 1 \in 1..n + 1 /\ 1 <= i /\ n + 1 \in 1..n + 1 /\ i <= n + 1
    OBVIOUS
  <2>2. pos[i] >= pos[1] + (i - 1) /\ pos[n + 1] >= pos[i] + (n + 1 - i)
    BY <1>8, <2>1
  <2>3. pos[i] \in Nat /\ pos[n + 1] \in Nat
    BY <1>2, <2>1
  <2>4. Len(tail) \in Nat /\ Len(p) \in Nat
    BY LenProperties
  <2>5. PICK a, b, c, d : a = pos[i] /\ b = pos[n + 1] /\ c = Len(tail) /\ d = Len(p)
    OBVIOUS
  <2>6. a >= i + tkl /\ b >= a + (n + 1 - i) /\ b + c = d + 1 /\ a \in Nat /\ b \in Nat /\ c \in Nat
        /\ d \in Nat
    BY <1>2, <2>2, <2>3, <2>4, <2>5
  <2>7. a <= d + 1
    BY <2>6
  <2>. QED BY <2>5, <2>6, <2>7
<1>10. ASSUME NEW i \in 1..n + 1, NEW j \in 1..n + 1, i < j
       PROVE  pos[i] < pos[j]
  <2>1. pos[j] >= pos[i] + (j - i) /\ pos[i] \in Nat /\ pos[j] \in Nat
    BY <1>8, <1>10
  <2>. QED BY <1>10, <2>1
<1>. QED BY <1>1, <1>9, <1>10

(* What the walk finds of the i-th option.                                 *)
Found(opts, pos, i) ==
    [at |-> pos[i], prev |-> PriorTo(opts, i), number |-> opts[i].number, end |-> pos[i + 1],
     value |-> opts[i].value]

(* The walk after n options.                                               *)
Walking(opts, pos, n) ==
    [at |-> pos[n + 1], prev |-> PriorTo(opts, n + 1),
     opts |-> [i \in 1..n |-> Found(opts, pos, i)], ended |-> FALSE, valid |-> FALSE,
     payload |-> <<>>]

(* A step of the walk takes in the next option.                            *)
LEMMA WalkGoesOn ==
    ASSUME NEW p \in Seq(Byte), NEW tkl \in Nat, NEW opts \in Seq(Opt), Risen(opts),
           NEW pos, NEW tail \in Seq(Byte), Laid(p, tkl, opts, pos, tail), NEW n \in 1..Len(opts)
    PROVE  WalkOn(p, Walking(opts, pos, n - 1)) = Walking(opts, pos, n)
<1>1. PICK place, next, prev, number, value, d, size :
        /\ place = pos[n] /\ next = pos[n + 1] /\ prev = PriorTo(opts, n) /\ number = opts[n].number
        /\ value = opts[n].value /\ d = Delta(opts, n) /\ size = Size(d, value)
  OBVIOUS
<1>2. Len(opts) \in Nat /\ (n - 1) + 1 = n /\ n \in 1..Len(opts) + 1 /\ n + 1 \in 1..Len(opts) + 1
      /\ n - 1 \in Nat
  BY LenProperties
<1>3. /\ prev \in Differences /\ d \in Differences /\ number \in Differences /\ value \in Values
      /\ prev + d = number /\ PriorTo(opts, n + 1) = number
  BY <1>1, DeltaIs
<1>4. OptionLies(p, place, d, value) /\ next = place + size
  BY <1>1 DEF Laid
<1>5. place \in Nat \ {0} /\ next \in Nat /\ next <= Len(p) + 1
  <2>1. /\ pos[n] \in Nat /\ pos[n] >= n + tkl /\ pos[n + 1] \in Nat
        /\ pos[n + 1] <= Len(p) + 1
    BY <1>2, PlacesRise
  <2>. QED BY <1>1, <2>1
<1>6. /\ place <= Len(p) /\ p[place] # Marker /\ HeaderFits(p, place)
      /\ OptionAt(p, place, prev) = [at |-> place, prev |-> prev, number |-> prev + d,
                                     end |-> place + size, value |-> value]
  <2>1. prev + d \in Differences /\ place + Size(d, value) <= Len(p) + 1
    BY <1>1, <1>3, <1>4, <1>5
  <2>. QED BY <1>1, <1>3, <1>4, <1>5, <2>1, OptionAtIs
<1>7. OptionAt(p, place, prev) = Found(opts, pos, n)
  BY <1>1, <1>3, <1>4, <1>6 DEF Found
<1>8. PICK w, o, before : w = Walking(opts, pos, n - 1) /\ o = Found(opts, pos, n)
                          /\ before = [i \in 1..n - 1 |-> Found(opts, pos, i)]
  OBVIOUS
<1>9. /\ w = [at |-> place, prev |-> prev, opts |-> before, ended |-> FALSE, valid |-> FALSE,
              payload |-> <<>>]
      /\ w.at = place /\ w.prev = prev /\ w.ended = FALSE /\ w.opts = before
  BY <1>1, <1>2, <1>8 DEF Walking
<1>10. o.end = next /\ o.number = number
  BY <1>1, <1>8 DEF Found
<1>11. WalkOn(p, w) = WalkOver(p, w, o)
  <2>1. ~(place > Len(p))
    <3>1. Len(p) \in Nat
      BY LenProperties
    <3>. QED BY <1>5, <1>6, <3>1
  <2>2. OptionAt(p, place, prev) = o
    BY <1>7, <1>8
  <2>. QED BY <1>6, <1>9, <2>1, <2>2 DEF WalkOn
<1>12. WalkOver(p, w, o) = [at |-> o.end, prev |-> o.number, opts |-> Append(w.opts, o),
                            ended |-> FALSE, valid |-> FALSE,
     payload |-> <<>>]
  <2>1. ~(o.end > Len(p) + 1)
    <3>1. Len(p) \in Nat
      BY LenProperties
    <3>. QED BY <1>5, <1>10, <3>1
  <2>. QED BY <2>1 DEF WalkOver
<1>13. Append(before, o) = [i \in 1..n |-> Found(opts, pos, i)]
  <2>1. PICK f : f = [i \in 1..n |-> Found(opts, pos, i)]
    OBVIOUS
  <2>2. f[n] = o /\ \A i \in 1..n - 1 : f[i] = Found(opts, pos, i)
    BY <1>2, <1>8, <2>1
  <2>3. before = [i \in 1..n - 1 |-> f[i]]
    BY <1>8, <2>2
  <2>4. f = [i \in 1..n |-> f[i]]
    BY <2>1
  <2>5. Append([i \in 1..n - 1 |-> f[i]], f[(n - 1) + 1]) = [i \in 1..(n - 1) + 1 |-> f[i]]
    BY <1>2, AppendUpTo
  <2>. QED BY <1>2, <2>1, <2>2, <2>3, <2>4, <2>5
<1>14. WalkOver(p, w, o)
           = [at |-> next, prev |-> number, opts |-> [i \in 1..n |-> Found(opts, pos, i)],
              ended |-> FALSE, valid |-> FALSE,
     payload |-> <<>>]
  BY <1>9, <1>10, <1>12, <1>13
<1>. QED BY <1>1, <1>3, <1>8, <1>11, <1>14 DEF Walking

(* The bytes of a payload: the marker and the body, or nothing.            *)
LEMMA TailedIs ==
    ASSUME NEW body \in Seq(Byte)
    PROVE  /\ Tailed(body) \in Seq(Byte) /\ Len(body) \in Nat
           /\ Len(Tailed(body)) = IF body = <<>> THEN 0 ELSE Len(body) + 1
           /\ \A p : \A at \in Int : body # <<>> =>
                (Lies(p, at, Tailed(body)) <=> p[at] = Marker /\ Lies(p, at + 1, body))
<1>1. CASE body = <<>>
  BY <1>1 DEF Tailed
<1>2. CASE body # <<>>
  <2>1. PICK h : h = <<Marker>>
    OBVIOUS
  <2>2. h \in Seq(Byte) /\ Len(h) = 1 /\ h[1] = Marker
    BY <2>1 DEF Marker, Byte
  <2>3. Tailed(body) = h \o body
    BY <1>2, <2>1 DEF Tailed
  <2>4. Tailed(body) \in Seq(Byte) /\ Len(Tailed(body)) = 1 + Len(body) /\ Len(body) \in Nat
    BY <2>2, <2>3, Joined
  <2>5. ASSUME NEW p, NEW at \in Int
        PROVE  Lies(p, at, Tailed(body)) <=> p[at] = Marker /\ Lies(p, at + 1, body)
    <3>1. Lies(p, at, h \o body) <=> Lies(p, at, h) /\ Lies(p, at + 1, body)
      BY <2>2, LiesJoined
    <3>2. Lies(p, at, h) <=> p[at] = Marker
      <4>1. at + 1 - 1 = at /\ 1..1 = {1}
        OBVIOUS
      <4>. QED BY <2>2, <4>1 DEF Lies
    <3>. QED BY <2>3, <3>1, <3>2
  <2>6. Len(Tailed(body)) = Len(body) + 1
    BY <2>4
  <2>. QED BY <1>2, <2>4, <2>5, <2>6
<1>. QED BY <1>1, <1>2

(* Behind the options it finds the payload, or the end.                    *)
Walked(opts, pos, body) ==
    [at |-> pos[Len(opts) + 1], prev |-> PriorTo(opts, Len(opts) + 1),
     opts |-> [i \in 1..Len(opts) |-> Found(opts, pos, i)],
     ended |-> TRUE, valid |-> TRUE, payload |-> body]

(* The last step of the walk reads the payload.                            *)
LEMMA WalkEnds ==
    ASSUME NEW p \in Seq(Byte), NEW tkl \in Nat, NEW opts \in Seq(Opt), Risen(opts),
           NEW pos, NEW body \in Seq(Byte), Laid(p, tkl, opts, pos, Tailed(body))
    PROVE  WalkOn(p, Walking(opts, pos, Len(opts))) = Walked(opts, pos, body)
<1>1. PICK n, place, m : n = Len(opts) /\ place = pos[n + 1] /\ m = Len(p)
  OBVIOUS
<1>2. n \in Nat /\ m \in Nat /\ Len(body) \in Nat /\ n + 1 \in 1..n + 1
  BY <1>1, LenProperties
<1>3. place \in Nat /\ place >= 1
  <2>1. \A i \in 1..n + 1 : pos[i] \in Nat /\ pos[i] >= i + tkl
    BY <1>1, TailedIs, PlacesRise
  <2>2. pos[n + 1] \in Nat /\ pos[n + 1] >= (n + 1) + tkl
    BY <1>2, <2>1
  <2>. QED BY <1>1, <1>2, <2>2
<1>4. place + Len(Tailed(body)) = m + 1 /\ Lies(p, place, Tailed(body))
  BY <1>1 DEF Laid
<1>5. PICK w, found, prev : /\ w = Walking(opts, pos, n)
                            /\ found = [i \in 1..n |-> Found(opts, pos, i)]
                            /\ prev = PriorTo(opts, n + 1)
  OBVIOUS
<1>6. /\ w = [at |-> place, prev |-> prev, opts |-> found, ended |-> FALSE, valid |-> FALSE,
              payload |-> <<>>]
      /\ w.at = place /\ w.prev = prev /\ w.opts = found /\ w.ended = FALSE
  BY <1>1, <1>5 DEF Walking
<1>7. Walked(opts, pos, body) = [at |-> place, prev |-> prev, opts |-> found, ended |-> TRUE,
                                 valid |-> TRUE, payload |-> body]
  BY <1>1, <1>5 DEF Walked
<1>8. ASSUME NEW v, NEW b
      PROVE  Ended(w, v, b) = [at |-> place, prev |-> prev, opts |-> found, ended |-> TRUE,
                               valid |-> v, payload |-> b]
  BY <1>6 DEF Ended
<1>9. CASE body = <<>>
  <2>1. Len(Tailed(body)) = 0
    BY <1>9, TailedIs
  <2>2. place > m
    BY <1>2, <1>3, <1>4, <2>1
  <2>3. WalkOn(p, w) = Ended(w, TRUE, <<>>)
    BY <1>1, <1>6, <2>2 DEF WalkOn
  <2>. QED BY <1>1, <1>5, <1>7, <1>8, <1>9, <2>3
<1>10. CASE body # <<>>
  <2>1. Len(Tailed(body)) = Len(body) + 1
    BY <1>10, TailedIs
  <2>2. p[place] = Marker /\ Lies(p, place + 1, body)
    BY <1>3, <1>4, <1>10, TailedIs
  <2>3. Len(body) > 0
    BY <1>2, <1>10, EmptySeq
  <2>4. place < m /\ ~(place > m) /\ (place + 1) + Len(body) - 1 = m
    BY <1>2, <1>3, <1>4, <2>1, <2>3
  <2>5. WalkOn(p, w) = Ended(w, TRUE, Rest(p, place + 1))
    <3>1. (place < Len(p)) = TRUE
      BY <1>1, <2>4
    <3>. QED BY <1>1, <1>6, <2>2, <2>4, <3>1 DEF WalkOn
  <2>6. Rest(p, place + 1) = body
    <3>1. place + 1 \in Nat \ {0} /\ (place + 1) + Len(body) - 1 <= Len(p)
      BY <1>1, <1>2, <1>3, <2>4
    <3>2. Cat(p, place + 1, (place + 1) + Len(body) - 1) = body
      BY <2>2, <3>1, CatLies
    <3>3. ~(m < (place + 1) - 1)
      BY <1>2, <1>3, <2>4
    <3>4. Cat(p, place + 1, m) = SubSeq(p, place + 1, m)
      BY <3>3 DEF Cat
    <3>. QED BY <1>1, <2>4, <3>2, <3>4 DEF Rest
  <2>. QED BY <1>1, <1>5, <1>7, <1>8, <2>5, <2>6
<1>. QED BY <1>9, <1>10

(* A message laid out like this is read as it was built.                   *)
LEMMA WalkIs ==
    ASSUME NEW p \in Seq(Byte), NEW tkl \in Nat, NEW opts \in Seq(Opt), Risen(opts),
           NEW pos, NEW body \in Seq(Byte), Laid(p, tkl, opts, pos, Tailed(body))
    PROVE  Walk(p, tkl) = Walked(opts, pos, body)
<1>1. PICK n, m, step : n = Len(opts) /\ m = Len(p) + 1 /\ step = walked(p, tkl)
  OBVIOUS
<1>2. n \in Nat /\ Len(p) \in Nat /\ m \in Nat
  BY <1>1, LenProperties
<1>3. step[0] = Started(tkl) /\ \A k \in 1..m : step[k] = WalkOn(p, step[k - 1])
  BY <1>1, <1>2, WalkedDef
<1>4. n + 1 <= m
  <2>1. n + 1 \in 1..n + 1
    BY <1>2
  <2>2. pos[n + 1] \in Nat /\ pos[n + 1] >= (n + 1) + tkl /\ pos[n + 1] <= m
    BY <1>1, <2>1, TailedIs, PlacesRise
  <2>. QED BY <1>2, <2>2
<1>5. Walking(opts, pos, 0) = Started(tkl)
  <2>1. pos[0 + 1] = tkl + 1
    BY DEF Laid
  <2>2. PriorTo(opts, 0 + 1) = 0
    BY DEF PriorTo
  <2>3. [i \in 1..0 |-> Found(opts, pos, i)] = <<>>
    OBVIOUS
  <2>. QED BY <2>1, <2>2, <2>3 DEF Walking, Started
<1> DEFINE Ok == {k \in Nat : k <= n => step[k] = Walking(opts, pos, k)}
           Over == {k \in Nat : n + 1 + k <= m => step[n + 1 + k] = Walked(opts, pos, body)}
<1>6. n \in Ok
  <2>1. 0 \in Ok
    BY <1>3, <1>5
  <2>2. ASSUME NEW k \in Ok \cap Nat
        PROVE  k + 1 \in Ok
    <3>. SUFFICES ASSUME k + 1 <= n
                  PROVE  step[k + 1] = Walking(opts, pos, k + 1)
      OBVIOUS
    <3>1. k <= n /\ k + 1 \in 1..n /\ k + 1 \in 1..m /\ (k + 1) - 1 = k
      BY <1>2, <1>4
    <3>2. step[k] = Walking(opts, pos, k)
      BY <3>1
    <3>3. step[k + 1] = WalkOn(p, step[k])
      BY <1>3, <3>1
    <3>4. WalkOn(p, Walking(opts, pos, (k + 1) - 1)) = Walking(opts, pos, k + 1)
      BY SMTT(30), <1>1, <3>1, TailedIs, WalkGoesOn
    <3>5. step[k + 1] = WalkOn(p, Walking(opts, pos, (k + 1) - 1))
      BY Zenon, <3>1, <3>2, <3>3
    <3>. QED BY Zenon, <3>4, <3>5
  <2>. HIDE DEF Ok
  <2>. QED BY <1>2, <2>1, <2>2, NumbersInduction
<1>7. m - n - 1 \in Over
  <2>1. 0 \in Over
    <3>1. n + 1 \in 1..m /\ (n + 1) - 1 = n /\ n + 1 + 0 = n + 1
      BY <1>2, <1>4
    <3>2. step[n] = Walking(opts, pos, n)
      BY <1>2, <1>6
    <3>3. step[n + 1] = WalkOn(p, step[n])
      BY <1>3, <3>1
    <3>4. WalkOn(p, Walking(opts, pos, n)) = Walked(opts, pos, body)
      BY <1>1, WalkEnds
    <3>. QED BY <3>1, <3>2, <3>3, <3>4
  <2>2. ASSUME NEW k \in Over \cap Nat
        PROVE  k + 1 \in Over
    <3>. SUFFICES ASSUME n + 1 + (k + 1) <= m
                  PROVE  step[n + 1 + (k + 1)] = Walked(opts, pos, body)
      OBVIOUS
    <3>1. PICK at \in Nat : at = n + 1 + k
      BY <1>2
    <3>2. at <= m /\ n + 1 + (k + 1) = at + 1 /\ at + 1 \in 1..m /\ (at + 1) - 1 = at
      BY <1>2, <3>1
    <3>3. step[at] = Walked(opts, pos, body)
      BY <3>1, <3>2
    <3>4. step[at + 1] = WalkOn(p, step[at])
      BY <1>3, <3>2
    <3>5. WalkOn(p, Walked(opts, pos, body)) = Walked(opts, pos, body)
      BY DEF WalkOn, Walked
    <3>. QED BY <3>2, <3>3, <3>4, <3>5
  <2>3. m - n - 1 \in Nat
    BY <1>2, <1>4
  <2>. HIDE DEF Over
  <2>. QED BY <2>1, <2>2, <2>3, NumbersInduction
<1>8. step[m] = Walked(opts, pos, body)
  <2>1. n + 1 + (m - n - 1) = m
    BY <1>2
  <2>. QED BY <1>2, <1>7, <2>1
<1>. QED BY <1>1, <1>8 DEF Walk

(* What is read of it.                                                     *)
LEMMA WhatIsRead ==
    ASSUME NEW p \in Seq(Byte), NEW tkl \in Nat, NEW opts \in Seq(Opt), Risen(opts),
           NEW pos, NEW body \in Seq(Byte), Laid(p, tkl, opts, pos, Tailed(body))
    PROVE  /\ Walk(p, tkl).valid /\ Walk(p, tkl).payload = body
           /\ Walk(p, tkl).opts = [i \in 1..Len(opts) |-> Found(opts, pos, i)]
           /\ OptionsOf(Walk(p, tkl)) = opts
<1>1. PICK n, w, found : /\ n = Len(opts) /\ w = Walk(p, tkl)
                         /\ found = [i \in 1..n |-> Found(opts, pos, i)]
  OBVIOUS
<1>2. w.valid /\ w.payload = body /\ w.opts = found
  BY <1>1, WalkIs DEF Walked
<1>3. PICK read : read = [i \in 1..n |-> [number |-> found[i].number, value |-> found[i].value]]
  OBVIOUS
<1>4. n \in Nat /\ opts = [i \in 1..n |-> opts[i]]
  BY <1>1, LenProperties
<1>5. ASSUME NEW i \in 1..n
      PROVE  [number |-> found[i].number, value |-> found[i].value] = opts[i]
  <2>1. found[i].number = opts[i].number /\ found[i].value = opts[i].value
    BY <1>1 DEF Found
  <2>2. opts[i] \in Opt
    BY <1>1, ElementOfSeq
  <2>. QED BY <2>1, <2>2 DEF Opt, Known
<1>6. read = opts
  BY <1>3, <1>4, <1>5
<1>7. DOMAIN found = 1..n
  BY <1>1
<1>8. OptionsOf(w) = read
  BY <1>2, <1>3, <1>7 DEF OptionsOf
<1>. QED BY <1>1, <1>2, <1>6, <1>8

(* What lies where in two sequences of anything, one behind the other.     *)
LEMMA JoinedOf ==
    ASSUME NEW S, NEW a \in Seq(S), NEW b \in Seq(S)
    PROVE  /\ a \o b \in Seq(S) /\ Len(a \o b) = Len(a) + Len(b)
           /\ Len(a) \in Nat /\ Len(b) \in Nat
           /\ \A i \in 1..Len(a) : (a \o b)[i] = a[i]
           /\ \A i \in 1..Len(b) : (a \o b)[Len(a) + i] = b[i]
<1>1. /\ a \o b \in Seq(S) /\ Len(a \o b) = Len(a) + Len(b)
      /\ \A i \in 1..Len(a) + Len(b) :
            (a \o b)[i] = IF i <= Len(a) THEN a[i] ELSE b[i - Len(a)]
  BY ConcatProperties
<1>2. Len(a) \in Nat /\ Len(b) \in Nat
  BY LenProperties
<1>3. PICK w, m, n : w = a \o b /\ m = Len(a) /\ n = Len(b)
  OBVIOUS
<1>4. m \in Nat /\ n \in Nat /\ \A i \in 1..m + n : w[i] = IF i <= m THEN a[i] ELSE b[i - m]
  BY <1>1, <1>2, <1>3
<1>5. \A i \in 1..m : i \in 1..m + n /\ i <= m
  BY <1>4
<1>6. \A i \in 1..m : w[i] = a[i]
  BY <1>4, <1>5
<1>7. \A i \in 1..n : m + i \in 1..m + n /\ ~(m + i <= m) /\ (m + i) - m = i
  BY <1>4
<1>8. \A i \in 1..n : w[m + i] = b[i]
  BY <1>4, <1>7
<1>. QED BY <1>1, <1>2, <1>3, <1>6, <1>8

(* What a part of a sequence is.                                           *)
LEMMA CutIs ==
    ASSUME NEW S, NEW s \in Seq(S), NEW from \in Nat \ {0}, NEW to \in Nat,
           from <= to + 1, to <= Len(s)
    PROVE  /\ SubSeq(s, from, to) \in Seq(S) /\ Len(SubSeq(s, from, to)) = to + 1 - from
           /\ \A i \in 1..to + 1 - from : SubSeq(s, from, to)[i] = s[from + i - 1]
<1>1. PICK m \in Nat : m = Len(s) /\ s \in [1..m -> S]
  BY LenProperties
<1>2. \A i \in from..to : i \in 1..m
  BY <1>1
<1>3. \A i \in from..to : s[i] \in S
  BY <1>1, <1>2
<1>4. from \in Int /\ to \in Int
  OBVIOUS
<1>5. PICK w : w = SubSeq(s, from, to)
  OBVIOUS
<1>6. /\ w \in Seq(S) /\ Len(w) = IF from <= to THEN to - from + 1 ELSE 0
      /\ \A i \in 1..to - from + 1 : w[i] = s[from + i - 1]
  BY <1>3, <1>4, <1>5, SubSeqProperties
<1>7. to - from + 1 = to + 1 - from /\ (~(from <= to) => to + 1 - from = 0)
  OBVIOUS
<1>8. Len(w) = to + 1 - from /\ \A i \in 1..to + 1 - from : w[i] = s[from + i - 1]
  BY <1>6, <1>7
<1>. QED BY <1>5, <1>6, <1>8

(* w is s with e at k.                                                     *)
IsWith(w, S, s, k, e) ==
    /\ w \in Seq(S) /\ Len(w) = Len(s) + 1
    /\ \A i \in 1..k - 1 : w[i] = s[i]
    /\ w[k] = e
    /\ \A i \in k..Len(s) : w[i + 1] = s[i]

(* InsertAt puts the element where it says.                                *)
LEMMA InsertedIs ==
    ASSUME NEW S, NEW s \in Seq(S), NEW k \in 1..Len(s) + 1, NEW e \in S
    PROVE  IsWith(InsertAt(s, k, e), S, s, k, e)
<1>1. PICK n \in Nat : n = Len(s)
  BY LenProperties
<1>2. PICK a, b, c, d : a = SubSeq(s, 1, k - 1) /\ b = <<e>> /\ c = SubSeq(s, k, n) /\ d = a \o b
  OBVIOUS
<1>3. k \in Nat \ {0} /\ k - 1 \in Nat /\ 1 <= (k - 1) + 1 /\ k - 1 <= n /\ k <= n + 1 /\ n <= n
      /\ 1 \in Nat \ {0}
  BY <1>1
<1>4. /\ a \in Seq(S) /\ Len(a) = (k - 1) + 1 - 1
      /\ \A i \in 1..(k - 1) + 1 - 1 : a[i] = s[1 + i - 1]
  BY <1>1, <1>2, <1>3, CutIs
<1>5. c \in Seq(S) /\ Len(c) = n + 1 - k /\ \A i \in 1..n + 1 - k : c[i] = s[k + i - 1]
  BY <1>1, <1>2, <1>3, CutIs
<1>6. b \in Seq(S) /\ Len(b) = 1 /\ b[1] = e
  BY <1>2
<1>7. Len(a) = k - 1 /\ \A i \in 1..k - 1 : a[i] = s[i]
  <2>1. (k - 1) + 1 - 1 = k - 1 /\ \A i \in 1..k - 1 : 1 + i - 1 = i
    BY <1>3
  <2>. QED BY <1>4, <2>1
<1>8. /\ d \in Seq(S) /\ Len(d) = k /\ \A i \in 1..k - 1 : d[i] = s[i]
      /\ d[k] = e
  <2>1. /\ d \in Seq(S) /\ Len(d) = Len(a) + Len(b)
        /\ \A i \in 1..Len(a) : d[i] = a[i]
        /\ \A i \in 1..Len(b) : d[Len(a) + i] = b[i]
    <3>1. a \in Seq(S) /\ b \in Seq(S)
      BY <1>4, <1>6
    <3>. QED BY <1>2, <3>1, JoinedOf
  <2>2. (k - 1) + 1 = k /\ 1 \in 1..1
    BY <1>3
  <2>3. d[(k - 1) + 1] = b[1]
    BY <1>6, <1>7, <2>1, <2>2
  <2>. QED BY <1>6, <1>7, <2>1, <2>2, <2>3
<1>9. PICK w : w = InsertAt(s, k, e)
  OBVIOUS
<1>10. w = d \o c
  BY <1>1, <1>2, <1>9 DEF InsertAt
<1>11. /\ w \in Seq(S) /\ Len(w) = Len(d) + Len(c)
       /\ \A i \in 1..Len(d) : w[i] = d[i]
       /\ \A i \in 1..Len(c) : w[Len(d) + i] = c[i]
  <2>1. d \in Seq(S) /\ c \in Seq(S)
    BY <1>5, <1>8
  <2>. QED BY <1>10, <2>1, JoinedOf
<1>12. Len(w) = n + 1
  <2>1. k + (n + 1 - k) = n + 1
    BY <1>3
  <2>. QED BY <1>5, <1>8, <1>11, <2>1
<1>13. w[k] = e /\ \A i \in 1..k - 1 : w[i] = s[i]
  <2>1. k \in 1..k /\ \A i \in 1..k - 1 : i \in 1..k
    BY <1>3
  <2>2. \A i \in 1..k : w[i] = d[i]
    BY <1>8, <1>11
  <2>. QED BY <1>8, <2>1, <2>2
<1>14. ASSUME NEW i \in k..n
       PROVE  w[i + 1] = s[i]
  <2>1. PICK j \in 1..n + 1 - k : k + j = i + 1 /\ k + j - 1 = i
    <3>1. i + 1 - k \in 1..n + 1 - k /\ k + (i + 1 - k) = i + 1 /\ k + (i + 1 - k) - 1 = i
      BY <1>1, <1>3
    <3>. QED BY <3>1
  <2>2. w[k + j] = c[j]
    BY <1>5, <1>8, <1>11
  <2>3. c[j] = s[k + j - 1]
    BY <1>5
  <2>. QED BY <2>1, <2>2, <2>3
<1>15. IsWith(w, S, s, k, e)
  BY <1>1, <1>11, <1>12, <1>13, <1>14 DEF IsWith
<1>. QED BY <1>9, <1>15

(* The place of a new option.                                              *)
IsPlace(opts, o, k) ==
    /\ \A j \in 1..k - 1 : opts[j].number <= o.number
    /\ \A j \in k..Len(opts) : opts[j].number > o.number

(* There is a place for every option: the CHOOSE of Place has something to *)
(* choose.                                                                 *)
LEMMA PlaceIs ==
    ASSUME NEW opts \in Seq(Opt), Risen(opts), NEW o \in Opt
    PROVE  Place(opts, o) \in 1..Len(opts) + 1 /\ IsPlace(opts, o, Place(opts, o))
<1>1. PICK n \in Nat : n = Len(opts)
  BY LenProperties
<1>2. PICK c : c = o.number
  OBVIOUS
<1>3. c \in Int /\ \A i \in 1..n : opts[i].number \in Int
  <2>1. o.number \in Differences
    BY DEF Opt, Known
  <2>2. ASSUME NEW i \in 1..n
        PROVE  opts[i].number \in Differences
    <3>1. opts[i] \in Opt
      BY <1>1, ElementOfSeq
    <3>. QED BY <3>1 DEF Opt, Known
  <2>. QED BY <1>2, <2>1, <2>2, Small
<1> DEFINE Higher == {i \in 1..n + 1 : i = n + 1 \/ opts[i].number > c}
<1>4. PICK k \in Higher : \A i \in Higher : k <= i
  <2>1. Higher \in SUBSET Nat /\ Higher # {}
    BY <1>1, n + 1 \in Higher
  <2>. HIDE DEF Higher
  <2>. QED BY <2>1, LeastNumber
<1>5. k \in 1..n + 1
  OBVIOUS
<1>6. ASSUME NEW j \in 1..k - 1
      PROVE  opts[j].number <= c
  <2>1. j \in 1..n /\ j # n + 1 /\ j \in 1..n + 1 /\ ~(k <= j)
    BY <1>5
  <2>2. ~(opts[j].number > c)
    BY <1>4, <2>1
  <2>. QED BY <1>3, <2>1, <2>2
<1>7. ASSUME NEW j \in k..n
      PROVE  opts[j].number > c
  <2>1. k \in 1..n /\ j \in 1..n /\ k # n + 1 /\ k <= j
    BY <1>5
  <2>2. opts[k].number > c
    BY <2>1
  <2>3. opts[k].number <= opts[j].number
    BY <1>1, <2>1 DEF Risen
  <2>4. opts[k].number \in Int /\ opts[j].number \in Int
    BY <1>3, <2>1
  <2>. QED BY <1>3, <2>2, <2>3, <2>4
<1>8. IsPlace(opts, o, k)
  BY <1>1, <1>2, <1>6, <1>7 DEF IsPlace
<1>9. Place(opts, o) = CHOOSE i \in 1..n + 1 : IsPlace(opts, o, i)
  BY <1>1 DEF Place, IsPlace
<1>. HIDE DEF Higher
<1>. QED BY <1>1, <1>5, <1>8, <1>9

(* findInsertionPosition finds it; behind a payload there is none.         *)
LEMMA FindIs ==
    ASSUME NEW p \in Seq(Byte), NEW tkl \in Nat, NEW opts \in Seq(Opt), Risen(opts),
           NEW pos, NEW body \in Seq(Byte), Laid(p, tkl, opts, pos, Tailed(body)),
           NEW o \in Opt, NEW k \in 1..Len(opts) + 1, IsPlace(opts, o, k),
           body = <<>> \/ k <= Len(opts)
    PROVE  /\ findInsertionPosition(p, tkl, PriorTo(opts, Len(opts) + 1), o.number)
                 = [at |-> pos[k], prev |-> PriorTo(opts, k)]
           /\ pos[k] > Len(p) <=> k = Len(opts) + 1
<1>1. PICK n, m, c, max : /\ n = Len(opts) /\ m = Len(p) /\ c = o.number
                          /\ max = PriorTo(opts, n + 1)
  OBVIOUS
<1>2. n \in Nat /\ m \in Nat /\ k \in 1..n + 1
  BY <1>1, LenProperties
<1>3. /\ \A j \in 1..k - 1 : opts[j].number <= c
      /\ \A j \in k..n : opts[j].number > c
  BY <1>1 DEF IsPlace
<1>4. c \in Int /\ c >= 0 /\ \A i \in 1..n : opts[i].number \in Int
  <2>1. o.number \in Differences
    BY DEF Opt, Known
  <2>2. \A i \in 1..n : opts[i].number \in Differences
    BY <1>1, DeltaIs
  <2>. QED BY <1>1, <2>1, <2>2, Small
<1>5. /\ \A i \in 1..n + 1 : pos[i] \in Nat /\ pos[i] >= i + tkl /\ pos[i] <= m + 1
      /\ \A i, j \in 1..n + 1 : i < j => pos[i] < pos[j]
  BY <1>1, TailedIs, PlacesRise
<1>6. pos[n + 1] + Len(Tailed(body)) = m + 1
  BY <1>1 DEF Laid
<1>7. body = <<>> => pos[n + 1] = m + 1
  <2>. SUFFICES ASSUME body = <<>>
                PROVE  pos[n + 1] = m + 1
    OBVIOUS
  <2>1. Len(Tailed(body)) = 0
    BY TailedIs
  <2>2. n + 1 \in 1..n + 1
    BY <1>2
  <2>3. pos[n + 1] \in Nat
    BY <1>5, <2>2
  <2>. QED BY <1>2, <1>6, <2>1, <2>3
<1>8. k <= n => pos[k] < m + 1
  <2>. SUFFICES ASSUME k <= n
                PROVE  pos[k] < m + 1
    OBVIOUS
  <2>1. k \in 1..n + 1 /\ n + 1 \in 1..n + 1 /\ k < n + 1
    BY <1>2
  <2>2. pos[k] < pos[n + 1] /\ pos[n + 1] <= m + 1 /\ pos[k] \in Nat /\ pos[n + 1] \in Nat
    BY <1>5, <2>1
  <2>. QED BY <1>2, <2>2
<1>9. pos[k] > m <=> k = n + 1
  <2>1. pos[k] \in Nat
    BY <1>2, <1>5
  <2>2. CASE k <= n
    BY <1>2, <1>8, <2>1, <2>2
  <2>3. CASE k = n + 1
    BY <1>1, <1>2, <1>7, <2>1, <2>3
  <2>. QED BY <1>2, <2>2, <2>3
<1>10. n >= 1 => max = opts[n].number /\ n \in 1..n
  <2>1. n >= 1 => n + 1 # 1 /\ (n + 1) - 1 = n /\ n \in 1..n
    BY <1>2
  <2>. QED BY <1>1, <2>1 DEF PriorTo
<1>11. n = 0 => max = 0
  BY <1>1 DEF PriorTo
<1>12. CASE c >= max \/ m = tkl
  <2>1. ASSUME k <= n
        PROVE  FALSE
    <3>1. n >= 1 /\ k \in 1..n /\ n \in k..n /\ k <= n
      BY <1>2, <2>1
    <3>2. max > c
      BY <1>3, <1>10, <3>1
    <3>3. m = tkl
      BY <1>4, <1>10, <1>12, <3>1, <3>2
    <3>4. n + 1 \in 1..n + 1
      BY <1>2
    <3>5. pos[n + 1] >= (n + 1) + tkl /\ pos[n + 1] <= m + 1 /\ pos[n + 1] \in Nat
      BY <1>5, <3>4
    <3>. QED BY <1>2, <3>1, <3>3, <3>5
  <2>2. k = n + 1 /\ body = <<>>
    BY <1>1, <1>2, <2>1
  <2>3. findInsertionPosition(p, tkl, max, c) = [at |-> m + 1, prev |-> max]
    BY <1>1, <1>12 DEF findInsertionPosition
  <2>. QED BY <1>1, <1>7, <1>9, <2>2, <2>3
<1>13. CASE ~(c >= max \/ m = tkl)
  <2>1. n >= 1 /\ n \in 1..n /\ max > c /\ max = opts[n].number
    BY <1>2, <1>4, <1>10, <1>11, <1>13
  <2>2. k <= n /\ k \in 1..n
    <3>1. ASSUME k = n + 1
          PROVE  FALSE
      <4>1. n \in 1..k - 1
        BY <1>2, <2>1, <3>1
      <4>2. opts[n].number <= c /\ opts[n].number \in Int
        BY <1>3, <1>4, <2>1, <4>1
      <4>. QED BY <1>4, <2>1, <4>2
    <3>. QED BY <1>2, <3>1
  <2>3. PICK w, found, higher : /\ w = Walk(p, tkl) /\ found = [i \in 1..n |-> Found(opts, pos, i)]
                                /\ higher = {i \in DOMAIN w.opts : w.opts[i].number > c}
    OBVIOUS
  <2>4. w.opts = found
    <3>1. w = Walked(opts, pos, body)
      BY <2>3, WalkIs
    <3>. QED BY <1>1, <2>3, <3>1 DEF Walked
  <2>5. higher = k..n
    <3>1. DOMAIN found = 1..n /\ \A i \in 1..n : found[i].number = opts[i].number
      BY <2>3 DEF Found
    <3>2. \A i \in 1..n : opts[i].number > c <=> i \in k..n
      <4>1. ASSUME NEW i \in 1..n, i \notin k..n
            PROVE  ~(opts[i].number > c)
        <5>1. i \in 1..k - 1
          BY <1>2, <4>1
        <5>2. opts[i].number <= c /\ opts[i].number \in Int
          BY <1>3, <1>4, <5>1
        <5>. QED BY <1>4, <5>2
      <4>. QED BY <1>3, <4>1
    <3>3. k..n \subseteq 1..n
      BY <1>2
    <3>. QED BY <2>3, <2>4, <3>1, <3>2, <3>3
  <2>6. (CHOOSE i \in higher : \A j \in higher : i <= j) = k
    <3>1. k \in higher /\ \A j \in higher : k <= j
      BY <1>2, <2>2, <2>5
    <3>2. \A i \in higher : i \in Int
      BY <1>2, <2>5
    <3>3. \A i \in higher : (\A j \in higher : i <= j) => i = k
      BY <3>1, <3>2
    <3>. QED BY <3>1, <3>3
  <2>7. higher # {}
    BY <2>2, <2>5
  <2>8. found[k].at = pos[k] /\ found[k].prev = PriorTo(opts, k)
    BY <2>2, <2>3 DEF Found
  <2>9. FirstOf(w, higher) = [at |-> found[k].at, prev |-> found[k].prev]
    BY <2>4, <2>6, <2>7, Zenon DEF FirstOf
  <2>10. findInsertionPosition(p, tkl, max, c) = FirstOf(w, higher)
    BY <1>1, <1>13, <2>3 DEF findInsertionPosition, InsertBehind
  <2>. QED BY <1>1, <1>9, <2>8, <2>9, <2>10
<1>. QED BY <1>12, <1>13

(* Bytes that move keep lying one behind the other.                        *)
LEMMA LiesMoved ==
    ASSUME NEW p, NEW q, NEW at \in Int, NEW by \in Int, NEW s \in Seq(Byte), Lies(p, at, s),
           \A j \in at..at + Len(s) - 1 : q[j + by] = p[j]
    PROVE  Lies(q, at + by, s)
<1>1. PICK n \in Nat : n = Len(s)
  BY LenProperties
<1>2. ASSUME NEW i \in 1..n
      PROVE  q[(at + by) + i - 1] = s[i]
  <2>1. PICK j \in at..at + n - 1 : j = at + i - 1 /\ (at + by) + i - 1 = j + by
    <3>1. at + i - 1 \in at..at + n - 1 /\ (at + by) + i - 1 = (at + i - 1) + by
      BY <1>2
    <3>. QED BY <3>1
  <2>2. q[j + by] = p[j]
    BY <1>1
  <2>3. p[j] = s[i]
    BY <1>1, <2>1 DEF Lies
  <2>. QED BY <2>1, <2>2, <2>3
<1>. QED BY <1>1, <1>2 DEF Lies

(* An option that moves is still an option.                                *)
LEMMA OptionMoved ==
    ASSUME NEW p, NEW q, NEW at \in Nat, NEW by \in Int, at + by \in Nat,
           NEW d \in Differences, NEW v \in Values, OptionLies(p, at, d, v),
           \A j \in at..at + Size(d, v) - 1 : q[j + by] = p[j]
    PROVE  OptionLies(q, at + by, d, v)
<1>1. PICK s : s = insertOption(d, v)
  OBVIOUS
<1>2. s \in Seq(Byte) /\ Len(s) = Size(d, v) /\ Lies(p, at, s)
  BY <1>1, OptionIs
<1>3. at \in Int
  OBVIOUS
<1>4. Lies(q, at + by, s)
  BY <1>2, <1>3, LiesMoved
<1>. QED BY <1>1, <1>4, OptionIs

(* The options with one more.                                              *)
LEMMA InsertRisen ==
    ASSUME NEW opts \in Seq(Opt), Risen(opts), NEW o \in Opt, NEW k \in 1..Len(opts) + 1,
           IsPlace(opts, o, k), NEW w, w = InsertAt(opts, k, o)
    PROVE  /\ w \in Seq(Opt) /\ Len(w) = Len(opts) + 1 /\ Risen(w)
           /\ \A i \in 1..k - 1 : w[i] = opts[i] /\ Delta(w, i) = Delta(opts, i)
           /\ w[k] = o /\ Delta(w, k) = o.number - PriorTo(opts, k)
           /\ k <= Len(opts) => w[k + 1] = opts[k] /\ Delta(w, k + 1) = opts[k].number - o.number
           /\ \A i \in k + 1..Len(opts) : w[i + 1] = opts[i] /\ Delta(w, i + 1) = Delta(opts, i)
           /\ PriorTo(w, Len(opts) + 2)
                 = IF k = Len(opts) + 1 THEN o.number ELSE PriorTo(opts, Len(opts) + 1)
<1>1. PICK n : n = Len(opts)
  OBVIOUS
<1>2. n \in Nat /\ k \in 1..n + 1
  BY <1>1, LenProperties
<1>3. /\ w \in Seq(Opt) /\ Len(w) = n + 1
      /\ \A i \in 1..k - 1 : w[i] = opts[i]
      /\ w[k] = o
      /\ \A i \in k..n : w[i + 1] = opts[i]
  <2>1. IsWith(InsertAt(opts, k, o), Opt, opts, k, o)
    BY InsertedIs
  <2>. QED BY <1>1, <2>1 DEF IsWith
<1>4. /\ \A j \in 1..k - 1 : opts[j].number <= o.number
      /\ \A j \in k..n : opts[j].number > o.number
  BY <1>1 DEF IsPlace
<1>5. o.number \in Int /\ \A i \in 1..n : opts[i].number \in Int
  <2>1. o.number \in Differences
    BY DEF Opt, Known
  <2>2. \A i \in 1..n : opts[i].number \in Differences
    BY <1>1, DeltaIs
  <2>. QED BY <2>1, <2>2, Small
<1>6. \A i, j \in 1..n : i <= j => opts[i].number <= opts[j].number
  BY <1>1 DEF Risen
<1>7. ASSUME NEW i \in 1..n + 1, NEW j \in 1..n + 1, i <= j
      PROVE  w[i].number <= w[j].number
  <2>1. CASE j < k
    <3>1. i \in 1..k - 1 /\ j \in 1..k - 1 /\ i \in 1..n /\ j \in 1..n
      BY <1>2, <1>7, <2>1
    <3>. QED BY <1>3, <1>6, <1>7, <3>1
  <2>2. CASE j = k /\ i < k
    <3>1. i \in 1..k - 1
      BY <1>2, <2>2
    <3>. QED BY <1>3, <1>4, <2>2, <3>1
  <2>3. CASE j = k /\ i = k
    BY <1>3, <1>5, <2>3
  <2>4. CASE j > k /\ i > k
    <3>1. i - 1 \in k..n /\ (i - 1) + 1 = i /\ i - 1 \in 1..n
      BY <1>2, <1>7, <2>4
    <3>2. j - 1 \in k..n /\ (j - 1) + 1 = j /\ j - 1 \in 1..n /\ i - 1 <= j - 1
      BY <1>2, <1>7, <2>4
    <3>3. w[i] = opts[i - 1] /\ w[j] = opts[j - 1]
      BY <1>3, <3>1, <3>2
    <3>. QED BY <1>6, <3>1, <3>2, <3>3
  <2>5. CASE j > k /\ i <= k
    <3>1. j - 1 \in k..n /\ (j - 1) + 1 = j /\ j - 1 \in 1..n
      BY <1>2, <1>7, <2>5
    <3>2. w[j] = opts[j - 1] /\ opts[j - 1].number > o.number /\ opts[j - 1].number \in Int
      BY <1>3, <1>4, <1>5, <3>1
    <3>3. w[i].number <= o.number /\ w[i].number \in Int
      <4>1. CASE i = k
        BY <1>3, <1>5, <4>1
      <4>2. CASE i < k
        <5>1. i \in 1..k - 1 /\ i \in 1..n
          BY <1>2, <4>2
        <5>. QED BY <1>3, <1>4, <1>5, <5>1
      <4>. QED BY <1>2, <2>5, <4>1, <4>2
    <3>. QED BY <1>5, <3>2, <3>3
  <2>. QED BY <1>2, <1>7, <2>1, <2>2, <2>3, <2>4, <2>5
<1>8. Risen(w)
  BY <1>3, <1>7 DEF Risen
<1>9. \A i \in 1..k : PriorTo(w, i) = PriorTo(opts, i)
  <2>1. \A i \in 1..k : i # 1 => i - 1 \in 1..k - 1
    BY <1>2
  <2>. QED BY <1>3, <2>1 DEF PriorTo
<1>10. PriorTo(w, k + 1) = o.number
  <2>1. k + 1 # 1 /\ (k + 1) - 1 = k
    BY <1>2
  <2>. QED BY <1>3, <2>1 DEF PriorTo
<1>11. \A i \in k..n : PriorTo(w, i + 2) = PriorTo(opts, i + 1)
  <2>1. \A i \in k..n : i + 2 # 1 /\ i + 1 # 1 /\ (i + 2) - 1 = i + 1 /\ (i + 1) - 1 = i
    BY <1>2
  <2>. QED BY <1>3, <2>1 DEF PriorTo
<1>12. \A i \in 1..k - 1 : w[i] = opts[i] /\ Delta(w, i) = Delta(opts, i)
  <2>1. \A i \in 1..k - 1 : i \in 1..k
    BY <1>2
  <2>. QED BY <1>3, <1>9, <2>1 DEF Delta
<1>13. w[k] = o /\ Delta(w, k) = o.number - PriorTo(opts, k)
  <2>1. k \in 1..k
    BY <1>2
  <2>. QED BY <1>3, <1>9, <2>1 DEF Delta
<1>14. k <= n => w[k + 1] = opts[k] /\ Delta(w, k + 1) = opts[k].number - o.number
  <2>1. k <= n => k \in k..n
    BY <1>2
  <2>. QED BY <1>3, <1>10, <2>1 DEF Delta
<1>15. \A i \in k + 1..n : w[i + 1] = opts[i] /\ Delta(w, i + 1) = Delta(opts, i)
  <2>1. \A i \in k + 1..n : i \in k..n /\ i - 1 \in k..n /\ (i - 1) + 2 = i + 1 /\ (i - 1) + 1 = i
    BY <1>2
  <2>2. ASSUME NEW i \in k + 1..n
        PROVE  PriorTo(w, i + 1) = PriorTo(opts, i)
    <3>1. PriorTo(w, (i - 1) + 2) = PriorTo(opts, (i - 1) + 1)
      BY <1>11, <2>1
    <3>. QED BY <2>1, <3>1
  <2>. QED BY <1>3, <2>1, <2>2 DEF Delta
<1>16. PriorTo(w, n + 2) = IF k = n + 1 THEN o.number ELSE PriorTo(opts, n + 1)
  <2>1. CASE k = n + 1
    <3>1. k + 1 = n + 2
      BY <1>2, <2>1
    <3>. QED BY <1>10, <2>1, <3>1
  <2>2. CASE k # n + 1
    <3>1. n \in k..n
      BY <1>2, <2>2
    <3>. QED BY <1>11, <2>2, <3>1
  <2>. QED BY <2>1, <2>2
<1>. QED BY <1>1, <1>3, <1>8, <1>12, <1>13, <1>14, <1>15, <1>16

(* An option put between the options, or behind them: the bytes before it  *)
(* stay, the one that follows counts from it, the others move.             *)
Parted(p, q, opts, pos, k, o, size, by) ==
    /\ size = Size(o.number - PriorTo(opts, k), o.value)
    /\ IF k = Len(opts) + 1
       THEN by = size /\ \A j \in pos[k]..Len(p) : q[j + by] = p[j]
       ELSE /\ pos[k + 1] + by
                 = pos[k] + size + Size(opts[k].number - o.number, opts[k].value)
            /\ OptionLies(q, pos[k] + size, opts[k].number - o.number, opts[k].value)
            /\ \A j \in pos[k + 1]..Len(p) : q[j + by] = p[j]
    /\ Len(q) = Len(p) + by
    /\ \A j \in 1..pos[k] - 1 : q[j] = p[j]
    /\ OptionLies(q, pos[k], o.number - PriorTo(opts, k), o.value)
Placed(pos, k, size, by, n) ==
    [i \in 1..n + 2 |-> IF i <= k THEN pos[i]
                        ELSE IF i = k + 1 THEN pos[k] + size ELSE pos[i - 1] + by]

(* A message with an option more, whose bytes are parted for it, is laid   *)
(* out like the list with the option more.                                 *)
LEMMA InsertLaid ==
    ASSUME NEW p \in Seq(Byte), NEW q \in Seq(Byte), NEW tkl \in Nat,
           NEW opts \in Seq(Opt), Risen(opts),
           NEW pos, NEW tail \in Seq(Byte), Laid(p, tkl, opts, pos, tail),
           NEW o \in Opt, NEW k \in 1..Len(opts) + 1, IsPlace(opts, o, k),
           NEW size, NEW by \in Int, Parted(p, q, opts, pos, k, o, size, by)
    PROVE  Laid(q, tkl, InsertAt(opts, k, o), Placed(pos, k, size, by, Len(opts)), tail)
<1>1. PICK n, m, w, new : /\ n = Len(opts) /\ m = Len(p) /\ w = InsertAt(opts, k, o)
                          /\ new = Placed(pos, k, size, by, n)
  OBVIOUS
<1>2. n \in Nat /\ m \in Nat /\ k \in 1..n + 1
  BY <1>1, LenProperties
<1>3. /\ w \in Seq(Opt) /\ Len(w) = n + 1 /\ Risen(w)
      /\ \A i \in 1..k - 1 : w[i] = opts[i] /\ Delta(w, i) = Delta(opts, i)
      /\ w[k] = o /\ Delta(w, k) = o.number - PriorTo(opts, k)
      /\ k <= n => w[k + 1] = opts[k] /\ Delta(w, k + 1) = opts[k].number - o.number
      /\ \A i \in k + 1..n : w[i + 1] = opts[i] /\ Delta(w, i + 1) = Delta(opts, i)
  BY SMTT(30), <1>1, InsertRisen
<1>4. /\ \A i \in 1..n + 1 : pos[i] \in Nat /\ pos[i] >= i + tkl /\ pos[i] <= m + 1
      /\ \A i, j \in 1..n + 1 : i < j => pos[i] < pos[j]
  BY <1>1, PlacesRise
<1>24. \A i, j \in 1..n + 1 : i <= j => pos[i] <= pos[j]
  <2>. SUFFICES ASSUME NEW i \in 1..n + 1, NEW j \in 1..n + 1, i <= j
                PROVE  pos[i] <= pos[j]
    OBVIOUS
  <2>1. i = j \/ i < j
    OBVIOUS
  <2>2. pos[i] \in Nat /\ pos[j] \in Nat
    BY <1>4
  <2>. QED BY <1>4, <2>1, <2>2
<1>5. \A i \in 1..n + 1 : Delta(w, i) \in Differences /\ w[i].value \in Values
  BY <1>3, DeltaIs
<1>6. \A i \in 1..n + 1 : Size(Delta(w, i), w[i].value) \in Nat \ {0}
  BY <1>5, OptionIs
<1>7. /\ pos[1] = tkl + 1
      /\ \A i \in 1..n : /\ OptionLies(p, pos[i], Delta(opts, i), opts[i].value)
                         /\ pos[i + 1] = pos[i] + Size(Delta(opts, i), opts[i].value)
      /\ pos[n + 1] + Len(tail) = m + 1
      /\ Lies(p, pos[n + 1], tail)
  BY <1>1 DEF Laid
<1>8. /\ size = Size(Delta(w, k), w[k].value)
      /\ k = n + 1 => by = size /\ \A j \in pos[k]..m : q[j + by] = p[j]
      /\ k <= n => /\ pos[k + 1] + by = pos[k] + size + Size(Delta(w, k + 1), w[k + 1].value)
                   /\ OptionLies(q, pos[k] + size, Delta(w, k + 1), w[k + 1].value)
                   /\ \A j \in pos[k + 1]..m : q[j + by] = p[j]
      /\ Len(q) = m + by
      /\ \A j \in 1..pos[k] - 1 : q[j] = p[j]
      /\ OptionLies(q, pos[k], Delta(w, k), w[k].value)
  <2>1. k <= n => k # n + 1
    BY <1>2
  <2>. QED BY <1>1, <1>3, <2>1 DEF Parted
<1>9. /\ \A i \in 1..k : new[i] = pos[i]
      /\ new[k + 1] = pos[k] + size
      /\ \A i \in k + 1..n + 1 : new[i + 1] = pos[i] + by
  <2>1. \A i \in 1..k : i \in 1..n + 2 /\ i <= k
    BY <1>2
  <2>2. k + 1 \in 1..n + 2 /\ ~(k + 1 <= k)
    BY <1>2
  <2>3. \A i \in k + 1..n + 1 :
            i + 1 \in 1..n + 2 /\ ~(i + 1 <= k) /\ i + 1 # k + 1 /\ (i + 1) - 1 = i
    BY <1>2
  <2>4. new = [i \in 1..n + 2 |-> IF i <= k THEN pos[i] ELSE IF i = k + 1 THEN pos[k] + size
                                  ELSE pos[i - 1] + by]
    BY <1>1 DEF Placed
  <2>. QED BY <2>1, <2>2, <2>3, <2>4
<1>10. size \in Nat \ {0} /\ pos[k] \in Nat
  <2>1. k \in 1..n + 1
    BY <1>2
  <2>. QED BY <1>4, <1>6, <1>8, <2>1
<1>11. k <= n => /\ new[k + 2] = new[k + 1] + Size(Delta(w, k + 1), w[k + 1].value)
                 /\ new[k + 2] = pos[k + 1] + by
  <2>1. k <= n => k + 1 \in k + 1..n + 1 /\ (k + 1) + 1 = k + 2
    BY <1>2
  <2>2. k <= n => new[k + 2] = pos[k + 1] + by
    BY <1>9, <2>1
  <2>. QED BY <1>8, <1>9, <2>2
<1>12. \A i \in k + 1..n + 1 : pos[i] + by \in Nat
  <2>. SUFFICES ASSUME NEW i \in k + 1..n + 1
                PROVE  pos[i] + by \in Nat
    OBVIOUS
  <2>1. k <= n /\ k + 1 \in 1..n + 1 /\ i \in 1..n + 1 /\ (i = k + 1 \/ k + 1 < i)
    BY <1>2
  <2>2. pos[k + 1] \in Nat /\ pos[i] \in Nat /\ pos[k + 1] <= pos[i]
    BY <1>4, <2>1
  <2>3. Size(Delta(w, k + 1), w[k + 1].value) \in Nat
    BY <1>6, <2>1
  <2>4. PICK s \in Nat : pos[k + 1] + by = pos[k] + size + s
    BY <1>8, <2>1, <2>3
  <2>5. pos[k + 1] + by \in Nat
    BY <1>10, <2>4
  <2>. QED BY <2>2, <2>5
<1>13. new \in [1..n + 2 -> Nat] /\ new[1] = tkl + 1
  <2>1. ASSUME NEW i \in 1..n + 2
        PROVE  new[i] \in Nat
    <3>1. CASE i <= k
      <4>1. i \in 1..k /\ i \in 1..n + 1
        BY <1>2, <3>1
      <4>. QED BY <1>4, <1>9, <4>1
    <3>2. CASE i = k + 1
      BY <1>9, <1>10, <3>2
    <3>3. CASE i > k + 1
      <4>1. i - 1 \in k + 1..n + 1 /\ (i - 1) + 1 = i
        BY <1>2, <3>3
      <4>. QED BY <1>9, <1>12, <4>1
    <3>. QED BY <1>2, <3>1, <3>2, <3>3
  <2>2. new = [i \in 1..n + 2 |-> new[i]]
    BY <1>1 DEF Placed
  <2>3. 1 \in 1..k
    BY <1>2
  <2>. QED BY <1>7, <1>9, <2>1, <2>2, <2>3
<1>14. \A i \in 1..k - 1 : /\ OptionLies(q, new[i], Delta(w, i), w[i].value)
                           /\ new[i + 1] = new[i] + Size(Delta(w, i), w[i].value)
  <2>. SUFFICES ASSUME NEW i \in 1..k - 1
                PROVE  /\ OptionLies(q, new[i], Delta(w, i), w[i].value)
                       /\ new[i + 1] = new[i] + Size(Delta(w, i), w[i].value)
    OBVIOUS
  <2>1. i \in 1..n /\ i \in 1..k /\ i + 1 \in 1..k /\ i \in 1..n + 1 /\ i + 1 \in 1..n + 1
        /\ (i + 1 = k \/ i + 1 < k) /\ i < k
    BY <1>2
  <2>2. new[i] = pos[i] /\ new[i + 1] = pos[i + 1] /\ Delta(w, i) = Delta(opts, i) /\ w[i] = opts[i]
    BY <1>3, <1>9, <2>1
  <2>3. PICK d, v, s : d = Delta(w, i) /\ v = w[i].value /\ s = Size(d, v)
    OBVIOUS
  <2>4. d \in Differences /\ v \in Values /\ s \in Nat \ {0}
    BY <1>5, <1>6, <2>1, <2>3
  <2>5. OptionLies(p, pos[i], d, v) /\ pos[i + 1] = pos[i] + s
    BY <1>7, <2>1, <2>2, <2>3
  <2>6. pos[i] \in Nat /\ pos[i] >= 1 /\ pos[i + 1] \in Nat /\ pos[i + 1] <= pos[k]
    <3>1. k \in 1..n + 1 /\ i + 1 <= k /\ i >= 1
      BY <1>2
    <3>2. pos[i + 1] <= pos[k]
      BY <1>24, <2>1, <3>1
    <3>3. pos[i] \in Nat /\ pos[i] >= i + tkl /\ pos[i + 1] \in Nat
      BY <1>4, <2>1
    <3>4. pos[i] >= 1
      BY <3>1, <3>3
    <3>. QED BY <3>2, <3>3, <3>4
  <2>7. \A j \in pos[i]..pos[i] + s - 1 : q[j + 0] = p[j]
    <3>0. PICK a, b, c : a = pos[i] /\ b = pos[i + 1] /\ c = pos[k]
      OBVIOUS
    <3>2. a \in Nat /\ b \in Nat /\ c \in Nat /\ s \in Nat /\ a >= 1 /\ b <= c /\ b = a + s
      BY <1>10, <2>4, <2>5, <2>6, <3>0
    <3>3. \A j \in a..a + s - 1 : j \in 1..c - 1 /\ j + 0 = j
      BY <3>2
    <3>1. \A j \in pos[i]..pos[i] + s - 1 : j \in 1..pos[k] - 1 /\ j + 0 = j
      BY <3>0, <3>3
    <3>. QED BY <1>8, <3>1
  <2>8. OptionLies(q, pos[i] + 0, d, v)
    <3>1. 0 \in Int /\ pos[i] + 0 \in Nat /\ pos[i] \in Nat
      BY <2>6
    <3>2. \A j \in pos[i]..pos[i] + Size(d, v) - 1 : q[j + 0] = p[j]
      BY <2>3, <2>7
    <3>. QED BY <2>4, <2>5, <3>1, <3>2, OptionMoved
  <2>9. pos[i] + 0 = pos[i]
    BY <2>6
  <2>. QED BY <2>2, <2>3, <2>5, <2>8, <2>9
<1>15. /\ OptionLies(q, new[k], Delta(w, k), w[k].value)
       /\ new[k + 1] = new[k] + Size(Delta(w, k), w[k].value)
  <2>1. k \in 1..k
    BY <1>2
  <2>. QED BY <1>8, <1>9, <2>1
<1>16. k <= n => /\ OptionLies(q, new[k + 1], Delta(w, k + 1), w[k + 1].value)
                 /\ new[(k + 1) + 1] = new[k + 1] + Size(Delta(w, k + 1), w[k + 1].value)
  <2>1. (k + 1) + 1 = k + 2
    BY <1>2
  <2>. QED BY <1>8, <1>9, <1>11, <2>1
<1>17. \A j \in pos[k]..m : (k = n + 1 \/ j >= pos[k + 1]) => q[j + by] = p[j]
  <2>1. k <= n => k + 1 \in 1..n + 1
    BY <1>2
  <2>2. k <= n => pos[k + 1] \in Nat
    BY <1>4, <2>1
  <2>3. ASSUME NEW j \in pos[k]..m, k <= n, j >= pos[k + 1]
        PROVE  q[j + by] = p[j]
    <3>1. j \in pos[k + 1]..m
      BY <1>2, <1>10, <2>2, <2>3
    <3>. QED BY <1>8, <2>3, <3>1
  <2>4. k = n + 1 \/ k <= n
    BY <1>2
  <2>. QED BY <1>8, <2>3, <2>4
<1>18. \A i \in k + 1..n : /\ OptionLies(q, new[i + 1], Delta(w, i + 1), w[i + 1].value)
                           /\ new[(i + 1) + 1] = new[i + 1] + Size(Delta(w, i + 1), w[i + 1].value)
  <2>. SUFFICES ASSUME NEW i \in k + 1..n
                PROVE  /\ OptionLies(q, new[i + 1], Delta(w, i + 1), w[i + 1].value)
                       /\ new[(i + 1) + 1] = new[i + 1] + Size(Delta(w, i + 1), w[i + 1].value)
    OBVIOUS
  <2>1. /\ i \in 1..n /\ i \in k + 1..n + 1 /\ i + 1 \in k + 1..n + 1
        /\ i \in 1..n + 1 /\ i + 1 \in 1..n + 1
        /\ k <= n /\ k + 1 \in 1..n + 1 /\ (i = k + 1 \/ k + 1 < i) /\ k < i
    BY <1>2
  <2>2. new[i + 1] = pos[i] + by /\ new[(i + 1) + 1] = pos[i + 1] + by
    BY <1>9, <2>1
  <2>3. PICK d, v, s : d = Delta(w, i + 1) /\ v = w[i + 1].value /\ s = Size(d, v)
    OBVIOUS
  <2>4. d \in Differences /\ v \in Values /\ s \in Nat \ {0}
    BY <1>5, <1>6, <2>1, <2>3
  <2>5. OptionLies(p, pos[i], d, v) /\ pos[i + 1] = pos[i] + s
    <3>1. w[i + 1] = opts[i] /\ Delta(w, i + 1) = Delta(opts, i)
      BY <1>3
    <3>. QED BY <1>7, <2>1, <2>3, <3>1
  <2>6. /\ pos[i] \in Nat /\ pos[k + 1] \in Nat /\ pos[k + 1] <= pos[i] /\ pos[k] < pos[i]
        /\ pos[i + 1] \in Nat /\ pos[i + 1] <= m + 1
    <3>1. k \in 1..n + 1
      BY <1>2
    <3>2. pos[i] \in Nat /\ pos[k + 1] \in Nat
      BY <1>4, <2>1
    <3>3. pos[i + 1] \in Nat /\ pos[i + 1] <= m + 1
      BY <1>4, <2>1
    <3>4. pos[k] < pos[i]
      BY <1>4, <2>1, <3>1
    <3>5. k + 1 <= i
      BY <1>2, <2>1
    <3>6. pos[k + 1] <= pos[i]
      BY <1>24, <2>1, <3>5
    <3>. QED BY <3>2, <3>3, <3>4, <3>6
  <2>7. \A j \in pos[i]..pos[i] + s - 1 : q[j + by] = p[j]
    <3>0. PICK a, b, c, e : a = pos[i] /\ b = pos[i + 1] /\ c = pos[k] /\ e = pos[k + 1]
      OBVIOUS
    <3>2. a \in Nat /\ b \in Nat /\ c \in Nat /\ e \in Nat /\ s \in Nat /\ b <= m + 1 /\ b = a + s
          /\ e <= a /\ c < a
      BY <1>10, <2>4, <2>5, <2>6, <3>0
    <3>3. \A j \in a..a + s - 1 : j \in c..m /\ j >= e
      BY <1>2, <3>2
    <3>1. \A j \in pos[i]..pos[i] + s - 1 : j \in pos[k]..m /\ j >= pos[k + 1]
      BY <3>0, <3>3
    <3>. QED BY <1>17, <3>1
  <2>8. OptionLies(q, pos[i] + by, d, v)
    <3>1. pos[i] + by \in Nat /\ pos[i] \in Nat
      BY <1>12, <2>1, <2>6
    <3>2. \A j \in pos[i]..pos[i] + Size(d, v) - 1 : q[j + by] = p[j]
      BY <2>3, <2>7
    <3>. QED BY <2>4, <2>5, <3>1, <3>2, OptionMoved
  <2>9. pos[i + 1] + by = (pos[i] + by) + s
    BY <2>4, <2>5, <2>6
  <2>. QED BY <2>2, <2>3, <2>8, <2>9
<1>19. new[n + 2] = pos[n + 1] + by
  <2>1. CASE k = n + 1
    <3>1. k + 1 = n + 2
      BY <1>2, <2>1
    <3>. QED BY <1>8, <1>9, <2>1, <3>1
  <2>2. CASE k # n + 1
    <3>1. n + 1 \in k + 1..n + 1 /\ (n + 1) + 1 = n + 2
      BY <1>2, <2>2
    <3>. QED BY <1>9, <3>1
  <2>. QED BY <2>1, <2>2
<1>20. new[n + 2] + Len(tail) = Len(q) + 1 /\ Lies(q, new[n + 2], tail)
  <2>1. Len(tail) \in Nat /\ n + 1 \in 1..n + 1
    BY <1>2, LenProperties
  <2>2. pos[n + 1] \in Nat /\ pos[k] <= pos[n + 1] /\ (k = n + 1 \/ pos[k + 1] <= pos[n + 1])
        /\ (k = n + 1 \/ pos[k + 1] \in Nat)
    <3>1. k \in 1..n + 1 /\ k <= n + 1
      BY <1>2
    <3>2. pos[n + 1] \in Nat /\ pos[k] <= pos[n + 1]
      BY <1>4, <1>24, <2>1, <3>1
    <3>3. k = n + 1 \/ (k + 1 \in 1..n + 1 /\ k + 1 <= n + 1)
      BY <1>2
    <3>4. k = n + 1 \/ pos[k + 1] <= pos[n + 1]
      BY <1>24, <2>1, <3>3
    <3>5. k = n + 1 \/ pos[k + 1] \in Nat
      BY <1>4, <3>3
    <3>. QED BY <3>2, <3>4, <3>5
  <2>3. \A j \in pos[n + 1]..pos[n + 1] + Len(tail) - 1 : q[j + by] = p[j]
    <3>0. PICK a, c, e, t : a = pos[n + 1] /\ c = pos[k] /\ e = pos[k + 1] /\ t = Len(tail)
      OBVIOUS
    <3>2. /\ a \in Nat /\ c \in Nat /\ t \in Nat /\ c <= a /\ a + t = m + 1
          /\ k = n + 1 \/ (e \in Nat /\ e <= a)
      <4>1. a + t = m + 1 /\ a \in Nat /\ t \in Nat
        BY <1>7, <2>1, <2>2, <3>0
      <4>2. c \in Nat /\ c <= a /\ (k = n + 1 \/ e <= a) /\ (k = n + 1 \/ e \in Nat)
        BY <1>10, <2>2, <3>0
      <4>. QED BY <4>1, <4>2
    <3>3. \A j \in a..a + t - 1 : j \in c..m /\ (k = n + 1 \/ j >= e)
      BY <1>2, <3>2
    <3>1. \A j \in pos[n + 1]..pos[n + 1] + Len(tail) - 1 :
              j \in pos[k]..m /\ (k = n + 1 \/ j >= pos[k + 1])
      BY <3>0, <3>3
    <3>. QED BY <1>17, <3>1
  <2>4. Lies(q, pos[n + 1] + by, tail)
    <3>1. pos[n + 1] \in Int
      BY <2>2
    <3>. QED BY <1>7, <2>3, <3>1, LiesMoved
  <2>5. (pos[n + 1] + by) + Len(tail) = (m + by) + 1
    BY <1>2, <1>7, <2>1, <2>2
  <2>. QED BY <1>8, <1>19, <2>4, <2>5
<1>21. ASSUME NEW i \in 1..n + 1
       PROVE  /\ OptionLies(q, new[i], Delta(w, i), w[i].value)
              /\ new[i + 1] = new[i] + Size(Delta(w, i), w[i].value)
  <2>1. CASE i < k
    <3>1. i \in 1..k - 1
      BY <1>2, <2>1
    <3>. QED BY <1>14, <3>1
  <2>2. CASE i = k
    BY <1>15, <2>2
  <2>3. CASE i = k + 1
    <3>1. k <= n
      BY <1>2, <2>3
    <3>. QED BY <1>16, <2>3, <3>1
  <2>4. CASE i > k + 1
    <3>1. i - 1 \in k + 1..n /\ (i - 1) + 1 = i
      BY <1>2, <2>4
    <3>2. PICK j \in k + 1..n : j + 1 = i
      BY <3>1
    <3>. QED BY <1>18, <3>2
  <2>. QED BY <1>2, <2>1, <2>2, <2>3, <2>4
<1>22. Len(w) + 1 = n + 2
  BY <1>2, <1>3
<1>23. Laid(q, tkl, w, new, tail)
  BY <1>3, <1>13, <1>20, <1>21, <1>22 DEF Laid
<1>. QED BY <1>1, <1>23

(* Where the parts of a joined sequence lie in it.                         *)
LEMMA LiesItself ==
    ASSUME NEW a \in Seq(Byte), NEW b \in Seq(Byte)
    PROVE  Lies(a \o b, 1, a) /\ Lies(a \o b, Len(a) + 1, b)
<1>1. PICK w, m, n : w = a \o b /\ m = Len(a) /\ n = Len(b)
  OBVIOUS
<1>2. /\ m \in Nat /\ n \in Nat
      /\ \A i \in 1..m : w[i] = a[i]
      /\ \A i \in 1..n : w[m + i] = b[i]
  BY <1>1, Joined
<1>3. \A i \in 1..m : 1 + i - 1 = i
  OBVIOUS
<1>4. \A i \in 1..n : (m + 1) + i - 1 = m + i
  BY <1>2
<1>5. \A i \in 1..m : w[1 + i - 1] = a[i]
  BY <1>2, <1>3
<1>6. \A i \in 1..n : w[(m + 1) + i - 1] = b[i]
  BY <1>2, <1>4
<1>. QED BY <1>1, <1>5, <1>6 DEF Lies

(* The end of a message.                                                   *)
LEMMA RestIs ==
    ASSUME NEW p \in Seq(Byte), NEW from \in Nat \ {0}, from <= Len(p) + 1
    PROVE  /\ Rest(p, from) \in Seq(Byte) /\ Len(Rest(p, from)) = Len(p) + 1 - from
           /\ \A i \in 1..Len(p) + 1 - from : Rest(p, from)[i] = p[from + i - 1]
<1>1. Len(p) \in Nat /\ Len(p) <= Len(p)
  BY LenProperties
<1>2. /\ SubSeq(p, from, Len(p)) \in Seq(Byte) /\ Len(SubSeq(p, from, Len(p))) = Len(p) + 1 - from
      /\ \A i \in 1..Len(p) + 1 - from : SubSeq(p, from, Len(p))[i] = p[from + i - 1]
  BY <1>1, CutIs
<1>. QED BY <1>2 DEF Rest

(* The beginning of a message.                                             *)
LEMMA HeadIs ==
    ASSUME NEW p \in Seq(Byte), NEW at \in Nat \ {0}, at <= Len(p) + 1
    PROVE  /\ Cat(p, 1, at - 1) \in Seq(Byte) /\ Len(Cat(p, 1, at - 1)) = at - 1
           /\ \A i \in 1..at - 1 : Cat(p, 1, at - 1)[i] = p[i]
<1>1. at - 1 \in Nat /\ 1 <= (at - 1) + 1 /\ at - 1 <= Len(p) /\ 1 \in Nat \ {0}
  <2>1. Len(p) \in Nat
    BY LenProperties
  <2>. QED BY <2>1
<1>2. PICK m \in Nat : m = at - 1
  BY <1>1
<1>3. /\ SubSeq(p, 1, m) \in Seq(Byte) /\ Len(SubSeq(p, 1, m)) = m + 1 - 1
      /\ \A i \in 1..m + 1 - 1 : SubSeq(p, 1, m)[i] = p[1 + i - 1]
  <2>1. 1 <= m + 1 /\ m <= Len(p) /\ 1 \in Nat \ {0}
    BY <1>1, <1>2
  <2>. QED BY <2>1, CutIs
<1>4. m + 1 - 1 = m /\ (\A i \in 1..m : 1 + i - 1 = i) /\ ~(m < 1 - 1)
  BY <1>2
<1>5. Cat(p, 1, m) = SubSeq(p, 1, m)
  BY <1>4 DEF Cat
<1>6. Cat(p, 1, m) \in Seq(Byte) /\ Len(Cat(p, 1, m)) = m /\ \A i \in 1..m : Cat(p, 1, m)[i] = p[i]
  BY <1>3, <1>4, <1>5
<1>. QED BY <1>2, <1>6

(* An option put before another, which then counts from it.                *)
PutBefore(p, q, at, d, v, e, s, by) ==
    /\ q \in Seq(Byte) /\ by \in Int /\ Len(q) = Len(p) + by
    /\ \A j \in 1..at - 1 : q[j] = p[j]
    /\ Lies(q, at, s)
    /\ OptionLies(q, at + Len(s), e, v)
    /\ Size(e, v) = Size(d, v) + computeExtraBytes(e) - computeExtraBytes(d)
    /\ \A j \in at + Size(d, v)..Len(p) : q[j + by] = p[j]

(* setOptionDelta: the bytes before the new option stay, the option behind *)
(* it has the new difference and its old value, the others move.           *)
LEMMA MiddleIs ==
    ASSUME NEW p \in Seq(Byte), NEW at \in Nat \ {0}, NEW d \in Differences, NEW v \in Values,
           OptionLies(p, at, d, v), at + Size(d, v) <= Len(p) + 1, getOptionDelta(p, at) = d,
           NEW e \in Differences, NEW s \in Seq(Byte), NEW q,
           q = Cat(p, 1, at - 1) \o s \o setOptionDelta(p, at, e),
           NEW by, by = Len(s) + computeExtraBytes(e) - computeExtraBytes(d)
    PROVE  PutBefore(p, q, at, d, v, e, s, by)
<1>1. PICK m, n, t, xd, xe, ls, x, from, front, rest, h, size :
        /\ m = Len(p) /\ n = Len(v) /\ t = Text(v) /\ xd = computeExtraBytes(d)
        /\ xe = computeExtraBytes(e) /\ ls = Len(s) /\ x = ExtraBytes(e) /\ from = at + 1 + xd
        /\ front = Cat(p, 1, at - 1) /\ rest = Rest(p, from)
        /\ h = 16 * Nibble(e) + (p[at] % 16) /\ size = Size(d, v)
  OBVIOUS
<1>2. m \in Nat /\ ls \in Nat
  BY <1>1, LenProperties
<1>3. xd \in 0..2 /\ Nibble(d) \in 0..14
  BY <1>1, Nibbles
<1>4. xe \in 0..2 /\ Nibble(e) \in 0..14 /\ x \in Seq(Byte) /\ Len(x) = xe
  BY <1>1, Nibbles
<1>5. n \in Differences /\ t \in Seq(Byte) /\ Len(t) \in Nat
  <2>1. n \in Differences /\ t \in Seq(Byte)
    BY <1>1, TextIs
  <2>2. Len(t) \in Nat
    BY <2>1, LenProperties
  <2>. QED BY <2>1, <2>2
<1>6. Nibble(n) \in 0..14
  BY <1>5, Nibbles
<1>7. size = 1 + xd + Len(t) /\ at + size <= m + 1 /\ Size(e, v) = 1 + xe + Len(t)
  BY <1>1 DEF Size
<1>8. p[at] = 16 * Nibble(d) + Nibble(n) /\ Lies(p, from, t)
  BY <1>1 DEF OptionLies
<1>9. h = 16 * Nibble(e) + Nibble(n) /\ h \in Byte
  <2>1. (16 * Nibble(d) + Nibble(n)) % 16 = Nibble(n)
    BY <1>3, <1>6, TwoNibbles
  <2>2. 16 * Nibble(e) + Nibble(n) \in Byte
    BY <1>4, <1>6, TwoNibbles
  <2>. QED BY <1>1, <1>8, <2>1, <2>2
<1>10. from \in Nat \ {0} /\ from <= m + 1 /\ at <= m + 1
  <2>1. PICK l \in Nat : l = Len(t)
    BY <1>5
  <2>2. from = at + 1 + xd /\ at + (1 + xd + l) <= m + 1
    BY <1>1, <1>7, <2>1
  <2>. QED BY <1>2, <1>3, <2>1, <2>2
<1>11. front \in Seq(Byte) /\ Len(front) = at - 1 /\ \A i \in 1..at - 1 : front[i] = p[i]
  BY <1>1, <1>10, HeadIs
<1>12. /\ rest \in Seq(Byte) /\ Len(rest) = m + 1 - from
       /\ \A i \in 1..m + 1 - from : rest[i] = p[from + i - 1]
  <2>1. rest = Rest(p, from) /\ m = Len(p)
    BY <1>1
  <2>2. from \in Nat \ {0} /\ from <= Len(p) + 1
    BY <1>10, <2>1
  <2>3. /\ Rest(p, from) \in Seq(Byte) /\ Len(Rest(p, from)) = Len(p) + 1 - from
        /\ \A i \in 1..Len(p) + 1 - from : Rest(p, from)[i] = p[from + i - 1]
    BY <2>2, RestIs
  <2>. QED BY <2>1, <2>3
<1>13. PICK g, a, b, c : g = <<h>> /\ a = g \o x /\ b = a \o rest /\ c = front \o s
  OBVIOUS
<1>14. g \in Seq(Byte) /\ Len(g) = 1 /\ g[1] = h
  BY <1>9, <1>13
<1>15. a \in Seq(Byte) /\ Len(a) = 1 + xe
  BY <1>4, <1>13, <1>14, Joined
<1>16. b \in Seq(Byte) /\ Len(b) = (1 + xe) + (m + 1 - from)
  <2>1. a \o rest \in Seq(Byte) /\ Len(a \o rest) = Len(a) + Len(rest)
    BY ONLY <1>12, <1>15, Joined
  <2>. QED BY Zenon, <1>12, <1>13, <1>15, <2>1
<1>17. c \in Seq(Byte) /\ Len(c) = (at - 1) + ls
  <2>1. s \in Seq(Byte)
    OBVIOUS
  <2>2. front \o s \in Seq(Byte) /\ Len(front \o s) = Len(front) + Len(s)
    BY ONLY <1>11, <2>1, Joined
  <2>. QED BY Zenon, <1>1, <1>11, <1>13, <2>2
<1>18. setOptionDelta(p, at, e) = b
  <2>1. Rest(p, at + 1 + computeExtraBytes(getOptionDelta(p, at))) = rest
    BY <1>1
  <2>2. setOptionDelta(p, at, e) = <<16 * Nibble(e) + (p[at] % 16)>> \o ExtraBytes(e)
                                     \o Rest(p, at + 1 + computeExtraBytes(getOptionDelta(p, at)))
    BY DEF setOptionDelta
  <2>3. setOptionDelta(p, at, e) = <<h>> \o x \o rest
    BY Zenon, <1>1, <2>1, <2>2
  <2>. QED BY <1>13, <2>3
<1>19. q = c \o b
  BY <1>1, <1>13, <1>18
<1>20. q \in Seq(Byte) /\ Len(q) = Len(c) + Len(b)
  <2>1. c \o b \in Seq(Byte) /\ Len(c \o b) = Len(c) + Len(b)
    BY ONLY <1>16, <1>17, Joined
  <2>. QED BY Zenon, <1>19, <2>1
<1>21. by = ls + xe - xd /\ by \in Int
  BY <1>1, <1>2, <1>3, <1>4
<1>35. PICK l \in Nat : l = Len(t)
  BY <1>5
<1>36. /\ at \in Int /\ xd \in Int /\ xe \in Int /\ ls \in Int /\ m \in Int /\ from = at + 1 + xd
  <2>1. at \in Int
    OBVIOUS
  <2>2. xd \in Int /\ xe \in Int
    BY ONLY <1>3, <1>4
  <2>3. ls \in Int /\ m \in Int
    BY ONLY <1>2
  <2>4. from = at + 1 + xd
    BY Zenon, <1>1
  <2>. QED BY Zenon, <2>1, <2>2, <2>3, <2>4
<1>37. size = 1 + xd + l /\ at + size <= m + 1 /\ Size(e, v) = 1 + xe + l
  BY <1>7, <1>35
<1>22. Len(q) = m + by
  <2>1. Len(q) = ((at - 1) + ls) + ((1 + xe) + (m + 1 - (at + 1 + xd)))
    BY <1>1, <1>16, <1>17, <1>20
  <2>2. ((at - 1) + ls) + ((1 + xe) + (m + 1 - (at + 1 + xd))) = m + (ls + xe - xd)
    BY ONLY <1>36
  <2>. QED BY Zenon, <1>21, <2>1, <2>2
<1>23. Lies(q, 1, c) /\ Lies(q, at + ls, b)
  <2>1. Lies(q, 1, c) /\ Lies(q, Len(c) + 1, b)
    BY <1>16, <1>17, <1>19, LiesItself
  <2>2. Len(c) + 1 = at + ls
    BY <1>2, <1>17
  <2>. QED BY <2>1, <2>2
<1>24. Lies(q, 1, front) /\ Lies(q, at, s)
  <2>1. 1 + Len(front) = at /\ 1 \in Int
    BY <1>11
  <2>2. Lies(q, 1, front) /\ Lies(q, 1 + Len(front), s)
    BY <1>11, <1>13, <1>23, <2>1, LiesJoined
  <2>. QED BY <2>1, <2>2
<1>25. PICK to \in Int : to = at + ls
  BY <1>2
<1>38. from + by = to + 1 + xe
  <2>1. \A y, z, x1, x2 \in Int : (y + 1 + x1) + (z + x2 - x1) = (y + z) + 1 + x2
    OBVIOUS
  <2>2. (at + 1 + xd) + (ls + xe - xd) = (at + ls) + 1 + xe
    BY <1>36, <2>1
  <2>. QED BY <1>21, <1>25, <1>36, <2>2
<1>26. Lies(q, to, a) /\ Lies(q, to + (1 + xe), rest)
  BY <1>12, <1>13, <1>15, <1>23, <1>25, LiesJoined
<1>27. Lies(q, to, g) /\ Lies(q, to + 1, x)
  <2>1. Lies(q, to, g \o x)
    BY Zenon, <1>13, <1>26
  <2>2. x \in Seq(Byte) /\ g \in Seq(Byte) /\ to \in Int
    BY Zenon, <1>4, <1>14
  <2>3. Lies(q, to, g) /\ Lies(q, to + Len(g), x)
    BY ONLY <2>1, <2>2, LiesJoined
  <2>. QED BY Zenon, <1>14, <2>3
<1>28. q[to] = h
  <2>1. to + 1 - 1 = to /\ 1 \in 1..1
    BY <1>25
  <2>. QED BY <1>14, <1>27, <2>1 DEF Lies
<1>29. \A j \in from..m : q[j + by] = p[j]
  <2>. SUFFICES ASSUME NEW j \in from..m
                PROVE  q[j + by] = p[j]
    OBVIOUS
  <2>1. PICK i \in 1..m + 1 - from : from + i - 1 = j
    <3>1. j + 1 - from \in 1..m + 1 - from /\ from + (j + 1 - from) - 1 = j
      BY <1>2, <1>10
    <3>. QED BY <3>1
  <2>2. q[(to + (1 + xe)) + i - 1] = rest[i]
    BY <1>12, <1>26 DEF Lies
  <2>3. (to + (1 + xe)) + i - 1 = j + by
    <3>1. j = at + 1 + xd + i - 1 /\ i \in Int
      BY <1>1, <1>10, <2>1
    <3>2. from \in Int /\ by \in Int /\ j = from + i - 1
      BY <1>10, <1>21, <2>1
    <3>3. \A y, z, f \in Int : f + z = y + 1 + xe => (y + (1 + xe)) + i - 1 = (f + i - 1) + z
      BY <1>36, <3>1
    <3>. QED BY <1>25, <1>38, <3>2, <3>3
  <2>. QED BY <1>12, <2>1, <2>2, <2>3
<1>30. Lies(q, to + 1 + xe, t)
  <2>1. from \in Int /\ by \in Int
    BY <1>10, <1>21
  <2>2. \A j \in from..from + Len(t) - 1 : q[j + by] = p[j]
    <3>1. from + l - 1 <= m
      BY <1>36, <1>37
    <3>2. \A j \in from..from + l - 1 : j \in from..m
      BY <1>2, <1>10, <3>1
    <3>. QED BY <1>29, <1>35, <3>2
  <2>3. Lies(q, from + by, t)
    BY <1>5, <1>8, <2>1, <2>2, LiesMoved
  <2>4. from + by = to + 1 + xe
    BY <1>38
  <2>. QED BY <2>3, <2>4
<1>31. OptionLies(q, to, e, v)
  BY <1>1, <1>9, <1>27, <1>28, <1>30 DEF OptionLies
<1>32. \A j \in at + size..m : q[j + by] = p[j]
  <2>1. at + size = from + l
    BY <1>36, <1>37
  <2>2. \A j \in from + l..m : j \in from..m
    BY <1>2, <1>10
  <2>. QED BY <1>29, <2>1, <2>2
<1>33. \A j \in 1..at - 1 : q[j] = p[j]
  <2>1. \A i \in 1..at - 1 : 1 + i - 1 = i
    OBVIOUS
  <2>2. \A i \in 1..at - 1 : q[1 + i - 1] = front[i]
    BY <1>11, <1>24 DEF Lies
  <2>. QED BY <1>11, <2>1, <2>2
<1>34. Size(e, v) = size + xe - xd
  BY <1>36, <1>37
<1>. QED BY <1>1, <1>20, <1>21, <1>22, <1>24, <1>25, <1>31, <1>32, <1>33, <1>34 DEF PutBefore

(* w is p with the option o at k.                                          *)
PutIn(w, p, tkl, opts, k, o, body) ==
    /\ w.pdu \in Seq(Byte)
    /\ w.max = IF k = Len(opts) + 1 THEN o.number ELSE PriorTo(opts, Len(opts) + 1)
    /\ \A j \in 1..tkl : w.pdu[j] = p[j]
    /\ \E new : Laid(w.pdu, tkl, InsertAt(opts, k, o), new, Tailed(body))

(* addOption puts the option where it belongs, and the message stays laid  *)
(* out.                                                                    *)
LEMMA WithOptionIs ==
    ASSUME NEW p \in Seq(Byte), NEW tkl \in Nat, NEW opts \in Seq(Opt), Risen(opts),
           NEW pos, NEW body \in Seq(Byte), Laid(p, tkl, opts, pos, Tailed(body)),
           NEW o \in Opt, NEW k \in 1..Len(opts) + 1, IsPlace(opts, o, k),
           body = <<>> \/ k <= Len(opts),
           NEW m, m.pdu = p, m.max = PriorTo(opts, Len(opts) + 1),
           NEW w, w = WithOption(m, tkl, o.number, o.value)
    PROVE  PutIn(w, p, tkl, opts, k, o, body)
<1>1. PICK n, q, at, prev, d, v, s, size, tail :
        /\ n = Len(opts) /\ q = w.pdu /\ at = pos[k] /\ prev = PriorTo(opts, k)
        /\ d = o.number - prev /\ v = o.value /\ s = insertOption(d, v) /\ size = Size(d, v)
        /\ tail = Tailed(body)
  OBVIOUS
<1>2. n \in Nat /\ Len(p) \in Nat /\ k \in 1..n + 1
  BY <1>1, LenProperties
<1>3. PICK list : list = InsertAt(opts, k, o)
  OBVIOUS
<1>4. /\ list \in Seq(Opt) /\ Len(list) = n + 1 /\ Risen(list)
      /\ list[k] = o /\ Delta(list, k) = d
      /\ k <= n => list[k + 1] = opts[k] /\ Delta(list, k + 1) = opts[k].number - o.number
  BY <1>1, <1>3, InsertRisen
<1>5. d \in Differences /\ v \in Values
  <2>1. k \in 1..Len(list)
    BY <1>2, <1>4
  <2>2. Delta(list, k) \in Differences /\ list[k].value \in Values
    BY <1>4, <2>1, DeltaIs
  <2>. QED BY <1>1, <1>4, <2>2
<1>6. s \in Seq(Byte) /\ Len(s) = size /\ size \in Nat \ {0}
  BY <1>1, <1>5, OptionIs
<1>7. tail \in Seq(Byte)
  BY <1>1, TailedIs
<1>8. at \in Nat \ {0} /\ at >= tkl + 1 /\ at <= Len(p) + 1
  <2>1. pos[k] \in Nat /\ pos[k] >= k + tkl /\ pos[k] <= Len(p) + 1
    BY <1>1, <1>2, <1>7, PlacesRise
  <2>. QED BY <1>1, <1>2, <2>1
<1>9. /\ findInsertionPosition(p, tkl, m.max, o.number) = [at |-> at, prev |-> prev]
      /\ at > Len(p) <=> k = n + 1
  BY <1>1, FindIs
<1>10. w = WithOptionAt(m, [at |-> at, prev |-> prev], o.number, s)
  <2>1. u16(o.number - prev) = d
    <3>1. u16(d) = d
      BY <1>5, U16Is
    <3>. QED BY <1>1, <3>1
  <2>. QED BY <1>1, <1>9, <2>1 DEF WithOption, OptionPut
<1>11. ASSUME NEW by \in Int, q \in Seq(Byte), Parted(p, q, opts, pos, k, o, size, by)
       PROVE  \E new : Laid(q, tkl, list, new, tail)
  BY <1>1, <1>3, <1>7, <1>11, InsertLaid
<1>12. ASSUME q \in Seq(Byte), \A j \in 1..at - 1 : q[j] = p[j]
       PROVE  \A j \in 1..tkl : q[j] = p[j]
  <2>1. \A j \in 1..tkl : j \in 1..at - 1
    BY <1>8
  <2>. QED BY <1>12, <2>1
<1>13. CASE k = n + 1
  <2>1. w = [pdu |-> p \o s, max |-> o.number]
    BY <1>9, <1>10, <1>13 DEF WithOptionAt
  <2>2. q = p \o s /\ w.max = o.number
    BY <1>1, <2>1
  <2>3. at = Len(p) + 1
    BY <1>2, <1>8, <1>9, <1>13
  <2>4. q \in Seq(Byte) /\ Len(q) = Len(p) + size /\ \A j \in 1..Len(p) : q[j] = p[j]
    BY <1>6, <2>2, Joined
  <2>5. \A j \in 1..at - 1 : q[j] = p[j]
    BY <1>2, <2>3, <2>4
  <2>6. OptionLies(q, at, d, v)
    <3>1. Lies(q, Len(p) + 1, s)
      BY <1>6, <2>2, LiesItself
    <3>2. at \in Nat
      BY <1>8
    <3>. QED BY <1>1, <1>5, <2>3, <3>1, <3>2, OptionIs
  <2>7. Parted(p, q, opts, pos, k, o, size, size)
    <3>1. \A j \in at..Len(p) : q[j + size] = p[j]
      BY <1>2, <2>3
    <3>. QED BY <1>1, <1>13, <2>4, <2>5, <2>6, <3>1 DEF Parted
  <2>8. size \in Int
    BY <1>6
  <2>. QED BY <1>1, <1>3, <1>11, <1>12, <1>13, <2>2, <2>4, <2>5, <2>7, <2>8 DEF PutIn
<1>14. CASE k # n + 1
  <2>1. k \in 1..n /\ k <= n /\ k + 1 \in 1..n + 1
    BY <1>2, <1>14
  <2>2. PICK dk, vk, e : dk = Delta(opts, k) /\ vk = opts[k].value /\ e = opts[k].number - o.number
    OBVIOUS
  <2>3. dk \in Differences /\ vk \in Values /\ prev + dk = opts[k].number
    BY <1>1, <2>1, <2>2, DeltaIs
  <2>4. OptionLies(p, at, dk, vk) /\ pos[k + 1] = at + Size(dk, vk)
    BY <1>1, <2>1, <2>2 DEF Laid
  <2>5. pos[k + 1] <= Len(p) + 1 /\ pos[k + 1] \in Nat
    <3>. QED BY <1>1, <1>7, <2>1, PlacesRise
  <2>6. e \in Differences
    <3>1. k + 1 \in 1..Len(list)
      BY <1>4, <2>1
    <3>2. Delta(list, k + 1) \in Differences
      BY <1>4, <3>1, DeltaIs
    <3>. QED BY <1>4, <2>1, <2>2, <3>2
  <2>7. getOptionDelta(p, at) = dk
    <3>1. prev \in Differences /\ prev + dk \in Differences
      BY <1>1, <2>1, <2>3, DeltaIs
    <3>. QED BY <1>8, <2>3, <2>4, <2>5, <3>1, OptionAtIs
  <2>8. w = [pdu |-> Cat(p, 1, at - 1) \o s \o setOptionDelta(p, at, e), max |-> m.max]
    <3>1. ~(at > Len(p))
      BY <1>9, <1>14
    <3>2. u16(prev + getOptionDelta(p, at) - o.number) = e
      <4>1. o.number \in Differences /\ prev \in Differences
        BY <1>1, <2>1, DeltaIs DEF Opt, Known
      <4>2. \A a, b, c \in Int : a + b - c = (a + b) - c
        OBVIOUS
      <4>3. prev \in Int /\ dk \in Int /\ o.number \in Int
        BY <2>3, <4>1, Small
      <4>4. prev + dk - o.number = e
        BY <2>2, <2>3, <4>2, <4>3
      <4>5. u16(e) = e
        BY <2>6, U16Is
      <4>. QED BY <2>7, <4>4, <4>5
    <3>. HIDE DEF Cat, setOptionDelta
    <3>. QED BY Zenon, <1>10, <3>1, <3>2 DEF WithOptionAt
  <2>9. q = Cat(p, 1, at - 1) \o s \o setOptionDelta(p, at, e) /\ w.max = m.max
    BY <1>1, <2>8
  <2>10. PICK by : by = Len(s) + computeExtraBytes(e) - computeExtraBytes(dk)
    OBVIOUS
  <2>11. /\ q \in Seq(Byte) /\ by \in Int /\ Len(q) = Len(p) + by
         /\ \A j \in 1..at - 1 : q[j] = p[j]
         /\ Lies(q, at, s)
         /\ OptionLies(q, at + Len(s), e, vk)
         /\ Size(e, vk) = Size(dk, vk) + computeExtraBytes(e) - computeExtraBytes(dk)
         /\ \A j \in at + Size(dk, vk)..Len(p) : q[j + by] = p[j]
    <3>1. at + Size(dk, vk) <= Len(p) + 1
      BY <2>4, <2>5
    <3>2. /\ s \in Seq(Byte) /\ at \in Nat \ {0} /\ dk \in Differences /\ vk \in Values
          /\ OptionLies(p, at, dk, vk)
      BY <1>6, <1>8, <2>3, <2>4
    <3>3. q = Cat(p, 1, at - 1) \o s \o setOptionDelta(p, at, e)
      BY <2>9
    <3>4. PutBefore(p, q, at, dk, vk, e, s, by)
      BY <2>6, <2>7, <2>10, <3>1, <3>2, <3>3, MiddleIs
    <3>. QED BY <3>4 DEF PutBefore
  <2>12. OptionLies(q, at, d, v)
    <3>1. at \in Nat
      BY <1>8
    <3>. QED BY <1>1, <1>5, <2>11, <3>1, OptionIs
  <2>13. pos[k + 1] + by = at + size + Size(e, vk)
    <3>1. computeExtraBytes(e) \in Int /\ computeExtraBytes(dk) \in Int
      BY <2>3, <2>6, Nibbles
    <3>2. Size(dk, vk) \in Int /\ size \in Int /\ at \in Int
      BY <1>6, <1>8, <2>3, OptionIs
    <3>3. \A a, b, c, x, y \in Int : (a + b) + (c + x - y) = a + c + (b + x - y)
      OBVIOUS
    <3>4. by = size + computeExtraBytes(e) - computeExtraBytes(dk)
      BY <1>6, <2>10
    <3>5. Size(e, vk) = Size(dk, vk) + computeExtraBytes(e) - computeExtraBytes(dk)
      BY <2>11
    <3>6. pos[k + 1] + by = (at + Size(dk, vk)) + (size + computeExtraBytes(e) - computeExtraBytes(dk))
      BY <2>4, <3>4
    <3>7. at + size + Size(e, vk)
            = at + size + (Size(dk, vk) + computeExtraBytes(e) - computeExtraBytes(dk))
      BY <3>5
    <3>. QED BY <3>1, <3>2, <3>3, <3>6, <3>7
  <2>14. Parted(p, q, opts, pos, k, o, size, by)
    <3>1. k # Len(opts) + 1
      BY <1>1, <1>14
    <3>. QED BY <1>1, <1>6, <2>2, <2>4, <2>11, <2>12, <2>13, <3>1 DEF Parted
  <2>. QED BY <1>1, <1>3, <1>11, <1>12, <1>14, <2>9, <2>11, <2>14 DEF PutIn
<1>. QED BY <1>13, <1>14

(* A message as the calls build it: its bytes are the token, the options   *)
(* in the order of their numbers and the payload, and their count is noted. *)
Sound(m, word, body) ==
    /\ m.pdu \in Seq(Byte) /\ Len(m.pdu) <= Room
    /\ m.opts \in Seq(Opt) /\ Risen(m.opts)
    /\ m.num = Len(m.opts)
    /\ \A j \in 1..Len(word) : m.pdu[j] = word[j]
    /\ \E pos : Laid(m.pdu, Len(word), m.opts, pos, Tailed(body))

(* What every message is, also when an option has been put in behind one   *)
(* that was refused.                                                       *)
Typed(m) ==
    /\ m.pdu \in Seq(Byte) /\ Len(m.pdu) <= Room
    /\ m.num \in Nat /\ m.max \in Known \cup {0}
    /\ m.refused \in BOOLEAN /\ m.misled \in BOOLEAN
    /\ m.misled => m.refused

(* Before that it is sound; and until one is refused the highest number    *)
(* noted is that of its last option.                                       *)
Top(opts) == PriorTo(opts, Len(opts) + 1)
Whole(m, word, body) ==
    /\ Typed(m)
    /\ ~m.misled => Sound(m, word, body)
    /\ ~m.refused => m.max = Top(m.opts)

(* The highest number of a list in order.                                  *)
LEMMA HighestIs ==
    ASSUME NEW opts \in Seq(Opt), Risen(opts)
    PROVE  PriorTo(opts, Len(opts) + 1) \in Differences
<1>1. PICK n \in Nat : n = Len(opts)
  BY LenProperties
<1>2. CASE n = 0
  <2>1. PriorTo(opts, n + 1) = 0
    BY <1>2 DEF PriorTo
  <2>. QED BY <1>1, <2>1, Small
<1>3. CASE n # 0
  <2>1. n \in 1..Len(opts)
    BY <1>1, <1>3
  <2>2. PriorTo(opts, n + 1) = opts[n].number /\ opts[n].number \in Differences
    BY <2>1, DeltaIs
  <2>. QED BY <1>1, <2>2
<1>. QED BY <1>2, <1>3

(* An option that fits is added: the message stays sound, and a low one    *)
(* leaves the highest number as it was.                                    *)
LEMMA KeepIs ==
    ASSUME NEW word \in Seq(Byte), NEW body \in Seq(Byte), NEW m, Sound(m, word, body),
           m.max = Top(m.opts), NEW o \in Opt, body = <<>> \/ o.number < m.max,
           NEW w, w = WithOption(m, Len(word), o.number, o.value), ~(Len(w.pdu) > Room),
           Room \in Nat
    PROVE  /\ Sound(Keep(m, w, o), word, body)
           /\ Keep(m, w, o).max = Top(Keep(m, w, o).opts)
           /\ o.number < m.max => Keep(m, w, o).max = m.max
<1>1. PICK p, opts, pos, n, k, tkl :
        /\ p = m.pdu /\ opts = m.opts /\ n = Len(opts) /\ tkl = Len(word)
        /\ Laid(p, tkl, opts, pos, Tailed(body)) /\ k = Place(opts, o)
  BY DEF Sound
<1>2. /\ p \in Seq(Byte) /\ opts \in Seq(Opt) /\ Risen(opts) /\ m.num = n
      /\ m.max = PriorTo(opts, n + 1) /\ \A j \in 1..tkl : p[j] = word[j]
  BY <1>1 DEF Sound, Top
<1>3. n \in Nat /\ tkl \in Nat
  BY <1>1, <1>2, LenProperties
<1>4. k \in 1..n + 1 /\ IsPlace(opts, o, k)
  BY <1>1, <1>2, PlaceIs
<1>5. o.number < m.max => k <= n
  <2>. SUFFICES ASSUME o.number < m.max, k = n + 1
                PROVE  FALSE
    BY <1>3, <1>4
  <2>1. o.number \in Int /\ o.number >= 0
    BY Small DEF Opt, Known
  <2>2. CASE n = 0
    <3>1. PriorTo(opts, n + 1) = 0
      BY <2>2 DEF PriorTo
    <3>. QED BY <1>2, <2>1, <3>1
  <2>3. CASE n # 0
    <3>1. n \in 1..n /\ n \in 1..k - 1
      BY <1>3, <2>3
    <3>2. PriorTo(opts, n + 1) = opts[n].number /\ opts[n].number \in Differences
      BY <1>1, <1>2, <3>1, DeltaIs
    <3>3. opts[n].number <= o.number
      BY <1>4, <3>1 DEF IsPlace
    <3>4. opts[n].number \in Int
      BY <3>2, Small
    <3>. QED BY <1>2, <2>1, <3>2, <3>3, <3>4
  <2>. QED BY <2>2, <2>3
<1>6. PICK list, new : list = InsertAt(opts, k, o) /\ new = Keep(m, w, o)
  OBVIOUS
<1>7. /\ w.pdu \in Seq(Byte)
      /\ w.max = IF k = n + 1 THEN o.number ELSE PriorTo(opts, n + 1)
      /\ \A j \in 1..tkl : w.pdu[j] = p[j]
      /\ \E places : Laid(w.pdu, tkl, list, places, Tailed(body))
  <2>1. body = <<>> \/ k <= Len(opts)
    BY <1>1, <1>5
  <2>2. m.max = PriorTo(opts, Len(opts) + 1) /\ w = WithOption(m, tkl, o.number, o.value)
    BY <1>1, <1>2
  <2>3. k \in 1..Len(opts) + 1
    BY <1>1, <1>4
  <2>4. m.pdu = p /\ m.max = PriorTo(opts, Len(opts) + 1)
    BY <1>1, <2>2
  <2>5. Laid(p, tkl, opts, pos, Tailed(body)) /\ p \in Seq(Byte) /\ opts \in Seq(Opt) /\ Risen(opts)
        /\ tkl \in Nat /\ IsPlace(opts, o, k)
    BY <1>1, <1>2, <1>3, <1>4
  <2>6. PutIn(w, p, tkl, opts, k, o, body)
    BY <2>1, <2>2, <2>3, <2>4, <2>5, WithOptionIs
  <2>. QED BY <1>1, <1>6, <2>6 DEF PutIn
<1>8. /\ list \in Seq(Opt) /\ Len(list) = n + 1 /\ Risen(list)
      /\ PriorTo(list, n + 2) = IF k = n + 1 THEN o.number ELSE PriorTo(opts, n + 1)
  BY <1>1, <1>2, <1>4, <1>6, InsertRisen
<1>9. /\ new.pdu = w.pdu /\ new.max = w.max /\ new.num = n + 1 /\ new.opts = list
  BY <1>1, <1>2, <1>6 DEF Keep
<1>10. PriorTo(list, Len(list) + 1) = w.max
  <2>1. Len(list) + 1 = n + 2
    BY <1>3, <1>8
  <2>. QED BY <1>7, <1>8, <2>1
<1>13. Len(w.pdu) <= Room
  <2>1. Len(w.pdu) \in Nat
    BY <1>7, LenProperties
  <2>. QED BY <2>1
<1>11. Sound(new, word, body)
  BY <1>1, <1>13, <1>2, <1>7, <1>8, <1>9 DEF Sound
<1>12. o.number < m.max => new.max = m.max
  <2>. SUFFICES ASSUME o.number < m.max
                PROVE  new.max = m.max
    OBVIOUS
  <2>1. k # n + 1
    BY <1>3, <1>5
  <2>. QED BY <1>2, <1>7, <1>9, <2>1
<1>. QED BY <1>6, <1>9, <1>10, <1>11, <1>12 DEF Top

(* The options are added one after the other.                              *)
LEMMA AddedDef ==
    ASSUME NEW added, Len(added) \in Nat
    PROVE  /\ Added(added)[0] = AsItIs
           /\ \A n \in 1..Len(added) :
                 Added(added)[n] =
                     KeepIfFits(Added(added)[n - 1],
                                WithOption(Added(added)[n - 1], Len(token), added[n].number,
                                           added[n].value),
                                added[n])
<1> DEFINE Step(m, n) ==
             KeepIfFits(m, WithOption(m, Len(token), added[n].number, added[n].value), added[n])
           Begins(f, k) == /\ f = [n \in 0..k |-> f[n]] /\ f[0] = AsItIs
                           /\ \A n \in 1..k : f[n] = Step(f[n - 1], n)
           Ok == {k \in Nat : \E f : Begins(f, k)}
           GoOn(f, n) == Step(f[n - 1], n)
<1>1. PICK k \in Nat : k = Len(added)
  OBVIOUS
<1> DEFINE Body(f) == [n \in 0..k |-> IF n = 0 THEN AsItIs ELSE GoOn(f, n)]
           found == CHOOSE f : f = Body(f)
<1>2. Added(added) = found
  BY <1>1 DEF Added
<1>. HIDE DEF Step
<1>3. 0 \in Ok
  <2>1. PICK f : f = [n \in 0..0 |-> AsItIs]
    OBVIOUS
  <2>2. Begins(f, 0)
    BY <2>1
  <2>. QED BY <2>2
<1>4. ASSUME NEW m \in Ok \cap Nat
      PROVE  m + 1 \in Ok
  <2>1. PICK f : Begins(f, m)
    OBVIOUS
  <2>2. PICK g : g = [n \in 0..m + 1 |-> IF n = m + 1 THEN Step(f[m], m + 1) ELSE f[n]]
    OBVIOUS
  <2>3. /\ g = [n \in 0..m + 1 |-> g[n]] /\ g[m + 1] = Step(f[m], m + 1)
        /\ \A n \in 0..m : g[n] = f[n]
    BY <2>2
  <2>4. ASSUME NEW n \in 1..m + 1
        PROVE  g[n] = Step(g[n - 1], n)
    <3>1. CASE n = m + 1
      <4>1. n - 1 = m /\ m \in 0..m
        BY <3>1
      <4>. QED BY <2>3, <3>1, <4>1
    <3>2. CASE n # m + 1
      <4>1. n \in 1..m /\ n \in 0..m /\ n - 1 \in 0..m
        BY <3>2
      <4>2. f[n] = Step(f[n - 1], n)
        BY <2>1, <4>1
      <4>. QED BY <2>3, <4>1, <4>2
    <3>. QED BY <3>1, <3>2
  <2>5. g[0] = AsItIs
    BY <2>1, <2>3
  <2>6. Begins(g, m + 1)
    BY <2>3, <2>4, <2>5
  <2>7. m + 1 \in Nat
    OBVIOUS
  <2>. HIDE DEF Begins
  <2>. QED BY <2>6, <2>7
<1>5. k \in Ok
  <2>. HIDE DEF Ok
  <2>. QED BY <1>3, <1>4, NumbersInduction
<1>6. PICK f : Begins(f, k)
  BY <1>5
<1>7. f = Body(f)
  <2>1. \A n \in 0..k : n # 0 => n \in 1..k
    OBVIOUS
  <2>2. \A n \in 0..k : f[n] = IF n = 0 THEN AsItIs ELSE GoOn(f, n)
    BY <1>6, <2>1
  <2>. HIDE DEF GoOn
  <2>. QED BY <1>6, <2>2
<1>8. found = Body(found)
  <2>. HIDE DEF Body
  <2>. QED BY <1>7
<1>. HIDE DEF found
<1>9. found[0] = AsItIs /\ \A n \in 1..k : found[n] = GoOn(found, n)
  <2>. HIDE DEF GoOn
  <2>. QED BY <1>8
<1>. QED BY <1>1, <1>2, <1>9 DEF Step

(* The nibbles of a byte.                                                  *)
LEMMA NibblesOf == \A b \in Byte : b \div 16 \in 0..15 /\ b % 16 \in 0..15
BY DEF Byte

(* The walk over any bytes stays among them.                               *)
Inside(w) ==
    /\ w.at \in Nat \ {0} /\ w.prev \in Int
    /\ \E T : /\ w.opts \in Seq(T)
              /\ \A o \in T : o.at \in Nat \ {0} /\ o.prev \in Int

LEMMA ReadTyped ==
    ASSUME NEW p \in Seq(Byte), NEW at \in Nat \ {0}, at <= Len(p)
    PROVE  getOptionDelta(p, at) \in Nat /\ getOptionValueLength(p, at) \in Nat
<1>1. p[at] \in Byte
  <2>1. at \in 1..Len(p)
    BY LenProperties
  <2>. QED BY <2>1, ElementOfSeq
<1>2. p[at] \div 16 \in 0..15 /\ p[at] % 16 \in 0..15
  BY <1>1, NibblesOf
<1>3. ASSUME NEW nibble \in 0..15, NEW place \in Nat \ {0}
      PROVE  Extended(p, nibble, place) \in Nat
  <2>1. ASSUME NEW i \in Nat \ {0}
        PROVE  ByteAt(p, i) \in Byte
    <3>1. CASE i <= Len(p)
      <4>1. i \in 1..Len(p)
        BY <3>1, LenProperties
      <4>2. p[i] \in Byte
        BY <4>1, ElementOfSeq
      <4>. QED BY <3>1, <4>2 DEF ByteAt
    <3>2. CASE ~(i <= Len(p))
      BY <3>2 DEF ByteAt, Garbage, Byte
    <3>. QED BY <3>1, <3>2
  <2>2. place + 1 \in Nat \ {0}
    OBVIOUS
  <2>3. PICK b, c : b = ByteAt(p, place) /\ c = ByteAt(p, place + 1)
    OBVIOUS
  <2>4. b \in Nat /\ c \in Nat
    <3>1. b \in Byte /\ c \in Byte
      BY <2>1, <2>2, <2>3
    <3>. QED BY <3>1 DEF Byte
  <2>5. 256 * b + c + 269 \in Int
    BY <2>4
  <2>6. u16(256 * b + c + 269) \in Nat
    BY <2>5, U16Is DEF Differences
  <2>7. nibble < 13 => Extended(p, nibble, place) = nibble
    BY DEF Extended
  <2>8. nibble = 13 => Extended(p, nibble, place) = b + 13
    BY <2>3 DEF Extended
  <2>9. nibble = 14 => Extended(p, nibble, place) = u16(256 * b + c + 269)
    BY <2>3 DEF Extended
  <2>10. nibble = 15 => Extended(p, nibble, place) = nibble
    BY DEF Extended
  <2>. QED BY <2>4, <2>6, <2>7, <2>8, <2>9, <2>10
<1>4. at + 1 \in Nat \ {0} /\ at + 1 + ExtraOf(p[at] \div 16) \in Nat \ {0}
  BY <1>2 DEF ExtraOf
<1>. QED BY <1>2, <1>3, <1>4 DEF getOptionDelta, getOptionValueLength

(* So does a step of it.                                                   *)
LEMMA StepInside ==
    ASSUME NEW p \in Seq(Byte), NEW w, Inside(w)
    PROVE  Inside(WalkOn(p, w))
<1>1. PICK T : /\ w.at \in Nat \ {0} /\ w.prev \in Int /\ w.opts \in Seq(T)
               /\ \A o \in T : o.at \in Nat \ {0} /\ o.prev \in Int
  BY DEF Inside
<1>2. ASSUME NEW valid, NEW body
      PROVE  Inside(Ended(w, valid, body))
  <2>1. PICK v : v = Ended(w, valid, body)
    OBVIOUS
  <2>2. v.at = w.at /\ v.prev = w.prev /\ v.opts = w.opts
    BY <2>1 DEF Ended
  <2>. QED BY <1>1, <2>1, <2>2 DEF Inside
<1>3. ASSUME w.at <= Len(p)
      PROVE  Inside(WalkOver(p, w, OptionAt(p, w.at, w.prev)))
  <2>1. PICK o, d, n, k, l : /\ o = OptionAt(p, w.at, w.prev)
                             /\ d = getOptionDelta(p, w.at) /\ n = getOptionValueLength(p, w.at)
                             /\ k = computeExtraBytes(d) /\ l = computeExtraBytes(n)
    OBVIOUS
  <2>2. d \in Nat /\ n \in Nat
    BY <1>1, <1>3, <2>1, ReadTyped
  <2>3. k \in Nat /\ l \in Nat
    BY <2>1 DEF computeExtraBytes
  <2>4. o.at = w.at /\ o.prev = w.prev /\ o.number = u16(w.prev + d)
        /\ o.end = w.at + 1 + k + l + n
    BY <2>1 DEF OptionAt
  <2>5. o.number \in Int /\ o.end \in Nat \ {0}
    <3>1. w.prev + d \in Int
      BY <1>1, <2>2
    <3>2. u16(w.prev + d) \in Int
      BY <3>1, U16Is, Small
    <3>3. w.at + 1 + k + l + n \in Nat \ {0}
      BY <1>1, <2>2, <2>3
    <3>. QED BY <2>4, <3>2, <3>3
  <2>6. CASE o.end > Len(p) + 1
    BY <1>2, <2>1, <2>6 DEF WalkOver
  <2>7. CASE ~(o.end > Len(p) + 1)
    <3>1. PICK v : v = WalkOver(p, w, o)
      OBVIOUS
    <3>2. v.at = o.end /\ v.prev = o.number /\ v.opts = Append(w.opts, o)
      BY <2>7, <3>1 DEF WalkOver
    <3>3. PICK U : U = T \cup {o}
      OBVIOUS
    <3>4. w.opts \in Seq(U)
      <4>1. PICK m \in Nat : m = Len(w.opts) /\ w.opts \in [1..m -> T]
        BY <1>1, LenProperties
      <4>2. w.opts \in [1..m -> U]
        BY <3>3, <4>1
      <4>. QED BY <4>2, IsASeq
    <3>5. Append(w.opts, o) \in Seq(U)
      BY <3>3, <3>4, AppendProperties
    <3>6. \A x \in U : x.at \in Nat \ {0} /\ x.prev \in Int
      BY <1>1, <2>4, <3>3
    <3>7. v.at \in Nat \ {0} /\ v.prev \in Int /\ v.opts \in Seq(U)
      BY <2>5, <3>2, <3>5
    <3>8. Inside(v)
      BY <3>6, <3>7 DEF Inside
    <3>. QED BY <2>1, <3>1, <3>8
  <2>. QED BY <2>6, <2>7
<1>4. CASE w.ended
  BY <1>4 DEF WalkOn
<1>5. CASE ~w.ended /\ w.at > Len(p)
  BY <1>2, <1>5 DEF WalkOn
<1>6. CASE ~w.ended /\ ~(w.at > Len(p))
  <2>1. w.at <= Len(p)
    <3>1. Len(p) \in Nat
      BY LenProperties
    <3>. QED BY <1>1, <1>6, <3>1
  <2>2. CASE p[w.at] = Marker
    BY <1>2, <1>6, <2>2 DEF WalkOn
  <2>3. CASE p[w.at] # Marker /\ HeaderFits(p, w.at)
    BY <1>3, <1>6, <2>1, <2>3 DEF WalkOn
  <2>4. CASE p[w.at] # Marker /\ ~HeaderFits(p, w.at)
    BY <1>2, <1>6, <2>4 DEF WalkOn
  <2>. QED BY <2>2, <2>3, <2>4
<1>. QED BY <1>4, <1>5, <1>6

(* And the whole of it.                                                    *)
LEMMA WalkInside ==
    ASSUME NEW p \in Seq(Byte), NEW tkl \in Nat
    PROVE  Inside(Walk(p, tkl))
<1>1. PICK n, step : n = Len(p) + 1 /\ step = walked(p, tkl)
  OBVIOUS
<1>2. n \in Nat
  BY <1>1, LenProperties
<1>3. step[0] = Started(tkl) /\ \A i \in 1..n : step[i] = WalkOn(p, step[i - 1])
  BY <1>1, WalkedDef, LenProperties
<1> DEFINE Ok == {i \in Nat : i <= n => Inside(step[i])}
<1>4. 0 \in Ok
  <2>1. PICK w : w = Started(tkl)
    OBVIOUS
  <2>2. w.at = tkl + 1 /\ w.prev = 0 /\ w.opts = <<>>
    BY <2>1 DEF Started
  <2>3. PICK T : T = {}
    OBVIOUS
  <2>6. w.opts \in Seq(T) /\ \A o \in T : o.at \in Nat \ {0} /\ o.prev \in Int
    BY <2>2, <2>3, EmptySeq
  <2>4. tkl + 1 \in Nat \ {0} /\ 0 \in Int
    OBVIOUS
  <2>5. Inside(w)
    BY <2>2, <2>4, <2>6 DEF Inside
  <2>. QED BY <1>3, <2>1, <2>5
<1>5. ASSUME NEW i \in Ok \cap Nat
      PROVE  i + 1 \in Ok
  <2>. SUFFICES ASSUME i + 1 <= n
                PROVE  Inside(step[i + 1])
    OBVIOUS
  <2>1. i + 1 \in 1..n /\ (i + 1) - 1 = i /\ i <= n
    BY <1>2
  <2>2. Inside(step[i])
    BY <2>1
  <2>3. Inside(WalkOn(p, step[i]))
    BY <2>2, StepInside
  <2>4. step[i + 1] = WalkOn(p, step[i])
    BY <1>3, <2>1
  <2>. QED BY <2>3, <2>4
<1>6. n \in Ok
  <2>. HIDE DEF Ok
  <2>. QED BY <1>2, <1>4, <1>5, NumbersInduction
<1>. QED BY <1>1, <1>2, <1>6 DEF Walk

(* The end of a message, also from behind it.                              *)
LEMMA RestTyped ==
    ASSUME NEW p \in Seq(Byte), NEW from \in Nat \ {0}
    PROVE  Rest(p, from) \in Seq(Byte)
<1>1. Len(p) \in Nat
  BY LenProperties
<1>2. CASE from <= Len(p) + 1
  BY <1>2, RestIs
<1>3. CASE ~(from <= Len(p) + 1)
  <2>1. PICK n \in Nat : n = Len(p)
    BY <1>1
  <2>2. \A i \in from..n : p[i] \in Byte
    BY <1>3, <2>1
  <2>3. from \in Int /\ n \in Int
    OBVIOUS
  <2>4. SubSeq(p, from, n) \in Seq(Byte)
    BY <2>2, <2>3, SubSeqProperties
  <2>. QED BY <2>1, <2>4 DEF Rest
<1>. QED BY <1>2, <1>3

(* What addOption makes of any bytes are bytes, and what it notes is the   *)
(* number of the option or what was noted.                                 *)
LEMMA WithOptionTyped ==
    ASSUME NEW m, m.pdu \in Seq(Byte), m.max \in Int, NEW tkl \in Nat, NEW o \in Opt
    PROVE  /\ WithOption(m, tkl, o.number, o.value).pdu \in Seq(Byte)
           /\ WithOption(m, tkl, o.number, o.value).max \in {m.max, o.number}
<1>1. PICK p, pos, number, v, w, s :
        /\ p = m.pdu /\ number = o.number /\ v = o.value
        /\ pos = findInsertionPosition(p, tkl, m.max, number)
        /\ w = WithOption(m, tkl, o.number, o.value)
        /\ s = insertOption(u16(number - pos.prev), v)
  OBVIOUS
<1>2. p \in Seq(Byte) /\ Len(p) \in Nat
  BY <1>1, LenProperties
<1>3. number \in Int /\ v \in Values
  <2>1. number \in Differences
    BY <1>1 DEF Opt, Known
  <2>. QED BY <1>1, <2>1, Small DEF Opt
<1>4. pos.at \in Nat \ {0} /\ pos.prev \in Int
  <2>1. CASE number >= m.max \/ Len(p) = tkl
    <3>1. pos = [at |-> Len(p) + 1, prev |-> m.max]
      BY <1>1, <2>1 DEF findInsertionPosition
    <3>. QED BY <1>2, <3>1
  <2>2. CASE ~(number >= m.max \/ Len(p) = tkl)
    <3>1. PICK k, higher : k = Walk(p, tkl)
                           /\ higher = {i \in DOMAIN k.opts : k.opts[i].number > number}
      OBVIOUS
    <3>2. pos = FirstOf(k, higher)
      BY <1>1, <2>2, <3>1 DEF findInsertionPosition, InsertBehind
    <3>3. Inside(k)
      BY <1>2, <3>1, WalkInside
    <3>4. CASE higher = {}
      <4>1. pos = [at |-> k.at, prev |-> k.prev]
        BY <3>2, <3>4 DEF FirstOf
      <4>. QED BY <3>3, <4>1 DEF Inside
    <3>5. CASE higher # {}
      <4>1. PICK T : k.opts \in Seq(T) /\ \A x \in T : x.at \in Nat \ {0} /\ x.prev \in Int
        BY <3>3 DEF Inside
      <4>2. DOMAIN k.opts = 1..Len(k.opts) /\ Len(k.opts) \in Nat
        BY <4>1, LenProperties
      <4>3. higher \in SUBSET Nat /\ higher \subseteq 1..Len(k.opts)
        BY <3>1, <4>2
      <4>4. \E i \in higher : \A j \in higher : i <= j
        BY <3>5, <4>3, LeastNumber
      <4>5. PICK i : i = CHOOSE x \in higher : \A j \in higher : x <= j
        OBVIOUS
      <4>6. i \in higher
        BY <4>4, <4>5
      <4>7. k.opts[i] \in T
        BY <4>1, <4>3, <4>6, ElementOfSeq
      <4>8. pos = [at |-> k.opts[i].at, prev |-> k.opts[i].prev]
        BY <3>2, <3>5, <4>5, Zenon DEF FirstOf
      <4>. QED BY <4>1, <4>7, <4>8
    <3>. QED BY <3>4, <3>5
  <2>. QED BY <2>1, <2>2
<1>5. s \in Seq(Byte)
  <2>1. number - pos.prev \in Int
    BY <1>3, <1>4
  <2>2. u16(number - pos.prev) \in Differences
    BY <2>1, U16Is
  <2>. QED BY <1>1, <1>3, <2>2, OptionIs
<1>6. w = WithOptionAt(m, pos, number, s)
  BY <1>1, Zenon DEF WithOption, OptionPut
<1>7. CASE pos.at > Len(p)
  <2>1. w = [pdu |-> p \o s, max |-> number]
    BY <1>1, <1>6, <1>7, Zenon DEF WithOptionAt
  <2>2. p \o s \in Seq(Byte)
    BY <1>2, <1>5, Joined
  <2>. QED BY <1>1, <2>1, <2>2
<1>8. CASE ~(pos.at > Len(p))
  <2>1. PICK at, e, head, moved : /\ at = pos.at /\ e = u16(pos.prev + getOptionDelta(p, at) - number)
                                  /\ head = Cat(p, 1, at - 1) /\ moved = setOptionDelta(p, at, e)
    OBVIOUS
  <2>2. at \in Nat \ {0} /\ at <= Len(p)
    BY <1>2, <1>4, <1>8, <2>1
  <2>3. w = [pdu |-> head \o s \o moved, max |-> m.max]
    <3>. HIDE DEF Cat, setOptionDelta
    <3>. QED BY Zenon, <1>1, <1>6, <1>8, <2>1 DEF WithOptionAt
  <2>4. head \in Seq(Byte)
    <3>1. at <= Len(p) + 1
      BY <1>2, <2>2
    <3>. QED BY <1>2, <2>1, <2>2, <3>1, HeadIs
  <2>5. e \in Differences
    <3>1. getOptionDelta(p, at) \in Nat
      BY <1>2, <2>2, ReadTyped
    <3>2. pos.prev + getOptionDelta(p, at) - number \in Int
      BY <1>3, <1>4, <3>1
    <3>. QED BY <2>1, <3>2, U16Is
  <2>6. moved \in Seq(Byte)
    <3>1. PICK byte, x, rest :
            /\ byte = 16 * Nibble(e) + (p[at] % 16) /\ x = ExtraBytes(e)
            /\ rest = Rest(p, at + 1 + computeExtraBytes(getOptionDelta(p, at)))
      OBVIOUS
    <3>2. byte \in Byte
      <4>1. p[at] \in Byte
        <5>1. at \in 1..Len(p)
          BY <1>2, <2>2
        <5>. QED BY <1>2, <5>1, ElementOfSeq
      <4>2. p[at] % 16 \in 0..15
        BY <4>1, NibblesOf
      <4>3. Nibble(e) \in 0..14
        BY <2>5, Nibbles
      <4>4. \A a \in 0..14, b \in 0..15 : 16 * a + b \in 0..255
        OBVIOUS
      <4>. QED BY <3>1, <4>2, <4>3, <4>4 DEF Byte
    <3>3. x \in Seq(Byte)
      BY <2>5, <3>1, Nibbles
    <3>4. rest \in Seq(Byte)
      <4>1. computeExtraBytes(getOptionDelta(p, at)) \in Nat
        BY DEF computeExtraBytes
      <4>2. at + 1 + computeExtraBytes(getOptionDelta(p, at)) \in Nat \ {0}
        BY <2>2, <4>1
      <4>. QED BY <1>2, <3>1, <4>2, RestTyped
    <3>5. PICK h : h = <<byte>>
      OBVIOUS
    <3>6. h \in Seq(Byte)
      BY <3>2, <3>5
    <3>7. h \o x \in Seq(Byte)
      BY <3>3, <3>6, Joined
    <3>8. (h \o x) \o rest \in Seq(Byte)
      BY <3>4, <3>7, Joined
    <3>9. moved = (h \o x) \o rest
      BY <2>1, <3>1, <3>5, Zenon DEF setOptionDelta
    <3>. QED BY <3>8, <3>9
  <2>7. head \o s \in Seq(Byte)
    BY <1>5, <2>4, Joined
  <2>8. (head \o s) \o moved \in Seq(Byte)
    BY <2>6, <2>7, Joined
  <2>. QED BY <1>1, <2>3, <2>8
<1>. QED BY <1>7, <1>8

(* addOption, over and over: the message stays whole.  Behind a payload    *)
(* only options lower than the highest are added.                          *)
LEMMA AddAllIs ==
    ASSUME NEW word \in Seq(Byte), word = token, NEW body \in Seq(Byte), Whole(AsItIs, word, body),
           Room \in Nat,
           NEW added \in Seq(Opt),
           body = <<>> \/ misled \/ \A i \in 1..Len(added) : added[i].number < Top(options)
    PROVE  Whole(AddAll(added), word, body)
<1>1. PICK n, step : n = Len(added) /\ step = Added(added)
  OBVIOUS
<1>2. n \in Nat
  BY <1>1, LenProperties
<1>3. /\ step[0] = AsItIs
      /\ \A i \in 1..n :
            step[i] = KeepIfFits(step[i - 1],
                                 WithOption(step[i - 1], Len(word), added[i].number,
                                            added[i].value),
                                 added[i])
  BY <1>1, <1>2, AddedDef
<1> DEFINE Fine(m) == /\ Whole(m, word, body)
                      /\ misled => m.misled
                      /\ body = <<>> \/ m.misled \/ Top(m.opts) = Top(options)
           Ok == {i \in Nat : i <= n => Fine(step[i])}
<1>4. 0 \in Ok
  <2>1. AsItIs.opts = options /\ AsItIs.misled = misled
    BY DEF AsItIs
  <2>. QED BY <1>3, <2>1
<1>5. ASSUME NEW i \in Ok \cap Nat
      PROVE  i + 1 \in Ok
  <2>. SUFFICES ASSUME i + 1 <= n
                PROVE  Fine(step[i + 1])
    OBVIOUS
  <2>1. i + 1 \in 1..n /\ (i + 1) - 1 = i /\ i <= n
    BY <1>2
  <2>2. PICK m, o, w : /\ m = step[i] /\ o = added[i + 1]
                       /\ w = WithOption(m, Len(word), o.number, o.value)
    OBVIOUS
  <2>3. Fine(m)
    BY <2>1, <2>2
  <2>4. step[i + 1] = KeepIfFits(m, w, o)
    BY <1>3, <2>1, <2>2
  <2>5. o \in Opt /\ o.number \in Known
    <3>1. o \in Opt
      BY <1>1, <2>1, <2>2, ElementOfSeq
    <3>. QED BY <3>1 DEF Opt
  <2>6. body = <<>> \/ misled \/ o.number < Top(options)
    BY <1>1, <2>1, <2>2
  <2>. HIDE DEF Ok
  <2>7. w.pdu \in Seq(Byte) /\ w.max \in {m.max, o.number} /\ w.max \in Known \cup {0}
    <3>1. m.pdu \in Seq(Byte) /\ m.max \in Known \cup {0}
      BY <2>3 DEF Whole, Typed
    <3>2. m.max \in Int
      <4>1. \A d \in Known : d \in Int
        BY Small DEF Known
      <4>. QED BY <3>1, <4>1
    <3>3. Len(word) \in Nat
      BY LenProperties
    <3>4. w.pdu \in Seq(Byte) /\ w.max \in {m.max, o.number}
      BY <2>2, <2>5, <3>1, <3>2, <3>3, WithOptionTyped
    <3>. QED BY <2>5, <3>1, <3>4
  <2>8. CASE m.full
    <3>1. step[i + 1] = m
      BY <2>4, <2>8 DEF KeepIfFits
    <3>. QED BY <2>3, <3>1
  <2>9. CASE ~m.full /\ Len(w.pdu) > Room
    <3>1. PICK f : f = Full(m, w) /\ step[i + 1] = f
      BY <2>4, <2>9 DEF KeepIfFits
    <3>2. /\ f.pdu = m.pdu /\ f.max = w.max /\ f.num = m.num /\ f.opts = m.opts
          /\ f.refused = (m.refused \/ w.max # m.max) /\ f.misled = m.misled
      BY <3>1 DEF Full
    <3>3. Typed(f)
      BY <2>3, <2>7, <3>2 DEF Whole, Typed
    <3>4. ~f.misled => Sound(f, word, body)
      BY <2>3, <3>2 DEF Whole, Sound
    <3>5. ~f.refused => f.max = Top(f.opts)
      BY <2>3, <3>2 DEF Whole
    <3>. QED BY <2>3, <3>1, <3>2, <3>3, <3>4, <3>5 DEF Whole
  <2>10. CASE ~m.full /\ ~(Len(w.pdu) > Room)
    <3>1. PICK k : k = Keep(m, w, o) /\ step[i + 1] = k
      BY <2>4, <2>10 DEF KeepIfFits
    <3>2. /\ k.pdu = w.pdu /\ k.max = w.max /\ k.num = m.num + 1
          /\ k.refused = m.refused /\ k.misled = m.refused
      BY <3>1 DEF Keep
    <3>3. Typed(k)
      <4>1. Len(w.pdu) <= Room
        <5>1. Len(w.pdu) \in Nat
          BY <2>7, LenProperties
        <5>. QED BY <2>10, <5>1
      <4>. QED BY <2>3, <2>7, <3>2, <4>1 DEF Whole, Typed
    <3>4. CASE m.refused
      BY <3>1, <3>2, <3>3, <3>4 DEF Whole
    <3>5. CASE ~m.refused
      <4>1. Sound(m, word, body) /\ m.max = Top(m.opts) /\ ~m.misled
        BY <2>3, <3>5 DEF Whole, Typed
      <4>2. body = <<>> \/ (o.number < m.max /\ m.max = Top(options))
        BY <2>3, <2>6, <4>1
      <4>3. ~(Len(w.pdu) > Room)
        BY <2>10
      <4>4. /\ Sound(k, word, body) /\ k.max = Top(k.opts)
            /\ o.number < m.max => k.max = m.max
        BY <2>2, <2>5, <3>1, <4>1, <4>2, <4>3, KeepIs
      <4>5. ~misled
        BY <2>3, <4>1
      <4>6. Whole(k, word, body)
        BY <3>3, <4>4 DEF Whole
      <4>. QED BY <3>1, <4>2, <4>4, <4>5, <4>6
    <3>. QED BY <3>4, <3>5
  <2>. QED BY <2>8, <2>9, <2>10
<1>6. n \in Ok
  <2>. HIDE DEF Ok
  <2>. QED BY <1>2, <1>4, <1>5, NumbersInduction
<1>. QED BY <1>1, <1>2, <1>6 DEF AddAll

(* The options of a message that moves as a whole.                         *)
LEMMA ShiftLaid ==
    ASSUME NEW p \in Seq(Byte), NEW tkl \in Nat, NEW opts \in Seq(Opt), Risen(opts),
           NEW pos, NEW tail \in Seq(Byte), Laid(p, tkl, opts, pos, tail),
           NEW q \in Seq(Byte), NEW by \in Int, NEW len \in Nat, len = tkl + by,
           Len(q) = Len(p) + by,
           \A j \in tkl + 1..Len(p) : q[j + by] = p[j]
    PROVE  \E new : Laid(q, len, opts, new, tail)
<1>1. PICK n, m, new : n = Len(opts) /\ m = Len(p) /\ new = [i \in 1..n + 1 |-> pos[i] + by]
  OBVIOUS
<1>2. n \in Nat /\ m \in Nat /\ Len(tail) \in Nat
  BY <1>1, LenProperties
<1>3. /\ \A i \in 1..n + 1 : pos[i] \in Nat /\ pos[i] >= i + tkl /\ pos[i] <= m + 1
  BY <1>1, PlacesRise
<1>4. /\ pos[1] = tkl + 1
      /\ \A i \in 1..n : /\ OptionLies(p, pos[i], Delta(opts, i), opts[i].value)
                         /\ pos[i + 1] = pos[i] + Size(Delta(opts, i), opts[i].value)
      /\ pos[n + 1] + Len(tail) = m + 1
      /\ Lies(p, pos[n + 1], tail)
  BY <1>1 DEF Laid
<1>5. \A i \in 1..n + 1 : new[i] = pos[i] + by
  BY <1>1
<1>6. ASSUME NEW i \in 1..n + 1
      PROVE  new[i] \in Nat /\ pos[i] \in Int /\ pos[i] >= tkl + 1 /\ pos[i] <= m + 1
  <2>1. pos[i] \in Nat /\ pos[i] >= i + tkl /\ pos[i] <= m + 1 /\ i >= 1
    BY <1>3
  <2>2. pos[i] >= tkl + 1
    BY <2>1
  <2>3. pos[i] + by >= 0
    BY <2>1, <2>2
  <2>. QED BY <1>5, <2>1, <2>2, <2>3
<1>7. new \in [1..n + 1 -> Nat] /\ new[1] = len + 1
  <2>1. 1 \in 1..n + 1
    BY <1>2
  <2>2. new[1] = (tkl + 1) + by
    BY <1>4, <1>5, <2>1
  <2>. QED BY <1>1, <1>6, <2>2
<1>8. ASSUME NEW i \in 1..n
      PROVE  /\ OptionLies(q, new[i], Delta(opts, i), opts[i].value)
             /\ new[i + 1] = new[i] + Size(Delta(opts, i), opts[i].value)
  <2>1. i \in 1..n + 1 /\ i + 1 \in 1..n + 1
    BY <1>2
  <2>2. PICK d, v, s, at : d = Delta(opts, i) /\ v = opts[i].value /\ s = Size(d, v) /\ at = pos[i]
    OBVIOUS
  <2>3. d \in Differences /\ v \in Values
    BY <1>1, <2>2, DeltaIs
  <2>4. s \in Nat
    BY <2>2, <2>3, OptionIs
  <2>5. OptionLies(p, at, d, v) /\ pos[i + 1] = at + s
    BY <1>4, <2>2
  <2>6. at \in Nat /\ at >= tkl + 1 /\ at + by \in Nat
    BY <1>3, <1>5, <1>6, <2>1, <2>2
  <2>7. at + s <= m + 1
    BY <1>6, <2>1, <2>5
  <2>8. \A j \in at..at + s - 1 : q[j + by] = p[j]
    <3>1. \A j \in at..at + s - 1 : j \in tkl + 1..m
      BY <1>2, <2>4, <2>6, <2>7
    <3>. QED BY <1>1, <3>1
  <2>9. OptionLies(q, at + by, d, v)
    <3>1. \A j \in at..at + Size(d, v) - 1 : q[j + by] = p[j]
      BY <2>2, <2>8
    <3>. QED BY <2>3, <2>5, <2>6, <3>1, OptionMoved
  <2>10. new[i] = at + by /\ new[i + 1] = (at + s) + by
    BY <1>5, <2>1, <2>2, <2>5
  <2>11. (at + s) + by = (at + by) + s
    BY <2>4, <2>6
  <2>. QED BY <2>2, <2>9, <2>10, <2>11
<1>9. new[n + 1] + Len(tail) = Len(q) + 1 /\ Lies(q, new[n + 1], tail)
  <2>1. n + 1 \in 1..n + 1
    BY <1>2
  <2>2. PICK at, t : at = pos[n + 1] /\ t = Len(tail)
    OBVIOUS
  <2>3. at \in Int /\ at >= tkl + 1 /\ t \in Nat /\ at + t = m + 1 /\ new[n + 1] = at + by
    BY <1>2, <1>4, <1>5, <1>6, <2>1, <2>2
  <2>4. \A j \in at..at + t - 1 : q[j + by] = p[j]
    <3>1. \A j \in at..at + t - 1 : j \in tkl + 1..m
      BY <1>2, <2>3
    <3>. QED BY <1>1, <3>1
  <2>5. Lies(q, at + by, tail)
    BY <1>4, <2>2, <2>3, <2>4, LiesMoved
  <2>6. (at + by) + t = (m + by) + 1
    <3>1. \A a, b, c, x \in Int : a + b = c + 1 => (a + x) + b = (c + x) + 1
      OBVIOUS
    <3>2. at \in Int /\ t \in Int /\ m \in Int /\ at + t = m + 1
      BY <1>2, <2>3
    <3>. QED BY <3>1, <3>2
  <2>. QED BY <1>1, <2>2, <2>3, <2>5, <2>6
<1>10. Laid(q, len, opts, new, tail)
  BY <1>1, <1>7, <1>8, <1>9 DEF Laid
<1>. QED BY <1>10

(* A payload behind a message that has none.                               *)
LEMMA TailLaid ==
    ASSUME NEW p \in Seq(Byte), NEW tkl \in Nat, NEW opts \in Seq(Opt), Risen(opts),
           NEW pos, Laid(p, tkl, opts, pos, <<>>),
           NEW q \in Seq(Byte), NEW tail \in Seq(Byte), Len(q) = Len(p) + Len(tail),
           \A j \in 1..Len(p) : q[j] = p[j], Lies(q, Len(p) + 1, tail)
    PROVE  Laid(q, tkl, opts, pos, tail)
<1>1. PICK n, m, t : n = Len(opts) /\ m = Len(p) /\ t = Len(tail)
  OBVIOUS
<1>2. n \in Nat /\ m \in Nat /\ t \in Nat
  BY <1>1, LenProperties
<1>3. <<>> \in Seq(Byte) /\ Len(<<>>) = 0
  BY EmptySeq
<1>4. \A i \in 1..n + 1 : pos[i] \in Nat /\ pos[i] >= i + tkl /\ pos[i] <= m + 1
  BY <1>1, <1>3, PlacesRise
<1>5. /\ pos \in [1..n + 1 -> Nat] /\ pos[1] = tkl + 1
      /\ \A i \in 1..n : /\ OptionLies(p, pos[i], Delta(opts, i), opts[i].value)
                         /\ pos[i + 1] = pos[i] + Size(Delta(opts, i), opts[i].value)
      /\ pos[n + 1] + 0 = m + 1
  BY <1>1, <1>3 DEF Laid
<1>6. pos[n + 1] = m + 1
  <2>1. n + 1 \in 1..n + 1
    BY <1>2
  <2>2. pos[n + 1] \in Nat
    BY <1>4, <2>1
  <2>. QED BY <1>5, <2>2
<1>7. ASSUME NEW i \in 1..n
      PROVE  OptionLies(q, pos[i], Delta(opts, i), opts[i].value)
  <2>1. i \in 1..n + 1 /\ i + 1 \in 1..n + 1 /\ i >= 1
    BY <1>2
  <2>2. PICK d, v, s, at : d = Delta(opts, i) /\ v = opts[i].value /\ s = Size(d, v) /\ at = pos[i]
    OBVIOUS
  <2>3. d \in Differences /\ v \in Values
    BY <1>1, <2>2, DeltaIs
  <2>4. s \in Nat
    BY <2>2, <2>3, OptionIs
  <2>5. OptionLies(p, at, d, v) /\ at \in Nat /\ at >= i + tkl /\ at + s <= m + 1
    BY <1>4, <1>5, <2>1, <2>2
  <2>6. at >= 1
    BY <2>1, <2>5
  <2>7. \A j \in at..at + s - 1 : q[j + 0] = p[j]
    <3>1. \A j \in at..at + s - 1 : j \in 1..m /\ j + 0 = j
      BY <1>2, <2>4, <2>5, <2>6
    <3>. QED BY <1>1, <3>1
  <2>8. OptionLies(q, at + 0, d, v)
    <3>1. 0 \in Int /\ at + 0 \in Nat
      BY <2>5
    <3>2. \A j \in at..at + Size(d, v) - 1 : q[j + 0] = p[j]
      BY <2>2, <2>7
    <3>. QED BY <2>3, <2>5, <3>1, <3>2, OptionMoved
  <2>9. at + 0 = at
    BY <2>5
  <2>. QED BY <2>2, <2>8, <2>9
<1>8. pos[n + 1] + t = Len(q) + 1
  BY <1>1, <1>2, <1>6
<1>9. Lies(q, pos[n + 1], tail)
  BY <1>1, <1>6
<1>. QED BY <1>1, <1>5, <1>7, <1>8, <1>9 DEF Laid

-----------------------------------------------------------------------------

(* The inductive invariant: the message is whole, and what else the calls  *)
(* look at is what was put in.  A payload that was never set has no place. *)
PduInv ==
    /\ Whole(AsItIs, token, payload)
    /\ token \in Seq(Byte) /\ Len(token) <= 8 /\ payload \in Seq(Byte)
    /\ _payloadLength = Len(payload) /\ _payloadLength \in Payloads \cup {0}
    /\ payload = <<>> => _payloadPointer = 0
    /\ version \in {0, 1} /\ code \in Codes \cup {0} /\ calls \in 0..MaxCalls

(* The empty message is sound.                                             *)
LEMMA NothingLaid ==
    ASSUME NEW m, m.pdu = <<>>, m.opts = <<>>, m.num = 0, m.max = 0, Room \in Nat,
           m.refused = FALSE, m.misled = FALSE
    PROVE  Whole(m, <<>>, <<>>)
<1>1. Len(<<>>) = 0 /\ <<>> \in Seq(Byte) /\ <<>> \in Seq(Opt)
  BY EmptySeq
<1>2. Risen(<<>>)
  BY <1>1 DEF Risen
<1>3. PriorTo(<<>>, 0 + 1) = 0
  BY DEF PriorTo
<1>4. Tailed(<<>>) = <<>>
  BY DEF Tailed
<1>5. PICK pos : pos = [i \in 1..1 |-> 1]
  OBVIOUS
<1>6. pos \in [1..0 + 1 -> Nat] /\ pos[1] = 0 + 1 /\ pos[0 + 1] + 0 = 0 + 1
  BY <1>5
<1>7. Laid(<<>>, 0, <<>>, pos, <<>>)
  <2>1. \A i \in 1..0 : FALSE
    OBVIOUS
  <2>2. Lies(<<>>, pos[0 + 1], <<>>)
    BY <1>1, <2>1 DEF Lies
  <2>. QED BY <1>1, <1>6, <2>1, <2>2 DEF Laid
<1>8. 0 <= Room
  OBVIOUS
<1>9. \A j \in 1..0 : m.pdu[j] = <<>>[j]
  OBVIOUS
<1>10. Sound(m, <<>>, <<>>)
  BY <1>1, <1>2, <1>4, <1>7, <1>8, <1>9 DEF Sound
<1>11. Typed(m)
  <2>1. m.refused \in BOOLEAN /\ m.misled \in BOOLEAN /\ ~m.misled
    OBVIOUS
  <2>2. m.pdu \in Seq(Byte) /\ Len(m.pdu) <= Room /\ m.num \in Nat /\ m.max \in Known \cup {0}
    BY <1>1, <1>8
  <2>. QED BY <2>1, <2>2, Zenon DEF Typed
<1>. QED BY <1>1, <1>3, <1>10, <1>11 DEF Whole, Top

(* A new message is sound.                                                 *)
LEMMA InitPduInv == ASSUME ShortMessages, Init PROVE PduInv
<1>1. /\ pdu = <<>> /\ version = 1 /\ code = 0 /\ _numOptions = 0 /\ _maxAddedOptionNumber = 0
      /\ _payloadPointer = 0 /\ _payloadLength = 0
      /\ options = <<>> /\ token = <<>> /\ payload = <<>> /\ calls = 0
      /\ refused = FALSE /\ misled = FALSE
  BY DEF Init
<1>2. Room \in Nat /\ MaxCalls \in Nat
  BY DEF ShortMessages
<1>3. Whole(AsItIs, token, payload)
  <2>1. PICK m : m = AsItIs
    OBVIOUS
  <2>2. m.pdu = <<>> /\ m.opts = <<>> /\ m.num = 0 /\ m.max = 0
      /\ m.refused = FALSE /\ m.misled = FALSE
    BY <1>1, <2>1 DEF AsItIs
  <2>3. Whole(m, <<>>, <<>>)
    BY <1>2, <2>2, NothingLaid
  <2>. QED BY <1>1, <2>1, <2>3
<1>4. Len(<<>>) = 0 /\ <<>> \in Seq(Byte)
  BY EmptySeq
<1>5. 0 \in 0..MaxCalls
  BY <1>2
<1>. QED BY <1>1, <1>3, <1>4, <1>5 DEF PduInv

(* What is whole in the next state.                                        *)
LEMMA PrimedWhole ==
    ASSUME Whole(AsItIs', token', payload')
    PROVE  Whole(AsItIs, token, payload)'
BY DEF Whole, Typed, Top, PriorTo, Sound, AsItIs, Laid, Lies, OptionLies

(* A value of one byte, repeated.                                          *)
LEMMA FillIs ==
    ASSUME NEW len \in Nat, NEW b \in Byte
    PROVE  Fill(len, b) \in Seq(Byte) /\ Len(Fill(len, b)) = len
<1>1. Fill(len, b) \in [1..len -> Byte]
  BY DEF Fill
<1>. QED BY <1>1

(* The values that are put in.                                             *)
LEMMA ValueIs ==
    ASSUME calls \in Nat, NEW len \in 0..268, NEW i \in Nat
    PROVE  Value(len, i) \in Values
<1>1. PICK b : b = (10 * calls + i) % 256
  OBVIOUS
<1>2. b \in Byte
  BY <1>1 DEF Byte
<1>3. len \in Nat /\ len <= 268
  OBVIOUS
<1>4. Fill(len, b) \in Seq(Byte) /\ Len(Fill(len, b)) = len
  BY <1>2, <1>3, FillIs
<1>. QED BY <1>1, <1>3, <1>4 DEF Value, Values

(* addOption, setContentFormat, addURIQuery and setURI keep the message    *)
(* sound.                                                                  *)
LEMMA AddKeeps ==
    ASSUME ShortMessages, ~AnyOrder, PduInv, NEW added \in Seq(Opt), Add(added),
           calls' \in 0..MaxCalls
    PROVE  PduInv'
<1>1. PICK m : /\ m = AddAll(added) /\ pdu' = m.pdu /\ _maxAddedOptionNumber' = m.max
               /\ _numOptions' = m.num /\ options' = m.opts
               /\ refused' = m.refused /\ misled' = m.misled
  BY DEF Add
<1>2. UNCHANGED <<version, code, _payloadPointer, _payloadLength, token, payload>>
  BY DEF Add
<1>3. /\ Whole(AsItIs, token, payload) /\ token \in Seq(Byte) /\ payload \in Seq(Byte)
      /\ _payloadLength = Len(payload)
  BY DEF PduInv
<1>4. payload = <<>> \/ misled \/ \A i \in 1..Len(added) : added[i].number < Top(options)
  <2>1. _payloadLength = 0 \/ \A i \in DOMAIN added : added[i].number < Highest(options)
    BY DEF Add
  <2>4. ~misled => Highest(options) = Top(options)
    <3>. SUFFICES ASSUME ~misled
                  PROVE  Highest(options) = Top(options)
      OBVIOUS
    <3>1. options \in Seq(Opt)
      BY <1>3 DEF Whole, Sound, AsItIs
    <3>2. PICK n \in Nat : n = Len(options) /\ (n + 1) - 1 = n
      BY <3>1, LenProperties
    <3>3. options = <<>> <=> n = 0
      BY <3>1, <3>2, EmptySeq
    <3>. QED BY <3>2, <3>3 DEF Highest, Top, PriorTo
  <2>2. _payloadLength = 0 => payload = <<>>
    BY <1>3, EmptySeq
  <2>3. DOMAIN added = 1..Len(added)
    BY LenProperties
  <2>. QED BY <2>1, <2>2, <2>3, <2>4
<1>5. Whole(m, token, payload)
  <2>1. Room \in Nat
    BY DEF ShortMessages
  <2>. QED BY <1>1, <1>3, <1>4, <2>1, AddAllIs
<1>6. PICK now :
        now = [pdu |-> m.pdu, max |-> m.max, num |-> m.num, opts |-> m.opts, full |-> FALSE,
               refused |-> m.refused, misled |-> m.misled]
  OBVIOUS
<1>7. Whole(now, token, payload)
  <2>1. /\ now.pdu = m.pdu /\ now.max = m.max /\ now.num = m.num /\ now.opts = m.opts
        /\ now.refused = m.refused /\ now.misled = m.misled
    BY <1>6
  <2>2. Typed(now)
    BY <1>5, <2>1 DEF Whole, Typed
  <2>3. ~now.misled => Sound(now, token, payload)
    BY <1>5, <2>1 DEF Whole, Sound
  <2>. QED BY <1>5, <2>1, <2>2, <2>3 DEF Whole
<1>8. AsItIs' = now
  BY <1>1, <1>6 DEF AsItIs
<1>9. Whole(AsItIs, token, payload)'
  BY <1>2, <1>7, <1>8, PrimedWhole
<1>. QED BY <1>2, <1>9 DEF PduInv

(* setToken keeps the message sound: the options and the payload move      *)
(* behind the new token.                                                   *)
LEMMA TokenLaid ==
    ASSUME ShortMessages, PduInv, NEW len \in Tokens, setToken(len),
           Sound(AsItIs, token, payload)
    PROVE  Sound(AsItIs', token', payload')
<1>0. PICK bytes, old, p : bytes = Fill(len, (200 + calls) % 256) /\ old = Len(token) /\ p = pdu
  OBVIOUS
<1>1. PICK moved, q, n :
        /\ bytes = Fill(len, (200 + calls) % 256)
        /\ old = Len(token) /\ p = pdu /\ q = pdu' /\ n = Len(p)
        /\ moved = bytes \o Rest(p, old + 1)
  BY Zenon, <1>0
<1>2. /\ len > 0 /\ Len(moved) <= Room /\ q = moved /\ token' = bytes
      /\ UNCHANGED <<version, code, _numOptions, _maxAddedOptionNumber, _payloadPointer,
                     _payloadLength, options, payload, refused, misled>>
  BY <1>1 DEF setToken
<1>3. /\ len \in Nat /\ len <= 8 /\ calls \in Nat
  BY DEF ShortMessages, PduInv
<1>4. PICK m : m = AsItIs /\ Sound(m, token, payload)
  OBVIOUS
<1>5. /\ m.pdu = p /\ m.opts = options /\ m.num = _numOptions
  BY <1>1, <1>4 DEF AsItIs
<1>6. PICK pos : Laid(p, old, options, pos, Tailed(payload))
  BY <1>1, <1>4, <1>5 DEF Sound
<1>7. /\ p \in Seq(Byte) /\ options \in Seq(Opt) /\ Risen(options)
      /\ _numOptions = Len(options)
  BY <1>4, <1>5 DEF Sound
<1>8. token \in Seq(Byte) /\ payload \in Seq(Byte)
  BY DEF PduInv
<1>9. old \in Nat /\ n \in Nat
  BY <1>1, <1>7, <1>8, LenProperties
<1>10. Tailed(payload) \in Seq(Byte)
  BY <1>8, TailedIs
<1>11. bytes \in Seq(Byte) /\ Len(bytes) = len
  <2>1. (200 + calls) % 256 \in Byte
    BY <1>3 DEF Byte
  <2>. QED BY <1>1, <1>3, <2>1, FillIs
<1>12. old + 1 <= n + 1
  <2>1. Len(options) \in Nat
    BY <1>7, LenProperties
  <2>2. 1 \in 1..Len(options) + 1
    BY <2>1
  <2>3. pos[1] \in Nat /\ pos[1] >= 1 + old /\ pos[1] <= n + 1
    BY <1>1, <1>6, <1>7, <1>9, <1>10, <2>2, PlacesRise
  <2>. QED BY <1>9, <2>3
<1>13. PICK rest : rest = Rest(p, old + 1)
  OBVIOUS
<1>14. /\ rest \in Seq(Byte) /\ Len(rest) = n + 1 - (old + 1)
       /\ \A i \in 1..n + 1 - (old + 1) : rest[i] = p[(old + 1) + i - 1]
  <2>1. old + 1 \in Nat \ {0}
    BY <1>9
  <2>. QED BY <1>1, <1>7, <1>12, <1>13, <2>1, RestIs
<1>15. /\ q \in Seq(Byte) /\ Len(q) = len + (n + 1 - (old + 1))
       /\ \A i \in 1..len : q[i] = bytes[i]
       /\ \A i \in 1..n + 1 - (old + 1) : q[len + i] = rest[i]
  <2>1. q = bytes \o rest
    BY <1>1, <1>2, <1>13
  <2>2. bytes \in Seq(Byte) /\ rest \in Seq(Byte)
    BY <1>11, <1>14
  <2>3. /\ q \in Seq(Byte) /\ Len(q) = Len(bytes) + Len(rest)
        /\ \A i \in 1..Len(bytes) : q[i] = bytes[i]
        /\ \A i \in 1..Len(rest) : q[Len(bytes) + i] = rest[i]
    BY <2>1, <2>2, Joined
  <2>. QED BY <1>11, <1>14, <2>3
<1>16. PICK by \in Int : by = len - old
  BY <1>3, <1>9
<1>17. Len(q) = n + by /\ len = old + by
  BY <1>3, <1>9, <1>15, <1>16
<1>18. \A j \in old + 1..n : q[j + by] = p[j]
  <2>. SUFFICES ASSUME NEW j \in old + 1..n
                PROVE  q[j + by] = p[j]
    OBVIOUS
  <2>1. PICK i \in 1..n + 1 - (old + 1) : i = j - old
    BY <1>9
  <2>2. len + i = j + by /\ (old + 1) + i - 1 = j
    BY <1>3, <1>9, <1>16, <2>1
  <2>. QED BY <1>14, <1>15, <2>1, <2>2
<1>19. \E new : Laid(q, len, options, new, Tailed(payload))
  <2>1. PICK tail : tail = Tailed(payload)
    OBVIOUS
  <2>2. /\ p \in Seq(Byte) /\ q \in Seq(Byte) /\ tail \in Seq(Byte)
        /\ options \in Seq(Opt) /\ Risen(options)
        /\ old \in Nat /\ len \in Nat
    BY <1>3, <1>7, <1>9, <1>10, <1>15, <2>1
  <2>3. Len(q) = Len(p) + by /\ len = old + by /\ \A j \in old + 1..Len(p) : q[j + by] = p[j]
    BY <1>1, <1>17, <1>18
  <2>4. Laid(p, old, options, pos, tail)
    BY <1>6, <2>1
  <2>5. \E new : Laid(q, len, options, new, tail)
    BY <2>2, <2>3, <2>4, ShiftLaid
  <2>. QED BY <2>1, <2>5
<1>20. PICK now : now = [pdu |-> q, max |-> _maxAddedOptionNumber, num |-> _numOptions,
                         opts |-> options, full |-> FALSE, refused |-> refused,
                         misled |-> misled]
  OBVIOUS
<1>21. Sound(now, bytes, payload)
  BY <1>2, <1>7, <1>11, <1>15, <1>19, <1>20 DEF Sound
<1>22. AsItIs' = now
  BY <1>1, <1>2, <1>20 DEF AsItIs
<1>. QED BY <1>2, <1>21, <1>22

LEMMA TokenKeeps ==
    ASSUME ShortMessages, PduInv, NEW len \in Tokens, setToken(len), calls' \in 0..MaxCalls
    PROVE  PduInv'
<1>1. PICK bytes, moved : /\ bytes = Fill(len, (200 + calls) % 256)
                          /\ moved = bytes \o Rest(pdu, Len(token) + 1)
  OBVIOUS
<1>2. /\ len > 0 /\ Len(moved) <= Room /\ pdu' = moved /\ token' = bytes
      /\ UNCHANGED <<version, code, _numOptions, _maxAddedOptionNumber, _payloadPointer,
                     _payloadLength, options, payload, refused, misled>>
  BY <1>1 DEF setToken
<1>3. len \in Nat /\ len <= 8 /\ calls \in Nat
  BY DEF ShortMessages, PduInv
<1>4. bytes \in Seq(Byte) /\ Len(bytes) = len
  <2>1. (200 + calls) % 256 \in Byte
    BY <1>3 DEF Byte
  <2>. QED BY <1>1, <1>3, <2>1, FillIs
<1>5. /\ Typed(AsItIs)
      /\ ~misled => Sound(AsItIs, token, payload)
      /\ ~refused => _maxAddedOptionNumber = Top(options)
  BY DEF PduInv, Whole, AsItIs
<1>6. moved \in Seq(Byte)
  <2>1. Len(token) + 1 \in Nat \ {0} /\ pdu \in Seq(Byte)
    <3>1. token \in Seq(Byte) /\ pdu \in Seq(Byte)
      BY <1>5 DEF PduInv, Typed, AsItIs
    <3>. QED BY <3>1, LenProperties
  <2>2. Rest(pdu, Len(token) + 1) \in Seq(Byte)
    BY <2>1, RestTyped
  <2>. QED BY <1>1, <1>4, <2>2, Joined
<1>7. PICK now : now = AsItIs'
  OBVIOUS
<1>8. /\ now.pdu = moved /\ now.max = _maxAddedOptionNumber /\ now.num = _numOptions
      /\ now.opts = options /\ now.refused = refused /\ now.misled = misled
  BY <1>2, <1>7 DEF AsItIs
<1>9. Typed(now)
  BY <1>2, <1>5, <1>6, <1>8 DEF Typed, AsItIs
<1>10. ~misled => Sound(AsItIs', token', payload')
  BY <1>5, TokenLaid
<1>11. Whole(AsItIs', token', payload')
  BY <1>5, <1>7, <1>8, <1>9, <1>10 DEF Whole
<1>12. Whole(AsItIs, token, payload)'
  BY <1>11, PrimedWhole
<1>. QED BY <1>2, <1>3, <1>4, <1>12 DEF PduInv

(* mallocPayload and setPayload keep the message sound when there is no    *)
(* payload yet.                                                            *)
LEMMA PayloadLaid ==
    ASSUME ShortMessages, ~AnyOrder, PduInv, NEW len \in Payloads, setPayload(len),
           Sound(AsItIs, token, payload)
    PROVE  Sound(AsItIs', token', payload')
<1>1. PICK bytes, p, q, n, word : /\ bytes = Fill(len, (240 + calls) % 256) /\ p = pdu /\ q = pdu'
                                  /\ n = Len(p) /\ word = token
  OBVIOUS
<1>2. /\ len > 0 /\ _payloadLength = 0 /\ NewLength(len) <= Room
      /\ _payloadLength' = len /\ payload' = bytes
      /\ UNCHANGED <<version, code, _numOptions, _maxAddedOptionNumber, options, token,
                     refused, misled>>
  BY <1>1 DEF setPayload
<1>3. len \in Nat /\ calls \in Nat /\ Room \in Nat
  BY DEF ShortMessages, PduInv
<1>4. payload = <<>> /\ _payloadPointer = 0
  <2>1. /\ payload \in Seq(Byte) /\ _payloadLength = Len(payload)
        /\ payload = <<>> => _payloadPointer = 0
    BY DEF PduInv
  <2>2. payload = <<>>
    BY <1>2, <2>1, EmptySeq
  <2>. QED BY <2>1, <2>2
<1>5. PICK m : m = AsItIs /\ Sound(m, word, <<>>)
  BY <1>1, <1>4
<1>6. /\ m.pdu = p /\ m.opts = options /\ m.num = _numOptions
  BY <1>1, <1>5 DEF AsItIs
<1>7. Tailed(<<>>) = <<>>
  BY DEF Tailed
<1>8. PICK pos : Laid(p, Len(word), options, pos, <<>>)
  BY <1>5, <1>6, <1>7 DEF Sound
<1>9. /\ p \in Seq(Byte) /\ options \in Seq(Opt) /\ Risen(options)
      /\ _numOptions = Len(options)
      /\ \A j \in 1..Len(word) : p[j] = word[j]
  BY <1>5, <1>6 DEF Sound
<1>10. word \in Seq(Byte) /\ Len(word) \in Nat /\ n \in Nat
  <2>1. word \in Seq(Byte)
    BY <1>1 DEF PduInv
  <2>. QED BY <1>1, <1>9, <2>1, LenProperties
<1>11. bytes \in Seq(Byte) /\ Len(bytes) = len
  <2>1. (240 + calls) % 256 \in Byte
    BY <1>3 DEF Byte
  <2>. QED BY <1>1, <1>3, <2>1, FillIs
<1>12. bytes # <<>>
  <2>1. Len(<<>>) = 0
    BY EmptySeq
  <2>. QED BY <1>2, <1>11, <2>1
<1>13. NewLength(len) = n + len + 1
  BY <1>1, <1>2 DEF NewLength
<1>14. q = [i \in 1..n + len + 1 |->
              IF i \in n + 2..(n + 2) + len - 1 THEN bytes[i - (n + 2) + 1]
              ELSE IF i = (n + 2) - 1 THEN Marker
              ELSE IF i <= n THEN p[i] ELSE Garbage]
  <2>1. PayloadStart = n + 2
    BY <1>1, <1>4 DEF PayloadStart
  <2>2. q = Written(p, NewLength(len), PayloadStart, bytes, _payloadPointer = 0)
    BY <1>1 DEF setPayload
  <2>3. Written(p, n + len + 1, n + 2, bytes, TRUE)
           = [i \in 1..n + len + 1 |->
              IF i \in n + 2..(n + 2) + len - 1 THEN bytes[i - (n + 2) + 1]
              ELSE IF i = (n + 2) - 1 THEN Marker
              ELSE IF i <= n THEN p[i] ELSE Garbage]
    BY <1>1, <1>11 DEF Written
  <2>4. (_payloadPointer = 0) = TRUE
    BY <1>4
  <2>. QED BY <1>13, <2>1, <2>2, <2>3, <2>4
<1>15. \A i \in 1..n : q[i] = p[i]
  <2>. SUFFICES ASSUME NEW i \in 1..n
                PROVE  q[i] = p[i]
    OBVIOUS
  <2>1. i \in 1..n + len + 1 /\ i \notin n + 2..(n + 2) + len - 1 /\ i # (n + 2) - 1 /\ i <= n
    BY <1>3, <1>10
  <2>. QED BY <1>14, <2>1
<1>16. q[n + 1] = Marker
  <2>1. n + 1 \in 1..n + len + 1 /\ n + 1 \notin n + 2..(n + 2) + len - 1 /\ n + 1 = (n + 2) - 1
    BY <1>3, <1>10
  <2>. QED BY <1>14, <2>1
<1>17. \A i \in 1..len : q[(n + 2) + i - 1] = bytes[i]
  <2>. SUFFICES ASSUME NEW i \in 1..len
                PROVE  q[(n + 2) + i - 1] = bytes[i]
    OBVIOUS
  <2>1. PICK j \in Int : j = (n + 2) + i - 1
    BY <1>10
  <2>2. j \in 1..n + len + 1 /\ j \in n + 2..(n + 2) + len - 1 /\ j - (n + 2) + 1 = i
    BY <1>3, <1>10, <2>1
  <2>3. q[j] = bytes[j - (n + 2) + 1]
    BY <1>14, <2>2
  <2>. QED BY <2>1, <2>2, <2>3
<1>18. q \in Seq(Byte) /\ Len(q) = n + len + 1
  <2>1. ASSUME NEW i \in 1..n + len + 1
        PROVE  q[i] \in Byte
    <3>1. CASE i <= n
      <4>1. i \in 1..n
        BY <3>1, <1>10
      <4>2. p[i] \in Byte
        BY <1>1, <1>9, <4>1, ElementOfSeq
      <4>. QED BY <1>15, <4>1, <4>2
    <3>2. CASE i = n + 1
      BY <1>16, <3>2 DEF Marker, Byte
    <3>3. CASE i > n + 1
      <4>1. PICK j \in 1..len : (n + 2) + j - 1 = i
        <5>1. i - n - 1 \in 1..len /\ (n + 2) + (i - n - 1) - 1 = i
          BY <1>3, <1>10, <3>3
        <5>. QED BY <5>1
      <4>2. bytes[j] \in Byte
        BY <1>11, ElementOfSeq
      <4>. QED BY <1>17, <4>1, <4>2
    <3>. QED BY <1>10, <3>1, <3>2, <3>3
  <2>2. q \in [1..n + len + 1 -> Byte]
    <3>1. q = [i \in 1..n + len + 1 |-> q[i]]
      BY <1>14
    <3>. QED BY <2>1, <3>1
  <2>3. n + len + 1 \in Nat
    BY <1>3, <1>10
  <2>. QED BY <2>2, <2>3
<1>19. PICK tail : tail = Tailed(bytes)
  OBVIOUS
<1>20. /\ tail \in Seq(Byte) /\ Len(tail) = len + 1
       /\ Lies(q, n + 1, tail) <=> q[n + 1] = Marker /\ Lies(q, (n + 1) + 1, bytes)
  <2>1. n + 1 \in Int
    BY <1>10
  <2>. QED BY <1>11, <1>12, <1>19, <2>1, TailedIs
<1>21. Lies(q, (n + 1) + 1, bytes)
  <2>1. \A i \in 1..len : ((n + 1) + 1) + i - 1 = (n + 2) + i - 1
    BY <1>10
  <2>2. \A i \in 1..len : q[((n + 1) + 1) + i - 1] = bytes[i]
    BY <1>17, <2>1
  <2>. QED BY <1>11, <2>2 DEF Lies
<1>22. Laid(q, Len(word), options, pos, tail)
  <2>1. Len(q) = n + Len(tail)
    BY <1>3, <1>10, <1>18, <1>20
  <2>. QED BY <1>1, <1>8, <1>9, <1>10, <1>15, <1>16, <1>18, <1>20, <1>21, <2>1, TailLaid
<1>23. PICK now : now = [pdu |-> q, max |-> _maxAddedOptionNumber, num |-> _numOptions,
                         opts |-> options, full |-> FALSE, refused |-> refused,
                         misled |-> misled]
  OBVIOUS
<1>24. Sound(now, word, bytes)
  <2>1. /\ now.pdu = q /\ now.num = _numOptions /\ now.opts = options
    BY <1>23
  <2>2. Len(q) <= Room
    BY <1>2, <1>13, <1>18
  <2>3. \A j \in 1..Len(word) : q[j] = word[j]
    <3>1. Len(options) \in Nat /\ 1 \in 1..Len(options) + 1
      <4>1. Len(options) \in Nat
        BY <1>9, LenProperties
      <4>. QED BY <4>1
    <3>2. <<>> \in Seq(Byte)
      BY EmptySeq
    <3>3. pos[1] \in Nat /\ pos[1] >= 1 + Len(word) /\ pos[1] <= n + 1
      BY <1>1, <1>8, <1>9, <1>10, <3>1, <3>2, PlacesRise
    <3>4. Len(word) <= n
      BY <1>10, <3>3
    <3>5. \A j \in 1..Len(word) : j \in 1..n
      BY <1>10, <3>4
    <3>. QED BY <1>9, <1>15, <3>5
  <2>. QED BY <1>9, <1>18, <1>19, <1>22, <2>1, <2>2, <2>3 DEF Sound
<1>25. AsItIs' = now
  BY <1>1, <1>2, <1>23 DEF AsItIs
<1>. QED BY <1>1, <1>2, <1>24, <1>25

LEMMA PayloadKeeps ==
    ASSUME ShortMessages, ~AnyOrder, PduInv, NEW len \in Payloads, setPayload(len),
           calls' \in 0..MaxCalls
    PROVE  PduInv'
<1>1. PICK bytes, p, q, n, at, size : /\ bytes = Fill(len, (240 + calls) % 256) /\ p = pdu
                                      /\ q = pdu' /\ n = Len(p) /\ at = PayloadStart
                                      /\ size = NewLength(len)
  OBVIOUS
<1>2. /\ len > 0 /\ _payloadLength = 0 /\ size <= Room
      /\ _payloadLength' = len /\ payload' = bytes
      /\ q = Written(p, size, at, bytes, _payloadPointer = 0)
      /\ UNCHANGED <<version, code, _numOptions, _maxAddedOptionNumber, options, token,
                     refused, misled>>
  BY <1>1 DEF setPayload
<1>3. len \in Nat /\ calls \in Nat /\ Room \in Nat
  BY DEF ShortMessages, PduInv
<1>4. /\ Typed(AsItIs)
      /\ ~misled => Sound(AsItIs, token, payload)
      /\ ~refused => _maxAddedOptionNumber = Top(options)
  BY DEF PduInv, Whole, AsItIs
<1>5. p \in Seq(Byte) /\ n \in Nat
  <2>1. p \in Seq(Byte)
    BY <1>1, <1>4 DEF Typed, AsItIs
  <2>. QED BY <1>1, <2>1, LenProperties
<1>6. bytes \in Seq(Byte) /\ Len(bytes) = len
  <2>1. (240 + calls) % 256 \in Byte
    BY <1>3 DEF Byte
  <2>. QED BY <1>1, <1>3, <2>1, FillIs
<1>7. bytes # <<>>
  <2>1. Len(<<>>) = 0
    BY EmptySeq
  <2>. QED BY <1>2, <1>6, <2>1
<1>8. size = n + len + 1 /\ at = n + 2
  <2>1. /\ payload \in Seq(Byte) /\ _payloadLength = Len(payload)
        /\ payload = <<>> => _payloadPointer = 0
    BY DEF PduInv
  <2>2. _payloadPointer = 0
    BY <1>2, <2>1, EmptySeq
  <2>. QED BY <1>1, <1>2, <2>2 DEF NewLength, PayloadStart
<1>9. q \in Seq(Byte) /\ Len(q) <= Room
  <2>1. ASSUME NEW i \in 1..size
        PROVE  q[i] \in Byte
    <3>1. q[i] = IF i \in at..at + Len(bytes) - 1 THEN bytes[i - at + 1]
                 ELSE IF i = at - 1 /\ _payloadPointer = 0 THEN Marker
                 ELSE IF i <= Len(p) THEN p[i] ELSE Garbage
      BY <1>2 DEF Written
    <3>2. i \in at..at + Len(bytes) - 1 => bytes[i - at + 1] \in Byte
      <4>. SUFFICES ASSUME i \in at..at + len - 1
                    PROVE  bytes[i - at + 1] \in Byte
        BY <1>6
      <4>1. i - at + 1 \in 1..len
        BY <1>3, <1>5, <1>8
      <4>. QED BY <1>6, <4>1, ElementOfSeq
    <3>3. i <= Len(p) => p[i] \in Byte
      <4>. SUFFICES ASSUME i <= n
                    PROVE  p[i] \in Byte
        BY <1>1
      <4>1. i \in 1..Len(p)
        BY <1>1, <1>5
      <4>. QED BY <1>5, <4>1, ElementOfSeq
    <3>4. Marker \in Byte /\ Garbage \in Byte
      BY DEF Marker, Garbage, Byte
    <3>. QED BY <3>1, <3>2, <3>3, <3>4
  <2>2. size \in Nat
    BY <1>3, <1>5, <1>8
  <2>3. q \in [1..size -> Byte]
    <3>1. q = [i \in 1..size |-> q[i]]
      BY <1>2 DEF Written
    <3>. QED BY <2>1, <3>1
  <2>. QED BY <1>2, <2>2, <2>3
<1>10. PICK now : now = AsItIs'
  OBVIOUS
<1>11. /\ now.pdu = q /\ now.max = _maxAddedOptionNumber /\ now.num = _numOptions
       /\ now.opts = options /\ now.refused = refused /\ now.misled = misled
  BY <1>1, <1>2, <1>10 DEF AsItIs
<1>12. Typed(now)
  BY <1>4, <1>9, <1>11 DEF Typed, AsItIs
<1>13. ~misled => Sound(AsItIs', token', payload')
  BY <1>4, PayloadLaid
<1>14. Whole(AsItIs', token', payload')
  BY <1>4, <1>10, <1>11, <1>12, <1>13 DEF Whole
<1>15. Whole(AsItIs, token, payload)'
  BY <1>14, PrimedWhole
<1>16. /\ token \in Seq(Byte) /\ Len(token) <= 8 /\ version \in {0, 1} /\ code \in Codes \cup {0}
  BY DEF PduInv
<1>. QED BY <1>2, <1>6, <1>7, <1>15, <1>16 DEF PduInv

(* The options the calls add.                                              *)
LEMMA OptIs ==
    ASSUME ShortMessages, calls \in Nat, NEW len \in 0..268, NEW i \in Nat,
           NEW number \in Numbers \cup {URI_PATH, CONTENT_FORMAT, URI_QUERY}
    PROVE  [number |-> number, value |-> Value(len, i)] \in Opt
<1>1. number \in Differences
  <2>1. URI_PATH \in Differences /\ CONTENT_FORMAT \in Differences /\ URI_QUERY \in Differences
    BY SMT DEF URI_PATH, CONTENT_FORMAT, URI_QUERY, Differences
  <2>2. Numbers \subseteq Differences
    BY DEF ShortMessages
  <2>. QED BY <2>1, <2>2
<1>2. number \in Known
  BY <1>1 DEF Known
<1>3. Value(len, i) \in Values
  BY ValueIs
<1>. QED BY <1>2, <1>3 DEF Opt

(* A single option.                                                        *)
LEMMA OneAdded ==
    ASSUME ShortMessages, PduInv, NEW len \in Lengths,
           NEW number \in Numbers \cup {URI_PATH, CONTENT_FORMAT, URI_QUERY}
    PROVE  <<[number |-> number, value |-> Value(len, 1)]>> \in Seq(Opt)
<1>1. len \in 0..268 /\ calls \in Nat /\ 1 \in Nat
  BY DEF ShortMessages, PduInv
<1>2. PICK o : o = [number |-> number, value |-> Value(len, 1)]
  OBVIOUS
<1>3. o \in Opt
  BY <1>1, <1>2, OptIs
<1>4. <<o>> \in Seq(Opt)
  BY <1>3
<1>. QED BY <1>2, <1>4

(* The options of a URI.                                                   *)
LEMMA SegmentsAdded ==
    ASSUME ShortMessages, PduInv, NEW uri \in Uris
    PROVE  Segments(uri) \in Seq(Opt)
<1>1. calls \in Nat
  BY DEF ShortMessages, PduInv
<1>2. uri.path \in Seq(0..268) /\ uri.query \in Seq(0..268)
  BY DEF ShortMessages
<1>3. PICK a, b :
        /\ a = [i \in DOMAIN uri.path |-> [number |-> URI_PATH, value |-> Value(uri.path[i], i)]]
        /\ b = [i \in DOMAIN uri.query |->
                  [number |-> URI_QUERY, value |-> Value(uri.query[i], 5 + i)]]
  OBVIOUS
<1>4. a \in Seq(Opt)
  <2>1. PICK n \in Nat : n = Len(uri.path) /\ DOMAIN uri.path = 1..n
    BY <1>2, LenProperties
  <2>2. ASSUME NEW i \in 1..n
        PROVE  [number |-> URI_PATH, value |-> Value(uri.path[i], i)] \in Opt
    <3>1. uri.path[i] \in 0..268
      <4>1. PICK s : s = uri.path
        OBVIOUS
      <4>2. s \in Seq(0..268) /\ i \in 1..Len(s)
        BY <1>2, <2>1, <4>1
      <4>3. s[i] \in 0..268
        BY <4>2, ElementOfSeq
      <4>. QED BY <4>1, <4>3
    <3>2. i \in Nat
      OBVIOUS
    <3>. QED BY <1>1, <3>1, <3>2, OptIs
  <2>3. a \in [1..n -> Opt]
    BY <1>3, <2>1, <2>2
  <2>. QED BY <2>3, IsASeq
<1>5. b \in Seq(Opt)
  <2>1. PICK n \in Nat : n = Len(uri.query) /\ DOMAIN uri.query = 1..n
    BY <1>2, LenProperties
  <2>2. ASSUME NEW i \in 1..n
        PROVE  [number |-> URI_QUERY, value |-> Value(uri.query[i], 5 + i)] \in Opt
    <3>1. uri.query[i] \in 0..268
      <4>1. PICK s : s = uri.query
        OBVIOUS
      <4>2. s \in Seq(0..268) /\ i \in 1..Len(s)
        BY <1>2, <2>1, <4>1
      <4>3. s[i] \in 0..268
        BY <4>2, ElementOfSeq
      <4>. QED BY <4>1, <4>3
    <3>2. 5 + i \in Nat
      OBVIOUS
    <3>. QED BY <1>1, <3>1, <3>2, OptIs
  <2>3. b \in [1..n -> Opt]
    BY <1>3, <2>1, <2>2
  <2>. QED BY <2>3, IsASeq
<1>6. <<>> \in Seq(Opt)
  BY EmptySeq
<1>7. PICK c : c = IF uri.query = <<1>> THEN <<>> ELSE b
  OBVIOUS
<1>8. c \in Seq(Opt)
  BY <1>5, <1>6, <1>7
<1>9. Segments(uri) = a \o c
  BY <1>3, <1>7 DEF Segments
<1>10. a \o c \in Seq(Opt)
  BY <1>4, <1>8, JoinedOf
<1>. QED BY <1>9, <1>10

(* A message that stays as it is.                                          *)
LEMMA SameStays ==
    ASSUME PduInv, UNCHANGED <<pdu, _numOptions, _maxAddedOptionNumber, _payloadPointer,
                               _payloadLength, options, token, payload, refused, misled>>,
           version' = version, code' \in Codes \cup {0}, calls' \in 0..MaxCalls
    PROVE  PduInv'
<1>1. Whole(AsItIs, token, payload)
  BY DEF PduInv
<1>2. AsItIs' = AsItIs
  BY DEF AsItIs
<1>3. Whole(AsItIs, token, payload)'
  BY <1>1, <1>2, PrimedWhole
<1>. QED BY <1>3 DEF PduInv

(* reset leaves an empty message.                                          *)
LEMMA ResetKeeps ==
    ASSUME ShortMessages, PduInv, reset, calls' \in 0..MaxCalls
    PROVE  PduInv'
<1>1. /\ pdu' = <<>> /\ version' = 0 /\ code' = 0
      /\ _numOptions' = 0 /\ _maxAddedOptionNumber' = 0
      /\ _payloadPointer' = 0 /\ _payloadLength' = 0
      /\ options' = <<>> /\ token' = <<>> /\ payload' = <<>>
      /\ refused' = FALSE /\ misled' = FALSE
  BY DEF reset
<1>2. Room \in Nat
  BY DEF ShortMessages
<1>3. Whole(AsItIs, token, payload)'
  <2>1. PICK m : m = AsItIs'
    OBVIOUS
  <2>2. m.pdu = <<>> /\ m.opts = <<>> /\ m.num = 0 /\ m.max = 0
      /\ m.refused = FALSE /\ m.misled = FALSE
    BY <1>1, <2>1 DEF AsItIs
  <2>3. Whole(m, <<>>, <<>>)
    BY <1>2, <2>2, NothingLaid
  <2>4. Whole(AsItIs', token', payload')
    BY <1>1, <2>1, <2>3
  <2>. QED BY <2>4, PrimedWhole
<1>4. Len(<<>>) = 0 /\ <<>> \in Seq(Byte)
  BY EmptySeq
<1>. QED BY <1>1, <1>3, <1>4 DEF PduInv

(* Every call keeps the message whole.                                     *)
LEMMA StepPduInv ==
    ASSUME ShortMessages, ~AnyOrder, PduInv, [Next]_pduVars
    PROVE  PduInv'
<1>1. CASE UNCHANGED pduVars
  <2>1. code' \in Codes \cup {0} /\ calls' \in 0..MaxCalls
    BY <1>1 DEF pduVars, PduInv
  <2>. QED BY <1>1, <2>1, SameStays DEF pduVars
<1>2. CASE Next
  <2>1. calls' \in 0..MaxCalls
    <3>1. calls \in 0..MaxCalls /\ MaxCalls \in Nat
      BY DEF PduInv, ShortMessages
    <3>2. calls < MaxCalls /\ calls' = calls + 1
      BY <1>2 DEF Next
    <3>. QED BY <3>1, <3>2
  <2>2. ASSUME NEW n \in Numbers, NEW len \in Lengths, addOption(n, len)
        PROVE  PduInv'
    <3>1. <<[number |-> n, value |-> Value(len, 1)]>> \in Seq(Opt)
      BY OneAdded
    <3>. QED BY <2>1, <2>2, <3>1, AddKeeps DEF addOption
  <2>3. ASSUME NEW len \in Lengths, setContentFormat(len)
        PROVE  PduInv'
    <3>1. <<[number |-> CONTENT_FORMAT, value |-> Value(len, 1)]>> \in Seq(Opt)
      BY OneAdded
    <3>. QED BY <2>1, <2>3, <3>1, AddKeeps DEF addOption, setContentFormat
  <2>4. ASSUME NEW len \in Lengths, addURIQuery(len)
        PROVE  PduInv'
    <3>1. <<[number |-> URI_QUERY, value |-> Value(len, 1)]>> \in Seq(Opt)
      BY OneAdded
    <3>. QED BY <2>1, <2>4, <3>1, AddKeeps DEF addOption, addURIQuery
  <2>5. ASSUME NEW uri \in Uris, setURI(uri)
        PROVE  PduInv'
    BY <2>1, <2>5, SegmentsAdded, AddKeeps DEF setURI
  <2>6. ASSUME NEW len \in Tokens, setToken(len)
        PROVE  PduInv'
    BY <2>1, <2>6, TokenKeeps
  <2>7. ASSUME NEW len \in Payloads, setPayload(len)
        PROVE  PduInv'
    BY <2>1, <2>7, PayloadKeeps
  <2>8. ASSUME NEW c \in Codes, setCode(c)
        PROVE  PduInv'
    BY <2>1, <2>8, SameStays DEF setCode
  <2>9. CASE reset
    BY <2>1, <2>9, ResetKeeps
  <2>. QED BY <1>2, <2>2, <2>3, <2>4, <2>5, <2>6, <2>7, <2>8, <2>9 DEF Next
<1>. QED BY <1>1, <1>2

(* The messages are whole whatever is called.                              *)
LEMMA InvariantPdu == ASSUME ShortMessages, ~AnyOrder PROVE Spec => []PduInv
<1>1. Init => PduInv
  BY InitPduInv
<1>2. PduInv /\ [Next]_pduVars => PduInv'
  BY StepPduInv
<1>. QED BY <1>1, <1>2, PTL DEF Spec

(* The type invariant follows.                                             *)
LEMMA TypedPdu == ASSUME ShortMessages, PduInv PROVE TypeOK
<1>1. Typed(AsItIs)
  BY DEF PduInv, Whole
<1>2. /\ pdu \in Seq(Byte) /\ Len(pdu) <= Room /\ _numOptions \in Nat
      /\ _maxAddedOptionNumber \in Known \cup {0} /\ {refused, misled} \subseteq BOOLEAN
  BY <1>1 DEF Typed, AsItIs
<1>3. _maxAddedOptionNumber \in Numbers \cup {0, 11, 12, 15}
  BY <1>2, SMT DEF Known, URI_PATH, CONTENT_FORMAT, URI_QUERY
<1>. QED BY <1>2, <1>3 DEF PduInv, TypeOK, Byte

(* A sound message is read as it was built.                                *)
LEMMA ParsedPdu == ASSUME ShortMessages, PduInv PROVE ParsesAsBuilt
<1>. SUFFICES ASSUME ~misled
              PROVE  ParsesAsBuilt
  BY DEF ParsesAsBuilt
<1>1. /\ Sound(AsItIs, token, payload)
      /\ token \in Seq(Byte) /\ Len(token) <= 8 /\ payload \in Seq(Byte)
  BY DEF PduInv, Whole, AsItIs
<1>2. /\ pdu \in Seq(Byte) /\ options \in Seq(Opt) /\ Risen(options)
      /\ _numOptions = Len(options) /\ \A j \in 1..Len(token) : pdu[j] = token[j]
      /\ \E pos : Laid(pdu, Len(token), options, pos, Tailed(payload))
  BY <1>1 DEF Sound, AsItIs
<1>3. PICK pos : Laid(pdu, Len(token), options, pos, Tailed(payload))
  BY <1>2
<1>4. Len(token) \in Nat /\ Len(pdu) \in Nat
  BY <1>1, <1>2, LenProperties
<1>5. /\ Walk(pdu, Len(token)).valid /\ Walk(pdu, Len(token)).payload = payload
      /\ getOptions = options
  <2>1. PICK p, tkl, opts, body :
            p = pdu /\ tkl = Len(token) /\ opts = options /\ body = payload
    OBVIOUS
  <2>2. /\ p \in Seq(Byte) /\ tkl \in Nat /\ opts \in Seq(Opt) /\ Risen(opts) /\ body \in Seq(Byte)
        /\ Laid(p, tkl, opts, pos, Tailed(body))
    BY <1>1, <1>2, <1>3, <1>4, <2>1
  <2>3. /\ Walk(p, tkl).valid /\ Walk(p, tkl).payload = body
        /\ OptionsOf(Walk(p, tkl)) = opts
    BY <2>2, WhatIsRead
  <2>. QED BY <2>1, <2>3 DEF getOptions
<1>6. Cat(pdu, 1, Len(token)) = token
  <2>1. Len(token) <= Len(pdu)
    <3>1. Tailed(payload) \in Seq(Byte)
      BY <1>1, TailedIs
    <3>2. PICK n \in Nat : n = Len(options)
      BY <1>2, LenProperties
    <3>3. 1 \in 1..n + 1
      OBVIOUS
    <3>4. pos[1] \in Nat /\ pos[1] >= 1 + Len(token) /\ pos[1] <= Len(pdu) + 1
      BY <1>2, <1>3, <1>4, <3>1, <3>2, <3>3, PlacesRise
    <3>. QED BY <1>4, <3>4
  <2>2. PICK t : t = Len(token)
    OBVIOUS
  <2>3. 1 + t - 1 = t /\ 1 + t - 1 <= Len(pdu) /\ 1 \in Nat \ {0}
    BY <1>4, <2>1, <2>2
  <2>4. Lies(pdu, 1, token)
    <3>1. \A i \in 1..Len(token) : 1 + i - 1 = i
      BY <1>4
    <3>. QED BY <1>2, <3>1 DEF Lies
  <2>5. Cat(pdu, 1, 1 + Len(token) - 1) = token
    BY <1>1, <1>2, <2>2, <2>3, <2>4, CatLies
  <2>. QED BY <2>2, <2>3, <2>5
<1>. QED BY <1>1, <1>2, <1>5, <1>6 DEF ParsesAsBuilt, validate

(* The value of every variable: the bytes of the message are bytes and     *)
(* they fit, and the highest number noted is that of an option that was    *)
(* given to addOption, put in or refused (CoapPDU, cantcoap.cpp).  It      *)
(* holds also where the message no longer parses as it was built.          *)
THEOREM PduTypes == ASSUME ShortMessages, ~AnyOrder PROVE Spec => []TypeOK
<1>1. PduInv => TypeOK
  BY TypedPdu
<1>. QED BY <1>1, InvariantPdu, PTL

(* However many options of whatever numbers and lengths, tokens and        *)
(* payloads are put in, in whatever order wsn.cpp may call, the receiver   *)
(* finds all of them: addOption, setToken and setPayload are undone by     *)
(* validate and getOptions.  Options refused for want of room do it no     *)
(* harm until another is put in behind a refusal: where that has happened  *)
(* since the last reset nothing is claimed.                                *)
THEOREM MessageParsesAsBuilt == ASSUME ShortMessages, ~AnyOrder PROVE Spec => []ParsesAsBuilt
<1>1. PduInv => ParsesAsBuilt
  BY ParsedPdu
<1>. QED BY <1>1, InvariantPdu, PTL

=============================================================================
