---------------------------- MODULE PairingProofs ----------------------------
(***************************************************************************)
(* Theorems of Pairing, for any number of devices, any pairs, any sizes of *)
(* pool, queue and descriptor table, and power losses and commands at any  *)
(* time, except where a theorem excludes a power loss inside a removal     *)
(* (MidRewrite) or commands before the boot loop is done (EarlyTraffic).   *)
(***************************************************************************)
EXTENDS Pairing, SequenceTheorems, WellFoundedInduction, TLAPS

(* Everything that points at a block points at one in use. *)
PointersOK ==
    /\ \A d \in Devices : \A i \in 1..Len(pairs[d]) : pairs[d][i] <= allocated
    /\ \A i \in 1..Len(queue) : queue[i] <= allocated
    /\ \A o \in observees : o.block <= allocated

(* A block in use holds a pair, and its sub-URL is set. *)
BlocksFilled ==
    \A b \in Blocks : b <= allocated => blk[b].rec \in Records /\ blk[b].suburl \in Urls

Running ==
    /\ phase \in {"coap", "restore"} => restored < NDev
    /\ phase = "off" => restored = 0

(* The parts of TypeOK, so that a step need only look at those it changes. *)
MemTypes ==
    /\ blk \in [Blocks -> [dev : Devices, rec : Records \cup {NoRecord},
                           suburl : Urls \cup {NoUrl}]]
    /\ allocated \in 0..PoolSize
    /\ pairs \in [Devices -> Seq(Blocks)]
ProcTypes ==
    /\ queue \in Seq(Blocks) /\ Len(queue) <= QueueMax
    /\ observees \subseteq [block : Blocks, dst : {r.dst : r \in Records}, url : Urls]
    /\ handler \in [Devices -> {r.action : r \in Records} \cup {NoHandler}]
FlashTypes ==
    /\ present \subseteq Devices
    /\ file \in [Devices -> Seq(Records)]
    /\ temp \in Seq(Records)
CtlTypes ==
    /\ phase \in {"off", "coap", "restore", "on"}
    /\ restored \in 0..NDev
    /\ leaked \in 0..MaxFd
    /\ crashes \in 0..MaxCrashes
RmTypes == rm \in [step : {"none", "copy out", "copy back"}, dev : Devices,
                   drop : SUBSET Nat, at : Nat \ {0}, kept : Nat]

Inv ==
    /\ MemTypes /\ ProcTypes /\ FlashTypes /\ CtlTypes /\ RmTypes /\ answer \in Answers
    /\ Running /\ PointersOK /\ BlocksFilled

LEMMA InvImpliesTypeOK == Inv => TypeOK
BY DEF Inv, TypeOK, MemTypes, ProcTypes, FlashTypes, CtlTypes, RmTypes

-----------------------------------------------------------------------------
(* Lemmas. *)

LEMMA Sizes ==
    /\ NDev \in Nat \ {0} /\ PoolSize \in Nat \ {0} /\ QueueMax \in Nat \ {0}
    /\ MaxFd \in Nat \ {0} /\ MaxCrashes \in Nat
    /\ 1 \in Devices
BY PairingSizes DEF PairingSizes, Devices

LEMMA ElementsAreNat ==
    ASSUME NEW s \in Seq(Blocks)
    PROVE  \A i \in 1..Len(s) : s[i] \in Nat
<1>1. \A i \in 1..Len(s) : s[i] \in Blocks
  OBVIOUS
<1>2. \A b \in Blocks : b \in Nat
  BY Sizes DEF Blocks
<1>. QED BY <1>1, <1>2

(* Posting events leaves a queue of their blocks and of those it had. *)
LEMMA EnqueuedFacts ==
    ASSUME queue \in Seq(Blocks), NEW new \in Seq(Blocks), NEW n \in Nat,
           \A i \in 1..Len(queue) : queue[i] <= n,
           \A i \in 1..Len(new) : new[i] <= n
    PROVE  /\ Enqueued(new) \in Seq(Blocks)
           /\ Len(Enqueued(new)) <= QueueMax
           /\ \A i \in 1..Len(Enqueued(new)) : Enqueued(new)[i] <= n
<1> DEFINE q == queue \o new
<1>1. /\ q \in Seq(Blocks)
      /\ Len(q) = Len(queue) + Len(new)
      /\ \A i \in 1..Len(queue) + Len(new) :
            q[i] = IF i <= Len(queue) THEN queue[i] ELSE new[i - Len(queue)]
  BY ConcatProperties
<1>2. \A i \in 1..Len(q) : q[i] <= n
  <2>. HIDE DEF q
  <2>1. ASSUME NEW i \in 1..Len(queue) + Len(new)
        PROVE  q[i] <= n
    <3>1. CASE i <= Len(queue)
      BY <1>1, <3>1
    <3>2. CASE ~(i <= Len(queue))
      <4>1. i - Len(queue) \in 1..Len(new)
        BY <3>2
      <4>. QED BY <1>1, <3>2, <4>1
    <3>. QED BY <3>1, <3>2
  <2>. QED BY <1>1, <2>1
<1>3. CASE Len(queue) + Len(new) <= QueueMax
  BY <1>1, <1>2, <1>3 DEF Enqueued
<1>4. CASE ~(Len(queue) + Len(new) <= QueueMax)
  <2> DEFINE s == SubSeq(q, 1, QueueMax)
  <2>. HIDE DEF q
  <2>1. Enqueued(new) = s
    BY <1>4 DEF Enqueued, q
  <2>2. \A i \in 1..QueueMax : i \in 1..Len(q) /\ q[i] \in Blocks
    BY <1>1, <1>4, Sizes
  <2>3. /\ s \in Seq(Blocks)
        /\ Len(s) = QueueMax
        /\ \A i \in 1..QueueMax : s[i] = q[i]
    <3>1. 1 \in Int /\ QueueMax \in Int /\ 1 <= QueueMax /\ QueueMax - 1 + 1 = QueueMax
      BY Sizes
    <3>. HIDE DEF s
    <3>2. /\ s \in Seq(Blocks)
          /\ Len(s) = IF 1 <= QueueMax THEN QueueMax - 1 + 1 ELSE 0
          /\ \A i \in 1..QueueMax - 1 + 1 : s[i] = q[1 + i - 1]
      BY <2>2, <3>1, SubSeqProperties DEF s
    <3>. QED BY <3>1, <3>2
  <2>. HIDE DEF s
  <2>. QED BY <1>2, <2>1, <2>2, <2>3, Sizes
<1>. QED BY <1>3, <1>4

(* What parseMessage puts in a block. *)
LEMMA FilledFacts ==
    ASSUME MemTypes, NEW b \in Blocks, NEW d \in Devices, NEW r \in Records
    PROVE  /\ Filled(b, d, r) \in [dev : Devices, rec : Records \cup {NoRecord},
                                   suburl : Urls \cup {NoUrl}]
           /\ Filled(b, d, r).rec = r
           /\ Filled(b, d, r).suburl \in Urls
<1>1. SubUrl(b, r) \in Urls
  BY DEF SubUrl, MemTypes, Urls
<1>. QED BY <1>1 DEF Filled

(* A reset leaves the cleared memory the node starts with. *)
LEMMA AfterReset ==
    ASSUME MemoryLost, FlashTypes', crashes' \in 0..MaxCrashes
    PROVE  Inv'
<1>1. MemTypes'
  BY Sizes DEF MemoryLost, MemTypes, Blank
<1>2. ProcTypes'
  <2>1. queue' = <<>> /\ observees' = {} /\ handler' = [d \in Devices |-> NoHandler]
    BY DEF MemoryLost
  <2>2. <<>> \in Seq(Blocks) /\ Len(<<>>) = 0
    OBVIOUS
  <2>. QED BY <2>1, <2>2, Sizes DEF ProcTypes
<1>3. CtlTypes' /\ Running'
  BY Sizes DEF MemoryLost, CtlTypes, Running
<1>4. RmTypes'
  BY Sizes DEF MemoryLost, RmTypes, Idle
<1>5. answer' \in Answers
  BY Sizes DEF MemoryLost, NoAnswer, Answers
<1>6. PointersOK'
  BY DEF MemoryLost, PointersOK
<1>7. BlocksFilled'
  BY Sizes DEF MemoryLost, BlocksFilled, Blocks
<1>. QED BY <1>1, <1>2, <1>3, <1>4, <1>5, <1>6, <1>7 DEF Inv

-----------------------------------------------------------------------------
(* The invariant. *)

LEMMA InitInv == Init => Inv
<1>. SUFFICES ASSUME Init PROVE Inv
  OBVIOUS
<1>1. MemTypes
  BY Sizes DEF Init, MemTypes, Blank
<1>2. ProcTypes
  <2>1. queue = <<>> /\ observees = {} /\ handler = [d \in Devices |-> NoHandler]
    BY DEF Init
  <2>. QED BY <2>1, Sizes DEF ProcTypes
<1>3. FlashTypes
  BY DEF Init, FlashTypes
<1>4. CtlTypes /\ Running /\ RmTypes
  BY Sizes DEF Init, CtlTypes, Running, RmTypes, Idle
<1>5. answer \in Answers
  BY Sizes DEF Init, NoAnswer, Answers
<1>6. PointersOK /\ BlocksFilled
  BY DEF Init, PointersOK, BlocksFilled, Blocks
<1>. QED BY <1>1, <1>2, <1>3, <1>4, <1>5, <1>6 DEF Inv

(* The boot loop. *)
LEMMA RestoreKeepsInv ==
    ASSUME Inv, RestorePairs PROVE Inv'
<1> DEFINE d == restored + 1
           n == Len(file[d])
           new == [i \in 1..n |-> allocated + i]
<1>0. d \in Devices /\ file[d] \in Seq(Records) /\ n \in Nat /\ allocated \in Nat
  BY Sizes DEF Inv, Running, CtlTypes, FlashTypes, MemTypes, RestorePairs, Devices
<1>1. FlashTypes'
  BY DEF RestorePairs, flashVars, Inv, FlashTypes
<1>2. CASE MemoryLost
  BY <1>1, <1>2, AfterReset DEF RestorePairs, Inv, CtlTypes
<1>3. CASE ~MemoryLost
  <2>1. /\ allocated + n <= PoolSize
        /\ blk' = [b \in Blocks |-> IF b \in allocated + 1..allocated + n
                                      THEN Filled(b, d, file[d][b - allocated]) ELSE blk[b]]
        /\ allocated' = allocated + n
        /\ pairs' = [pairs EXCEPT ![d] = @ \o new]
        /\ queue' = Enqueued(new)
        /\ restored' = d
        /\ phase' = IF d = NDev THEN "on" ELSE "restore"
        /\ answer' = NoAnswer
        /\ UNCHANGED <<observees, handler, leaked, rm, crashes>>
    BY <1>3 DEF RestorePairs
  <2>2. /\ new \in Seq(Blocks) /\ Len(new) = n
        /\ \A i \in 1..Len(new) : new[i] <= allocated + n
    BY <1>0, <2>1, Sizes DEF Blocks
  <2>. HIDE DEF n, new, d
  <2>3. MemTypes' /\ BlocksFilled'
    <3>1. \A b \in Blocks : b \in allocated + 1..allocated + n =>
             file[d][b - allocated] \in Records
      BY <1>0 DEF n, Blocks
    <3>2. MemTypes /\ BlocksFilled
      BY DEF Inv
    <3>3. \A b \in Blocks :
             /\ blk'[b] \in [dev : Devices, rec : Records \cup {NoRecord},
                              suburl : Urls \cup {NoUrl}]
             /\ b <= allocated + n => blk'[b].rec \in Records /\ blk'[b].suburl \in Urls
      <4> SUFFICES ASSUME NEW b \in Blocks
                   PROVE  /\ blk'[b] \in [dev : Devices, rec : Records \cup {NoRecord},
                                           suburl : Urls \cup {NoUrl}]
                          /\ b <= allocated + n =>
                                blk'[b].rec \in Records /\ blk'[b].suburl \in Urls
        OBVIOUS
      <4>1. CASE b \in allocated + 1..allocated + n
        <5>1. blk'[b] = Filled(b, d, file[d][b - allocated])
          BY <2>1, <4>1
        <5>. QED BY <1>0, <3>1, <3>2, <4>1, <5>1, FilledFacts
      <4>2. CASE b \notin allocated + 1..allocated + n
        <5>1. blk'[b] = blk[b]
          BY <2>1, <4>2
        <5>2. b <= allocated + n => b <= allocated
          BY <1>0, <4>2 DEF Blocks
        <5>3. blk[b] \in [dev : Devices, rec : Records \cup {NoRecord},
                          suburl : Urls \cup {NoUrl}]
          BY <3>2 DEF MemTypes
        <5>. QED BY <3>2, <5>1, <5>2, <5>3 DEF BlocksFilled
      <4>. QED BY <4>1, <4>2
    <3>4. pairs' \in [Devices -> Seq(Blocks)]
      <4>1. pairs[d] \o new \in Seq(Blocks)
        BY <1>0, <2>2, <3>2, ConcatProperties DEF MemTypes
      <4>. QED BY <2>1, <3>2, <4>1 DEF MemTypes
    <3>5. allocated' \in 0..PoolSize
      BY <1>0, <2>1, Sizes
    <3>6. blk' \in [Blocks -> [dev : Devices, rec : Records \cup {NoRecord},
                               suburl : Urls \cup {NoUrl}]]
      BY <2>1, <3>3
    <3>. QED BY <2>1, <3>3, <3>4, <3>5, <3>6 DEF MemTypes, BlocksFilled
  <2>4. \A i \in 1..Len(queue) : queue[i] <= allocated + n
    <3>1. queue \in Seq(Blocks)
      BY DEF Inv, ProcTypes
    <3>2. \A i \in 1..Len(queue) : queue[i] \in Nat
      BY <3>1, ElementsAreNat
    <3>3. \A i \in 1..Len(queue) : queue[i] <= allocated
      BY DEF Inv, PointersOK
    <3>. QED BY <1>0, <3>2, <3>3
  <2>5. /\ queue' \in Seq(Blocks) /\ Len(queue') <= QueueMax
        /\ \A i \in 1..Len(queue') : queue'[i] <= allocated'
    <3>1. queue \in Seq(Blocks) /\ allocated + n \in Nat
      BY <1>0 DEF Inv, ProcTypes
    <3>. QED BY <2>1, <2>2, <2>4, <3>1, EnqueuedFacts
  <2>6. ProcTypes'
    BY <2>1, <2>5 DEF Inv, ProcTypes
  <2>7. PointersOK'
    <3>1. ASSUME NEW e \in Devices, NEW i \in 1..Len(pairs'[e])
          PROVE  pairs'[e][i] <= allocated'
      <4>1. pairs[e] \in Seq(Blocks)
        BY DEF Inv, MemTypes
      <4>2. \A j \in 1..Len(pairs[e]) : pairs[e][j] <= allocated + n
        <5>2. \A j \in 1..Len(pairs[e]) : pairs[e][j] \in Nat
          BY <4>1, ElementsAreNat
        <5>3. \A j \in 1..Len(pairs[e]) : pairs[e][j] <= allocated
          BY DEF Inv, PointersOK
        <5>. QED BY <1>0, <5>2, <5>3
      <4>3. CASE e = d
        <5>1. pairs'[e] = pairs[e] \o new
          BY <2>1, <4>3 DEF Inv, MemTypes
        <5>2. /\ Len(pairs[e] \o new) = Len(pairs[e]) + Len(new)
              /\ \A j \in 1..Len(pairs[e]) + Len(new) :
                    (pairs[e] \o new)[j] = IF j <= Len(pairs[e]) THEN pairs[e][j]
                                           ELSE new[j - Len(pairs[e])]
          BY <2>2, <4>1, ConcatProperties
        <5>3. CASE i <= Len(pairs[e])
          BY <2>1, <4>1, <4>2, <5>1, <5>2, <5>3
        <5>4. CASE ~(i <= Len(pairs[e]))
          <6>1. i - Len(pairs[e]) \in 1..Len(new)
            BY <2>2, <4>1, <5>1, <5>2, <5>4
          <6>. QED BY <2>1, <2>2, <4>1, <5>1, <5>2, <5>4, <6>1
        <5>. QED BY <5>3, <5>4
      <4>4. CASE e # d
        BY <2>1, <4>2, <4>4 DEF Inv, MemTypes
      <4>. QED BY <4>3, <4>4
    <3>2. \A o \in observees' : o.block <= allocated'
      BY <1>0, <2>1 DEF Inv, PointersOK, ProcTypes, Blocks
    <3>. QED BY <2>5, <3>1, <3>2 DEF PointersOK
  <2>8. CtlTypes' /\ Running'
    <3>1. d \in 1..NDev /\ NDev \in Nat
      BY <1>0, Sizes DEF Devices
    <3>2. restored' = d /\ UNCHANGED <<leaked, crashes>>
          /\ phase' = IF d = NDev THEN "on" ELSE "restore"
      BY <2>1
    <3>3. CtlTypes
      BY DEF Inv
    <3>4. CASE d = NDev
      BY <3>1, <3>2, <3>3, <3>4 DEF CtlTypes, Running
    <3>5. CASE d # NDev
      BY <3>1, <3>2, <3>3, <3>5 DEF CtlTypes, Running
    <3>. QED BY <3>4, <3>5
  <2>9. RmTypes' /\ answer' \in Answers
    BY <2>1, Sizes DEF Inv, RmTypes, NoAnswer, Answers
  <2>. QED BY <1>1, <2>3, <2>6, <2>7, <2>8, <2>9 DEF Inv
<1>. QED BY <1>2, <1>3

(* The block a join fills is the next one, and it keeps all others. *)
LEMMA FillNextBlock ==
    ASSUME Inv, allocated < PoolSize, NEW d \in Devices, NEW r \in Records,
           blk' = [blk EXCEPT ![NextBlock] = Filled(NextBlock, d, r)]
    PROVE  /\ NextBlock \in Blocks /\ NextBlock = allocated + 1 /\ allocated \in Nat
           /\ blk' \in [Blocks -> [dev : Devices, rec : Records \cup {NoRecord},
                                   suburl : Urls \cup {NoUrl}]]
           /\ \A b \in Blocks : b # NextBlock => blk'[b] = blk[b]
           /\ blk'[NextBlock].rec = r /\ blk'[NextBlock].suburl \in Urls
<1>1. NextBlock \in Blocks /\ NextBlock = allocated + 1 /\ allocated \in Nat
  BY Sizes DEF Inv, MemTypes, NextBlock, Blocks
<1>2. MemTypes /\ blk \in [Blocks -> [dev : Devices, rec : Records \cup {NoRecord},
                                     suburl : Urls \cup {NoUrl}]]
  BY DEF Inv, MemTypes
<1>3. /\ Filled(NextBlock, d, r) \in [dev : Devices, rec : Records \cup {NoRecord},
                                      suburl : Urls \cup {NoUrl}]
      /\ Filled(NextBlock, d, r).rec = r
      /\ Filled(NextBlock, d, r).suburl \in Urls
  BY <1>1, <1>2, FilledFacts
<1>. QED BY <1>1, <1>2, <1>3

LEMMA JoinCreatedKeepsInv ==
    ASSUME Inv, NEW d \in Devices, NEW r \in Records, JoinCreated(d, r)
    PROVE  Inv'
<1>1. /\ NextBlock \in Blocks /\ NextBlock = allocated + 1 /\ allocated \in Nat
      /\ blk' \in [Blocks -> [dev : Devices, rec : Records \cup {NoRecord},
                              suburl : Urls \cup {NoUrl}]]
      /\ \A b \in Blocks : b # NextBlock => blk'[b] = blk[b]
      /\ blk'[NextBlock].rec = r /\ blk'[NextBlock].suburl \in Urls
  BY FillNextBlock DEF JoinCreated
<1>2. /\ allocated' = NextBlock
      /\ pairs' = [pairs EXCEPT ![d] = Append(@, NextBlock)]
      /\ queue' = IF phase = "on" THEN Enqueued(<<NextBlock>>) ELSE queue
      /\ UNCHANGED <<observees, handler>>
  BY DEF JoinCreated
<1>3. \A e \in Devices :
         /\ pairs[e] \in Seq(Blocks)
         /\ \A i \in 1..Len(pairs[e]) : pairs[e][i] \in Nat /\ pairs[e][i] <= allocated
  <2> SUFFICES ASSUME NEW e \in Devices
               PROVE  /\ pairs[e] \in Seq(Blocks)
                      /\ \A i \in 1..Len(pairs[e]) :
                            pairs[e][i] \in Nat /\ pairs[e][i] <= allocated
    OBVIOUS
  <2>1. pairs[e] \in Seq(Blocks)
    BY DEF Inv, MemTypes
  <2>2. \A i \in 1..Len(pairs[e]) : pairs[e][i] \in Nat
    BY <2>1, ElementsAreNat
  <2>. QED BY <2>1, <2>2 DEF Inv, PointersOK
<1>4. MemTypes'
  <2>1. Append(pairs[d], NextBlock) \in Seq(Blocks)
    BY <1>1, <1>3, AppendProperties
  <2>2. pairs' \in [Devices -> Seq(Blocks)]
    BY <1>2, <2>1 DEF Inv, MemTypes
  <2>3. allocated' \in 0..PoolSize
    BY <1>1, <1>2, Sizes DEF Blocks
  <2>. QED BY <1>1, <2>2, <2>3 DEF MemTypes
<1>5. BlocksFilled'
  <2>1. ASSUME NEW b \in Blocks, b <= allocated'
        PROVE  blk'[b].rec \in Records /\ blk'[b].suburl \in Urls
    <3>1. CASE b = NextBlock
      BY <1>1, <3>1
    <3>2. CASE b # NextBlock
      <4>1. b <= allocated
        BY <1>1, <1>2, <2>1, <3>2 DEF Blocks
      <4>. QED BY <1>1, <3>2, <4>1 DEF Inv, BlocksFilled
    <3>. QED BY <3>1, <3>2
  <2>. QED BY <2>1 DEF BlocksFilled
<1>6. /\ queue' \in Seq(Blocks) /\ Len(queue') <= QueueMax
      /\ \A i \in 1..Len(queue') : queue'[i] <= allocated'
  <2>1. /\ queue \in Seq(Blocks) /\ Len(queue) <= QueueMax
        /\ \A i \in 1..Len(queue) : queue[i] <= allocated
    BY DEF Inv, ProcTypes, PointersOK
  <2>2. \A i \in 1..Len(queue) : queue[i] <= NextBlock
    <3>1. \A i \in 1..Len(queue) : queue[i] \in Nat
      BY <2>1, ElementsAreNat
    <3>. QED BY <1>1, <2>1, <3>1
  <2>3. <<NextBlock>> \in Seq(Blocks) /\ \A i \in 1..Len(<<NextBlock>>) :
            <<NextBlock>>[i] <= NextBlock
    BY <1>1
  <2>4. NextBlock \in Nat
    BY <1>1
  <2>5. /\ Enqueued(<<NextBlock>>) \in Seq(Blocks)
        /\ Len(Enqueued(<<NextBlock>>)) <= QueueMax
        /\ \A i \in 1..Len(Enqueued(<<NextBlock>>)) : Enqueued(<<NextBlock>>)[i] <= NextBlock
    BY <2>1, <2>2, <2>3, <2>4, EnqueuedFacts
  <2>6. CASE phase = "on"
    BY <1>2, <2>5, <2>6
  <2>7. CASE phase # "on"
    BY <1>2, <2>1, <2>2, <2>7
  <2>. QED BY <2>6, <2>7
<1>7. ProcTypes'
  BY <1>2, <1>6 DEF Inv, ProcTypes
<1>8. PointersOK'
  <2>1. ASSUME NEW e \in Devices, NEW i \in 1..Len(pairs'[e])
        PROVE  pairs'[e][i] <= allocated'
    <3>1. CASE e = d
      <4>1. pairs'[e] = Append(pairs[e], NextBlock)
        BY <1>2, <3>1 DEF Inv, MemTypes
      <4>2. pairs[e] \in Seq(Blocks) /\ NextBlock \in Blocks
        BY <1>1, <1>3
      <4>3. /\ Len(pairs'[e]) = Len(pairs[e]) + 1
            /\ \A k \in 1..Len(pairs[e]) : pairs'[e][k] = pairs[e][k]
            /\ pairs'[e][Len(pairs[e]) + 1] = NextBlock
            /\ Len(pairs[e]) \in Nat
        BY ONLY <4>1, <4>2, AppendProperties
      <4>4. CASE i = Len(pairs[e]) + 1
        BY <1>1, <1>2, <4>3, <4>4
      <4>5. CASE i \in 1..Len(pairs[e])
        BY <1>1, <1>2, <1>3, <4>3, <4>5
      <4>. QED BY <4>3, <4>4, <4>5
    <3>2. CASE e # d
      BY <1>1, <1>2, <1>3, <3>2
    <3>. QED BY <3>1, <3>2
  <2>2. \A o \in observees' : o.block <= allocated'
    BY <1>1, <1>2 DEF Inv, PointersOK, ProcTypes, Blocks
  <2>. QED BY <1>6, <2>1, <2>2 DEF PointersOK
<1>9. FlashTypes'
  <2>1. CASE leaked < MaxFd
    <3>1. /\ file' = [file EXCEPT ![d] = Append(@, r)]
          /\ present' = present \cup {d} /\ temp' = temp
      BY <2>1 DEF JoinCreated
    <3>2. FlashTypes
      BY DEF Inv
    <3>3. file[d] \in Seq(Records)
      BY <3>2 DEF FlashTypes
    <3>4. Append(file[d], r) \in Seq(Records)
      BY <3>3, AppendProperties
    <3>5. file' \in [Devices -> Seq(Records)]
      BY <3>1, <3>2, <3>4 DEF FlashTypes
    <3>. QED BY <3>1, <3>2, <3>5 DEF FlashTypes
  <2>2. CASE ~(leaked < MaxFd)
    BY <2>2 DEF JoinCreated, Inv, FlashTypes
  <2>. QED BY <2>1, <2>2
<1>10. CtlTypes' /\ Running' /\ RmTypes'
  BY DEF JoinCreated, Inv, CtlTypes, Running, RmTypes
<1>11. answer' \in Answers
  BY DEF JoinCreated, Answered, Answers
<1>. QED BY <1>4, <1>5, <1>7, <1>8, <1>9, <1>10, <1>11 DEF Inv

LEMMA JoinRefusedKeepsInv ==
    ASSUME Inv, NEW d \in Devices, NEW r \in Records, JoinRefused(d, r)
    PROVE  Inv'
<1>1. /\ NextBlock \in Blocks /\ NextBlock = allocated + 1 /\ allocated \in Nat
      /\ blk' \in [Blocks -> [dev : Devices, rec : Records \cup {NoRecord},
                              suburl : Urls \cup {NoUrl}]]
      /\ \A b \in Blocks : b # NextBlock => blk'[b] = blk[b]
  BY FillNextBlock DEF JoinRefused
<1>2. UNCHANGED <<phase, restored, allocated, pairs, procVars, flashVars, leaked, rm,
                  crashes>>
  BY DEF JoinRefused
<1>3. MemTypes'
  BY <1>1, <1>2 DEF Inv, MemTypes
<1>4. BlocksFilled'
  <2>1. \A b \in Blocks : b <= allocated => b # NextBlock
    BY <1>1 DEF Blocks
  <2>. QED BY <1>1, <1>2, <2>1 DEF Inv, BlocksFilled
<1>5. ProcTypes' /\ PointersOK'
  BY <1>2 DEF Inv, ProcTypes, PointersOK, procVars
<1>6. FlashTypes' /\ CtlTypes' /\ Running' /\ RmTypes'
  BY <1>2 DEF Inv, FlashTypes, CtlTypes, Running, RmTypes, flashVars
<1>7. answer' \in Answers
  BY DEF JoinRefused, Answered, Answers
<1>. QED BY <1>3, <1>4, <1>5, <1>6, <1>7 DEF Inv

(* The event is about a block in use, which holds a pair. *)
LEMMA HandlePairKeepsInv ==
    ASSUME Inv, HandlePair
    PROVE  Inv'
<1> DEFINE b == Head(queue)
<1>1. /\ queue \in Seq(Blocks) /\ queue # <<>> /\ Len(queue) <= QueueMax
      /\ \A i \in 1..Len(queue) : queue[i] <= allocated
  BY DEF Inv, ProcTypes, PointersOK, HandlePair
<1>2. b \in Blocks /\ b <= allocated
  <2>1. b = queue[1] /\ 1 \in 1..Len(queue)
    BY <1>1
  <2>. QED BY <1>1, <2>1
<1>3. blk[b].rec \in Records /\ blk[b].suburl \in Urls
  BY <1>2 DEF Inv, BlocksFilled
<1>4. /\ queue' = Tail(queue)
      /\ observees' = observees \cup
             {[block |-> b, dst |-> blk[b].rec.dst, url |-> blk[b].suburl]}
      /\ handler' = [handler EXCEPT ![blk[b].dev] = blk[b].rec.action]
      /\ answer' = NoAnswer
      /\ UNCHANGED <<phase, restored, memVars, flashVars, leaked, rm, crashes>>
  BY DEF HandlePair
<1>. HIDE DEF b
<1>5. /\ queue' \in Seq(Blocks) /\ Len(queue') <= QueueMax
      /\ \A i \in 1..Len(queue') : queue'[i] <= allocated
  <2>1. /\ Tail(queue) \in Seq(Blocks) /\ Len(Tail(queue)) = Len(queue) - 1
        /\ \A i \in 1..Len(Tail(queue)) : Tail(queue)[i] = queue[i + 1]
    BY <1>1
  <2>2. Len(queue) \in Nat
    BY <1>1
  <2>3. \A i \in 1..Len(Tail(queue)) : i + 1 \in 1..Len(queue)
    BY <2>1, <2>2
  <2>. QED BY <1>1, <1>4, <2>1, <2>2, <2>3, Sizes
<1>6. ProcTypes'
  <2>1. [block |-> b, dst |-> blk[b].rec.dst, url |-> blk[b].suburl]
           \in [block : Blocks, dst : {r.dst : r \in Records}, url : Urls]
    BY <1>2, <1>3
  <2>2. blk[b].rec.action \in {r.action : r \in Records}
    BY <1>3
  <2>3. ProcTypes
    BY DEF Inv
  <2>. QED BY <1>4, <1>5, <2>1, <2>2, <2>3 DEF ProcTypes
<1>7. PointersOK'
  <2>1. pairs' = pairs /\ allocated' = allocated
    BY <1>4 DEF memVars
  <2>2. \A o \in observees' : o.block <= allocated
    <3>1. \A o \in observees : o.block <= allocated
      BY DEF Inv, PointersOK
    <3>. QED BY <1>2, <1>4, <3>1
  <2>. QED BY <1>5, <2>1, <2>2 DEF PointersOK, Inv
<1>8. MemTypes' /\ BlocksFilled'
  BY <1>4 DEF memVars, Inv, MemTypes, BlocksFilled
<1>9. FlashTypes' /\ CtlTypes' /\ Running' /\ RmTypes'
  BY <1>4 DEF Inv, FlashTypes, CtlTypes, Running, RmTypes, flashVars
<1>10. answer' \in Answers
  BY <1>4, Sizes DEF NoAnswer, Answers
<1>. QED BY <1>6, <1>7, <1>8, <1>9, <1>10 DEF Inv

LEMMA RemoveAllKeepsInv ==
    ASSUME Inv, NEW d \in Devices, RemoveAll(d)
    PROVE  Inv'
<1>1. /\ pairs' = [pairs EXCEPT ![d] = <<>>]
      /\ file' = [file EXCEPT ![d] = <<>>]
      /\ present' = present \ {d}
      /\ UNCHANGED <<phase, restored, blk, allocated, procVars, temp, leaked, rm, crashes>>
  BY DEF RemoveAll
<1>2. <<>> \in Seq(Blocks) /\ <<>> \in Seq(Records) /\ Len(<<>>) = 0
  OBVIOUS
<1>3. MemTypes' /\ BlocksFilled'
  BY <1>1, <1>2 DEF Inv, MemTypes, BlocksFilled
<1>4. ProcTypes' /\ CtlTypes' /\ Running' /\ RmTypes'
  BY <1>1 DEF Inv, ProcTypes, CtlTypes, Running, RmTypes, procVars
<1>5. FlashTypes'
  BY <1>1, <1>2 DEF Inv, FlashTypes
<1>6. PointersOK'
  <2>1. ASSUME NEW e \in Devices, NEW i \in 1..Len(pairs'[e])
        PROVE  pairs'[e][i] <= allocated'
    BY <1>1, <1>2 DEF Inv, PointersOK, MemTypes
  <2>. QED BY <1>1, <2>1 DEF Inv, PointersOK, procVars
<1>7. answer' \in Answers
  <2>1. NoRecord \in Records \cup {NoRecord} /\
        (IF d \in present THEN "2.04" ELSE "4.00") \in {"2.04", "4.00"}
    OBVIOUS
  <2>. QED BY <2>1 DEF RemoveAll, Answered, Answers
<1>. QED BY <1>3, <1>4, <1>5, <1>6, <1>7 DEF Inv

(* What the steps of pairing_remove leave alone. *)
LEMMA RestUnchanged ==
    ASSUME Inv, UNCHANGED <<phase, restored, memVars, procVars, crashes>>,
           FlashTypes', RmTypes', leaked' \in 0..MaxFd, answer' \in Answers
    PROVE  Inv'
<1>1. MemTypes' /\ BlocksFilled'
  BY DEF Inv, MemTypes, BlocksFilled, memVars
<1>2. ProcTypes' /\ PointersOK'
  BY DEF Inv, ProcTypes, PointersOK, procVars, memVars
<1>3. CtlTypes' /\ Running'
  BY DEF Inv, CtlTypes, Running
<1>. QED BY <1>1, <1>2, <1>3 DEF Inv

(* Updates of a record like rm, for any set of values of its fields.       *)
LEMMA RecordUpdate ==
    ASSUME NEW P, NEW Q, NEW R, NEW S, NEW T,
           NEW x \in [step : P, dev : Q, drop : R, at : S, kept : T], NEW s \in S
    PROVE  /\ [x EXCEPT !.at = s] \in [step : P, dev : Q, drop : R, at : S, kept : T]
           /\ \A p \in P : [x EXCEPT !.step = p, !.at = s]
                               \in [step : P, dev : Q, drop : R, at : S, kept : T]
           /\ \A t \in T : [x EXCEPT !.at = s, !.kept = t]
                               \in [step : P, dev : Q, drop : R, at : S, kept : T]
OBVIOUS

LEMMA RmUpdate ==
    ASSUME RmTypes, NEW at \in Nat \ {0}
    PROVE  /\ rm' = [rm EXCEPT !.at = at] => RmTypes'
           /\ rm' = [rm EXCEPT !.step = "copy back", !.at = at] => RmTypes'
           /\ \A kept \in Nat : rm' = [rm EXCEPT !.at = at, !.kept = kept] => RmTypes'
<1> DEFINE Steps == {"none", "copy out", "copy back"}
           Positions == Nat \ {0}
           Drops == SUBSET Nat
<1>1. /\ rm \in [step : Steps, dev : Devices, drop : Drops, at : Positions, kept : Nat]
      /\ "copy back" \in Steps /\ at \in Positions
  BY DEF RmTypes
<1>2. RmTypes' <=> rm' \in [step : Steps, dev : Devices, drop : Drops,
                            at : Positions, kept : Nat]
  BY DEF RmTypes
<1>. HIDE DEF Steps, Positions, Drops
<1>3. /\ [rm EXCEPT !.at = at] \in [step : Steps, dev : Devices, drop : Drops,
                                    at : Positions, kept : Nat]
      /\ \A p \in Steps : [rm EXCEPT !.step = p, !.at = at]
               \in [step : Steps, dev : Devices, drop : Drops, at : Positions, kept : Nat]
      /\ \A t \in Nat : [rm EXCEPT !.at = at, !.kept = t]
               \in [step : Steps, dev : Devices, drop : Drops, at : Positions, kept : Nat]
  BY <1>1, RecordUpdate
<1>. QED BY <1>1, <1>2, <1>3

LEMMA Index ==
    ASSUME NEW at \in Nat \ {0}
    PROVE  /\ at + 1 \in Nat \ {0}
           /\ \A k \in Nat : k + 1 \in Nat \ {0} /\ k + 1 \in Nat
           /\ \A s \in Seq(Records) : at <= Len(s) => s[at] \in Records
OBVIOUS

LEMMA RemovalKeepsInv ==
    ASSUME Inv,
           \/ \E d \in Devices : \/ RemoveRefused(d)
                                 \/ \E drop \in SUBSET (1..Len(file[d])) : RemoveIndex(d, drop)
           \/ CopyOut \/ Recreate \/ CopyBack \/ RemoveDone
    PROVE  Inv'
<1>1. /\ FlashTypes /\ RmTypes /\ leaked \in 0..MaxFd /\ answer \in Answers
      /\ MaxFd \in Nat /\ 1 \in Devices
  BY Sizes DEF Inv, CtlTypes
<1>2. ASSUME NEW d \in Devices, RemoveRefused(d)
      PROVE  Inv'
  <2>1. FlashTypes' /\ RmTypes'
    BY <1>1, <1>2 DEF RemoveRefused, flashVars, FlashTypes, RmTypes
  <2>2. leaked' \in 0..MaxFd
    BY <1>1, <1>2 DEF RemoveRefused
  <2>3. answer' \in Answers
    BY <1>2 DEF RemoveRefused, Answered, Answers
  <2>. QED BY <1>2, <2>1, <2>2, <2>3, RestUnchanged DEF RemoveRefused
<1>3. ASSUME NEW d \in Devices, NEW drop \in SUBSET (1..Len(file[d])), RemoveIndex(d, drop)
      PROVE  Inv'
  <2>1. drop \subseteq Nat
    <3>1. file[d] \in Seq(Records)
      BY <1>1 DEF FlashTypes
    <3>. QED BY <3>1
  <2>2. RmTypes'
    <3>1. rm' = [step |-> "copy out", dev |-> d, drop |-> drop, at |-> 1, kept |-> 0]
      BY <1>3 DEF RemoveIndex
    <3>2. drop \in SUBSET Nat
      BY <2>1
    <3>3. /\ 1 \in Nat \ {0} /\ 0 \in Nat
          /\ "copy out" \in {"none", "copy out", "copy back"}
      OBVIOUS
    <3>4. [step |-> "copy out", dev |-> d, drop |-> drop, at |-> 1, kept |-> 0]
             \in [step : {"none", "copy out", "copy back"}, dev : Devices,
                  drop : SUBSET Nat, at : Nat \ {0}, kept : Nat]
      BY <3>2, <3>3
    <3>. QED BY <3>1, <3>4 DEF RmTypes
  <2>3. FlashTypes'
    BY <1>1, <1>3 DEF RemoveIndex, flashVars, FlashTypes
  <2>4. answer' \in Answers
    BY <1>1, <1>3 DEF RemoveIndex, NoAnswer, Answers
  <2>. QED BY <1>1, <1>3, <2>2, <2>3, <2>4, RestUnchanged DEF RemoveIndex
<1>4. ASSUME CopyOut
      PROVE  Inv'
  <2>1. /\ rm.step = "copy out" /\ rm.dev \in Devices /\ rm.at \in Nat \ {0}
        /\ rm.kept \in Nat /\ rm.at <= Len(file[rm.dev])
    BY <1>1, <1>4 DEF CopyOut, RmTypes
  <2>2. file[rm.dev] \in Seq(Records)
    BY <1>1, <2>1 DEF FlashTypes
  <2>3. CASE rm.at \in rm.drop
    <3>1. rm' = [rm EXCEPT !.at = @ + 1] /\ UNCHANGED <<temp, present, file>>
      BY <1>4, <2>3 DEF CopyOut
    <3>2. RmTypes'
      <4>1. rm' = [rm EXCEPT !.at = rm.at + 1]
        BY <3>1
      <4>2. rm.at + 1 \in Nat \ {0}
        BY <2>1, Index
      <4>. QED BY <1>1, <4>1, <4>2, RmUpdate
    <3>3. FlashTypes'
      BY <1>1, <3>1 DEF FlashTypes
    <3>. QED BY <1>1, <1>4, <3>2, <3>3, RestUnchanged DEF CopyOut
  <2>4. CASE rm.at \notin rm.drop
    <3> DEFINE k == rm.kept + 1
               r == file[rm.dev][rm.at]
    <3>1. /\ rm' = [rm EXCEPT !.at = @ + 1, !.kept = k]
          /\ temp' = IF k <= Len(temp) THEN [temp EXCEPT ![k] = r] ELSE Append(temp, r)
          /\ UNCHANGED <<present, file>>
      BY <1>4, <2>4 DEF CopyOut
    <3>2. RmTypes'
      <4>1. rm' = [rm EXCEPT !.at = rm.at + 1, !.kept = k]
        BY <3>1
      <4>2. rm.at + 1 \in Nat \ {0}
        BY <2>1, Index
      <4>3. k \in Nat
        <5>1. rm.at \in Nat \ {0} /\ rm.kept \in Nat
          BY <2>1
        <5>. QED BY <5>1, Index
      <4>. QED BY <1>1, <4>1, <4>2, <4>3, RmUpdate
    <3>3. r \in Records /\ k \in Nat \ {0} /\ temp \in Seq(Records)
      <4>1. r \in Records
        BY <2>1, <2>2, Index
      <4>2. k \in Nat \ {0}
        <5>1. rm.at \in Nat \ {0} /\ rm.kept \in Nat
          BY <2>1
        <5>. QED BY <5>1, Index
      <4>. QED BY <1>1, <4>1, <4>2 DEF FlashTypes
    <3>. HIDE DEF k, r
    <3>4. temp' \in Seq(Records)
      <4>1. CASE k <= Len(temp)
        <5>1. k \in 1..Len(temp)
          BY <3>3, <4>1
        <5>2. [temp EXCEPT ![k] = r] \in Seq(Records)
          BY <3>3, <5>1, ExceptSeq
        <5>. QED BY <3>1, <4>1, <5>2
      <4>2. CASE ~(k <= Len(temp))
        BY <3>1, <3>3, <4>2, AppendProperties
      <4>. QED BY <4>1, <4>2
    <3>5. FlashTypes'
      BY <1>1, <3>1, <3>4 DEF FlashTypes
    <3>. QED BY <1>1, <1>4, <3>2, <3>5, RestUnchanged DEF CopyOut
  <2>. QED BY <2>3, <2>4
<1>5. ASSUME Recreate
      PROVE  Inv'
  <2>1. file' = [file EXCEPT ![rm.dev] = <<>>] /\ UNCHANGED <<present, temp>>
        /\ rm' = [rm EXCEPT !.step = "copy back", !.at = 1]
    BY <1>5 DEF Recreate
  <2>2. FlashTypes'
    <3>1. <<>> \in Seq(Records)
      OBVIOUS
    <3>. QED BY <1>1, <2>1, <3>1 DEF FlashTypes
  <2>3. RmTypes'
    <3>1. 1 \in Nat \ {0}
      OBVIOUS
    <3>. QED BY <1>1, <2>1, <3>1, RmUpdate
  <2>. QED BY <1>1, <1>5, <2>2, <2>3, RestUnchanged DEF Recreate
<1>6. ASSUME CopyBack
      PROVE  Inv'
  <2>1. /\ file' = [file EXCEPT ![rm.dev] = Append(@, temp[rm.at])]
        /\ rm' = [rm EXCEPT !.at = @ + 1] /\ UNCHANGED <<present, temp>>
        /\ rm.at <= Len(temp)
    BY <1>6 DEF CopyBack
  <2>2. rm.dev \in Devices /\ rm.at \in Nat \ {0} /\ temp \in Seq(Records)
    BY <1>1 DEF RmTypes, FlashTypes
  <2>3. temp[rm.at] \in Records /\ file[rm.dev] \in Seq(Records)
    BY <1>1, <2>1, <2>2 DEF FlashTypes
  <2>4. Append(file[rm.dev], temp[rm.at]) \in Seq(Records)
    BY <2>3, AppendProperties
  <2>5. FlashTypes'
    BY <1>1, <2>1, <2>4 DEF FlashTypes
  <2>6. RmTypes'
    <3>1. rm' = [rm EXCEPT !.at = rm.at + 1] /\ rm.at + 1 \in Nat \ {0}
      BY <2>1, <2>2
    <3>. QED BY <1>1, <3>1, RmUpdate
  <2>. QED BY <1>1, <1>6, <2>5, <2>6, RestUnchanged DEF CopyBack
<1>7. ASSUME RemoveDone
      PROVE  Inv'
  <2>1. /\ temp' = <<>> /\ leaked' = 0 /\ rm' = Idle /\ UNCHANGED <<present, file>>
        /\ Answered("pairRemoveIndex", "2.04", rm.dev, NoRecord)
    BY <1>7 DEF RemoveDone
  <2>2. FlashTypes'
    BY <1>1, <2>1 DEF FlashTypes
  <2>3. RmTypes'
    BY Sizes, <2>1 DEF Idle, RmTypes
  <2>4. rm.dev \in Devices
    BY <1>1 DEF RmTypes
  <2>5. answer' \in Answers
    BY <2>1, <2>4 DEF Answered, Answers
  <2>6. leaked' \in 0..MaxFd
    BY <1>1, <2>1
  <2>7. UNCHANGED <<phase, restored, memVars, procVars, crashes>>
    BY <1>7 DEF RemoveDone
  <2>. QED BY <2>2, <2>3, <2>5, <2>6, <2>7, RestUnchanged
<1>. QED BY <1>2, <1>3, <1>4, <1>5, <1>6, <1>7

LEMMA PowerOnKeepsInv ==
    ASSUME Inv, PowerOn
    PROVE  Inv'
<1>1. phase' = "coap" /\ restored' = 0 /\ restored' < NDev
  BY Sizes DEF PowerOn, Inv, Running
<1>2. MemTypes' /\ BlocksFilled' /\ ProcTypes' /\ PointersOK'
  BY DEF PowerOn, Inv, MemTypes, BlocksFilled, ProcTypes, PointersOK, memVars, procVars
<1>3. FlashTypes' /\ RmTypes' /\ answer' \in Answers
  BY DEF PowerOn, Inv, FlashTypes, RmTypes, flashVars
<1>4. CtlTypes' /\ Running'
  BY <1>1, Sizes DEF PowerOn, Inv, CtlTypes, Running
<1>. QED BY <1>2, <1>3, <1>4 DEF Inv

LEMMA StepInv ==
    ASSUME Inv, [Next]_vars
    PROVE  Inv'
<1>1. CASE PowerOn
  BY <1>1, PowerOnKeepsInv
<1>2. CASE RestorePairs
  BY <1>2, RestoreKeepsInv
<1>3. CASE HandlePair
  BY <1>3, HandlePairKeepsInv
<1>4. CASE CopyOut \/ Recreate \/ CopyBack \/ RemoveDone
  BY <1>4, RemovalKeepsInv
<1>5. ASSUME NEW d \in Devices, NEW r \in Records, JoinCreated(d, r) \/ JoinRefused(d, r)
      PROVE  Inv'
  BY <1>5, JoinCreatedKeepsInv, JoinRefusedKeepsInv
<1>6. CASE JoinNoBlock
  <2>1. MemoryLost /\ UNCHANGED <<flashVars, crashes>>
    BY <1>6 DEF JoinNoBlock
  <2>2. FlashTypes' /\ crashes' \in 0..MaxCrashes
    BY <2>1 DEF Inv, FlashTypes, CtlTypes, flashVars
  <2>. QED BY <2>1, <2>2, AfterReset
<1>7. ASSUME NEW d \in Devices, RemoveAll(d)
      PROVE  Inv'
  BY <1>7, RemoveAllKeepsInv
<1>8. ASSUME NEW d \in Devices, RemoveRefused(d)
      PROVE  Inv'
  BY <1>8, RemovalKeepsInv
<1>9. ASSUME NEW d \in Devices, NEW drop \in SUBSET (1..Len(file[d])), RemoveIndex(d, drop)
      PROVE  Inv'
  BY <1>9, RemovalKeepsInv
<1>10. CASE Crash
  <2>1. MemoryLost /\ UNCHANGED flashVars
    BY <1>10 DEF Crash
  <2>2. FlashTypes'
    BY <2>1 DEF Inv, FlashTypes, flashVars
  <2>3. crashes' \in 0..MaxCrashes
    BY <1>10, Sizes DEF Crash, Inv, CtlTypes
  <2>. QED BY <2>1, <2>2, <2>3, AfterReset
<1>11. CASE UNCHANGED vars
  BY <1>11, RestUnchanged DEF vars, Inv, FlashTypes, RmTypes, CtlTypes, flashVars
<1>. QED
  BY <1>1, <1>2, <1>3, <1>4, <1>5, <1>6, <1>7, <1>8, <1>9, <1>10, <1>11
  DEF Next, Node, Client

(* Every variable has its type, and the event queue its length, whatever   *)
(* is asked of the node and whenever its power fails.                      *)
THEOREM TypeCorrect == Spec => []TypeOK
<1>1. Init => Inv
  BY InitInv
<1>2. Inv /\ [Next]_vars => Inv'
  BY StepInv
<1>3. Inv => TypeOK
  BY InvImpliesTypeOK
<1>. QED BY <1>1, <1>2, <1>3, PTL DEF Spec

-----------------------------------------------------------------------------
(* The pairs that something points at. *)

LEMMA ReferencedInUse ==
    ASSUME Inv
    PROVE  \A b \in Referenced : b \in Blocks /\ b <= allocated
<1>1. \A d \in Devices : \A b \in Listed(d) : b \in Blocks /\ b <= allocated
  BY DEF Inv, PointersOK, MemTypes, Listed
<1>2. \A b \in Queued : b \in Blocks /\ b <= allocated
  BY DEF Inv, PointersOK, ProcTypes, Queued
<1>3. \A b \in Observed : b \in Blocks /\ b <= allocated
  BY DEF Inv, PointersOK, ProcTypes, Observed
<1>4. ASSUME NEW b \in Referenced
      PROVE  b \in Queued \/ b \in Observed \/ \E d \in Devices : b \in Listed(d)
  <2>1. b \in (UNION {Listed(d) : d \in Devices}) \/ b \in Queued \/ b \in Observed
    BY <1>4 DEF Referenced
  <2>2. b \in UNION {Listed(d) : d \in Devices} => \E d \in Devices : b \in Listed(d)
    OBVIOUS
  <2>. QED BY <2>1, <2>2
<1>. QED BY <1>1, <1>2, <1>3, <1>4

LEMMA StepKeepsPairs ==
    ASSUME Inv, [Next]_vars
    PROVE  phase' # "off" => \A b \in Referenced : blk'[b] = blk[b]
<1>. SUFFICES ASSUME phase' # "off", NEW b \in Referenced
              PROVE  blk'[b] = blk[b]
  OBVIOUS
<1>1. b \in Blocks /\ b <= allocated /\ allocated \in 0..PoolSize
  BY ReferencedInUse DEF Inv, MemTypes
<1>2. CASE RestorePairs
  <2> DEFINE n == Len(file[restored + 1])
  <2>1. ~MemoryLost
    BY DEF MemoryLost
  <2>2. blk'[b] = IF b \in allocated + 1..allocated + n
                    THEN Filled(b, restored + 1, file[restored + 1][b - allocated])
                    ELSE blk[b]
    BY <1>1, <1>2, <2>1 DEF RestorePairs
  <2>. HIDE DEF n
  <2>3. b \notin allocated + 1..allocated + n
    BY <1>1, Sizes DEF Blocks
  <2>. QED BY <2>2, <2>3
<1>3. ASSUME NEW d \in Devices, NEW r \in Records, JoinCreated(d, r) \/ JoinRefused(d, r)
      PROVE  blk'[b] = blk[b]
  <2>1. blk' = [blk EXCEPT ![NextBlock] = Filled(NextBlock, d, r)] /\ allocated < PoolSize
    BY <1>3 DEF JoinCreated, JoinRefused
  <2>2. b # NextBlock
    BY <1>1, Sizes DEF NextBlock, Blocks
  <2>. QED BY <1>1, <2>1, <2>2, FillNextBlock
<1>4. ~JoinNoBlock /\ ~Crash
  BY DEF JoinNoBlock, Crash, MemoryLost
<1>5. CASE PowerOn \/ HandlePair \/ CopyOut \/ Recreate \/ CopyBack \/ RemoveDone
  BY <1>5 DEF PowerOn, HandlePair, CopyOut, Recreate, CopyBack, RemoveDone, memVars
<1>6. ASSUME NEW d \in Devices,
             \/ RemoveAll(d) \/ RemoveRefused(d)
             \/ \E drop \in SUBSET (1..Len(file[d])) : RemoveIndex(d, drop)
      PROVE  blk'[b] = blk[b]
  BY <1>6 DEF RemoveAll, RemoveRefused, RemoveIndex, memVars
<1>7. CASE UNCHANGED vars
  BY <1>7 DEF vars, memVars
<1>. QED
  BY <1>2, <1>3, <1>4, <1>5, <1>6, <1>7 DEF Next, Node, Client

(* No command changes a pair that a list, an event or an observee still    *)
(* points at: the blocks of a removed pair are never used again before the *)
(* next boot, for pools of any size.                                       *)
THEOREM PairsKept == Spec => PairsStayPut
<1>1. Init => Inv
  BY InitInv
<1>2. Inv /\ [Next]_vars => Inv'
  BY StepInv
<1>3. Inv /\ [Next]_vars => [phase' # "off" => \A b \in Referenced : blk'[b] = blk[b]]_vars
  BY StepKeepsPairs
<1>. QED BY <1>1, <1>2, <1>3, PTL DEF Spec, PairsStayPut

-----------------------------------------------------------------------------
(* Joins that were answered 2.01 Created. *)

(* There is always a descriptor left to append a record with, and while a  *)
(* file is rewritten the last answer is no longer that of a join.          *)
CreatedInv ==
    /\ leaked < MaxFd
    /\ rm.step # "none" => answer.request # "join"
    /\ CreatedIsStored

LEMMA InitCreatedInv == Init => CreatedInv
BY Sizes DEF Init, CreatedInv, CreatedIsStored, Idle, NoAnswer

LEMMA StepCreatedInv ==
    ASSUME Inv, CreatedInv, [Next]_vars
    PROVE  CreatedInv'
<1> USE DEF CreatedInv, CreatedIsStored, Stored
<1>1. ASSUME MemoryLost
      PROVE  CreatedInv'
  BY <1>1, Sizes DEF MemoryLost, Idle, NoAnswer
<1>2. CASE PowerOn
  BY <1>2 DEF PowerOn, flashVars
<1>3. CASE RestorePairs \/ HandlePair
  BY <1>1, <1>3 DEF RestorePairs, HandlePair, NoAnswer
<1>4. ASSUME NEW d \in Devices, NEW r \in Records, JoinCreated(d, r)
      PROVE  CreatedInv'
  <2>1. /\ file' = [file EXCEPT ![d] = Append(@, r)]
        /\ answer' = [request |-> "join", code |-> "2.01", dev |-> d, rec |-> r]
        /\ UNCHANGED <<leaked, rm>> /\ rm.step = "none"
    BY <1>4 DEF JoinCreated, CpuFree, Answered
  <2>2. file \in [Devices -> Seq(Records)] /\ file[d] \in Seq(Records)
    BY DEF Inv, FlashTypes
  <2>3. file'[d] = Append(file[d], r)
    BY <2>1, <2>2
  <2>4. /\ Len(file'[d]) = Len(file[d]) + 1 /\ Len(file[d]) \in Nat
        /\ file'[d][Len(file[d]) + 1] = r
    BY <2>2, <2>3, AppendProperties
  <2>. QED BY <2>1, <2>4
<1>5. ASSUME NEW d \in Devices, NEW r \in Records, JoinRefused(d, r)
      PROVE  CreatedInv'
  BY <1>5 DEF JoinRefused, Answered, CpuFree
<1>6. CASE JoinNoBlock \/ Crash
  BY <1>1, <1>6 DEF JoinNoBlock, Crash
<1>7. ASSUME leaked' < MaxFd, answer'.request # "join"
      PROVE  CreatedInv'
  BY <1>7
<1>8. ASSUME NEW d \in Devices,
             \/ RemoveAll(d) \/ RemoveRefused(d)
             \/ \E drop \in SUBSET (1..Len(file[d])) : RemoveIndex(d, drop)
      PROVE  CreatedInv'
  <2>1. leaked \in Nat /\ MaxFd \in Nat
    BY Sizes DEF Inv, CtlTypes
  <2>2. leaked' < MaxFd
    <3>1. CASE RemoveAll(d)
      BY <3>1 DEF RemoveAll
    <3>2. CASE RemoveRefused(d)
      BY <2>1, <3>2 DEF RemoveRefused
    <3>3. CASE \E drop \in SUBSET (1..Len(file[d])) : RemoveIndex(d, drop)
      BY <3>3 DEF RemoveIndex
    <3>. QED BY <1>8, <3>1, <3>2, <3>3
  <2>3. answer'.request # "join"
    <3>1. CASE RemoveAll(d)
      BY <3>1 DEF RemoveAll, Answered
    <3>2. CASE RemoveRefused(d)
      <4>1. Answered("pairRemoveIndex", "refused", d, NoRecord)
        BY <3>2 DEF RemoveRefused
      <4>. QED BY <4>1 DEF Answered
    <3>3. CASE \E drop \in SUBSET (1..Len(file[d])) : RemoveIndex(d, drop)
      <4>1. answer' = NoAnswer
        BY <3>3 DEF RemoveIndex
      <4>. QED BY <4>1 DEF NoAnswer
    <3>. QED BY <1>8, <3>1, <3>2, <3>3
  <2>. QED BY <1>7, <2>2, <2>3
<1>9. CASE CopyOut \/ Recreate \/ CopyBack
  <2>1. rm.step # "none" /\ UNCHANGED <<leaked, answer>>
    BY <1>9 DEF CopyOut, Recreate, CopyBack
  <2>. QED BY <2>1
<1>10. CASE RemoveDone
  <2>1. leaked' = 0 /\ 0 < MaxFd
    <3>1. leaked' = 0
      BY <1>10 DEF RemoveDone
    <3>2. 0 < MaxFd
      BY Sizes
    <3>. QED BY <3>1, <3>2
  <2>2. answer'.request = "pairRemoveIndex"
    BY <1>10 DEF RemoveDone, Answered
  <2>. QED BY <1>7, <2>1, <2>2
<1>11. CASE UNCHANGED vars
  BY <1>11 DEF vars, flashVars
<1>. QED
  BY <1>2, <1>3, <1>4, <1>5, <1>6, <1>8, <1>9, <1>10, <1>11 DEF Next, Node, Client

(* A pair whose join was answered 2.01 is in the device's file, however    *)
(* many removals were refused and left a descriptor open before, whatever  *)
(* is asked before the boot loop is done, and whenever power fails.        *)
THEOREM CreatedArePersistent == Spec => []CreatedIsStored
<1>1. Init => Inv /\ CreatedInv
  BY InitInv, InitCreatedInv
<1>2. Inv /\ CreatedInv /\ [Next]_vars => Inv' /\ CreatedInv'
  BY StepInv, StepCreatedInv
<1>3. CreatedInv => CreatedIsStored
  BY DEF CreatedInv
<1>. QED BY <1>1, <1>2, <1>3, PTL DEF Spec

-----------------------------------------------------------------------------
(* Induction over the natural numbers, with a set for the predicate, and   *)
(* what it says of recursive functions.                                    *)

LEMMA LeastNumber ==
    ASSUME NEW T \in SUBSET Nat, T # {}
    PROVE  \E x \in T : \A y \in T : x <= y
<1>1. PICK x \in T : \A y \in T : <<y, x>> \notin OpToRel(<, Nat)
  BY NatLessThanWellFounded, WFMin
<1>2. \A y \in T : ~(y < x)
  BY <1>1 DEF OpToRel
<1>. QED BY <1>2

LEMMA NumbersInduction ==
    ASSUME NEW T, 0 \in T, \A n \in T \cap Nat : n + 1 \in T
    PROVE  Nat \subseteq T
<1>. SUFFICES ASSUME NEW m \in Nat, m \notin T
              PROVE  FALSE
  OBVIOUS
<1>1. PICK x \in Nat \ T : \A y \in Nat \ T : x <= y
  BY LeastNumber, Nat \ T \in SUBSET Nat, m \in Nat \ T
<1>2. x - 1 \in Nat /\ ~(x <= x - 1) /\ (x - 1) + 1 = x
  BY <1>1
<1>. QED BY <1>1, <1>2

(* The function on 0..k that starts at b and goes on by step. *)
IsChain(f, S, b, k, step) ==
    f \in [0..k -> S] /\ f[0] = b /\ \A n \in 1..k : f[n] = step[<<f[n - 1], n>>]

LEMMA RecursionExists ==
    ASSUME NEW S, NEW b \in S, NEW k \in Nat, NEW step \in [S \X (1..k) -> S]
    PROVE  \E f : IsChain(f, S, b, k, step)
<1> DEFINE Starts(f, m) ==
        f \in [0..m -> S] /\ f[0] = b /\ \A n \in 1..m : f[n] = step[<<f[n - 1], n>>]
           Ok == {m \in Nat : m <= k => \E f : Starts(f, m)}
<1>1. 0 \in Ok
  <2>1. Starts([n \in 0..0 |-> b], 0)
    OBVIOUS
  <2>. QED BY <2>1
<1>2. ASSUME NEW m \in Ok \cap Nat
      PROVE  m + 1 \in Ok
  <2>. SUFFICES ASSUME m + 1 <= k
                PROVE  \E f : Starts(f, m + 1)
    OBVIOUS
  <2>1. PICK f : Starts(f, m)
    OBVIOUS
  <2> DEFINE g == [n \in 0..m + 1 |-> IF n = m + 1 THEN step[<<f[m], m + 1>>] ELSE f[n]]
  <2>2. f[m] \in S /\ m + 1 \in 1..k
    BY <2>1
  <2>3. g \in [0..m + 1 -> S] /\ g[0] = b
    BY <2>1, <2>2
  <2>4. ASSUME NEW n \in 1..m + 1
        PROVE  g[n] = step[<<g[n - 1], n>>]
    <3>1. g[n - 1] = f[n - 1]
      OBVIOUS
    <3>2. CASE n = m + 1
      <4>1. g[n] = step[<<f[m], m + 1>>] /\ n - 1 = m
        BY <3>2
      <4>. HIDE DEF g
      <4>. QED BY <3>1, <3>2, <4>1
    <3>3. CASE n # m + 1
      <4>1. n \in 1..m /\ g[n] = f[n]
        BY <3>3
      <4>. HIDE DEF g
      <4>. QED BY <2>1, <3>1, <4>1
    <3>. QED BY <3>2, <3>3
  <2>. HIDE DEF g
  <2>5. Starts(g, m + 1)
    BY <2>3, <2>4
  <2>. QED BY <2>5
<1>3. k \in Ok
  <2>. HIDE DEF Ok
  <2>. QED BY <1>1, <1>2, NumbersInduction
<1>4. PICK f : Starts(f, k)
  BY <1>3
<1>. QED BY <1>4 DEF IsChain

-----------------------------------------------------------------------------
(* A list without some of its pairs. *)

LEMMA KeptUpToDef ==
    ASSUME NEW s \in Seq(Records), NEW X
    PROVE  /\ Store!KeptUpTo(s, X) \in [0..Len(s) -> Seq(Records)]
           /\ Store!KeptUpTo(s, X)[0] = <<>>
           /\ \A n \in 1..Len(s) :
                 Store!KeptUpTo(s, X)[n] =
                     IF n \in X THEN Store!KeptUpTo(s, X)[n - 1]
                     ELSE Append(Store!KeptUpTo(s, X)[n - 1], s[n])
<1> DEFINE Def(f) == f = [i \in 0..Len(s) |->
                             IF i = 0 THEN <<>>
                             ELSE IF i \in X THEN f[i - 1] ELSE Append(f[i - 1], s[i])]
           step == [x \in Seq(Records) \X (1..Len(s)) |->
                       IF x[2] \in X THEN x[1] ELSE Append(x[1], s[x[2]])]
<1>1. step \in [Seq(Records) \X (1..Len(s)) -> Seq(Records)]
  OBVIOUS
<1>2. PICK f \in [0..Len(s) -> Seq(Records)] :
          f[0] = <<>> /\ \A n \in 1..Len(s) : f[n] = step[<<f[n - 1], n>>]
  <2>1. <<>> \in Seq(Records) /\ Len(s) \in Nat
    OBVIOUS
  <2>. HIDE DEF step
  <2>2. \E f : IsChain(f, Seq(Records), <<>>, Len(s), step)
    BY <1>1, <2>1, RecursionExists, Zenon
  <2>. QED BY <2>2 DEF IsChain
<1>3. \A n \in 1..Len(s) :
          f[n] = IF n \in X THEN f[n - 1] ELSE Append(f[n - 1], s[n])
  <2>. SUFFICES ASSUME NEW n \in 1..Len(s)
                PROVE  f[n] = IF n \in X THEN f[n - 1] ELSE Append(f[n - 1], s[n])
    OBVIOUS
  <2>1. f[n - 1] \in Seq(Records)
    BY <1>2
  <2>2. step[<<f[n - 1], n>>] = IF n \in X THEN f[n - 1] ELSE Append(f[n - 1], s[n])
    BY <2>1
  <2>. HIDE DEF step
  <2>. QED BY <1>2, <2>2
<1>4. Def(f)
  <2> DEFINE g == [i \in 0..Len(s) |->
                      IF i = 0 THEN <<>>
                      ELSE IF i \in X THEN f[i - 1] ELSE Append(f[i - 1], s[i])]
  <2>1. ASSUME NEW i \in 0..Len(s)
        PROVE  f[i] = g[i]
    <3>1. CASE i = 0
      BY <1>2, <3>1
    <3>2. CASE i # 0
      <4>1. i \in 1..Len(s)
        BY <3>2
      <4>. HIDE DEF step
      <4>. QED BY <1>3, <3>2, <4>1
    <3>. QED BY <3>1, <3>2
  <2>2. f = g
    <3>1. f = [i \in 0..Len(s) |-> f[i]] /\ g = [i \in 0..Len(s) |-> g[i]]
      BY <1>2
    <3>. HIDE DEF g
    <3>. QED BY <2>1, <3>1
  <2>. QED BY <2>2
<1> DEFINE kept == CHOOSE h : Def(h)
<1>5. Def(kept)
  <2>. HIDE DEF Def
  <2>. QED BY <1>4
<1>6. Store!KeptUpTo(s, X) = kept
  BY DEF Store!KeptUpTo
<1>. HIDE DEF kept
<1>7. \A n \in 0..Len(s) : kept[n] = IF n = 0 THEN <<>>
          ELSE IF n \in X THEN kept[n - 1] ELSE Append(kept[n - 1], s[n])
  BY <1>5
<1> DEFINE Ok == {m \in Nat : m <= Len(s) => kept[m] \in Seq(Records)}
<1>8. 0 \in Ok
  <2>1. kept[0] = <<>> /\ <<>> \in Seq(Records)
    BY <1>7
  <2>. QED BY <2>1
<1>9. ASSUME NEW m \in Ok \cap Nat
      PROVE  m + 1 \in Ok
  <2>. SUFFICES ASSUME m + 1 <= Len(s)
                PROVE  kept[m + 1] \in Seq(Records)
    OBVIOUS
  <2>1. kept[m] \in Seq(Records) /\ s[m + 1] \in Records /\ m + 1 \in 0..Len(s)
    OBVIOUS
  <2>2. kept[m + 1] = IF m + 1 \in X THEN kept[m] ELSE Append(kept[m], s[m + 1])
    BY <1>7, <2>1
  <2>. QED BY <2>1, <2>2
<1>10. \A m \in 0..Len(s) : kept[m] \in Seq(Records)
  <2>1. \A m \in 0..Len(s) : m \in Nat /\ m <= Len(s)
    OBVIOUS
  <2>2. Nat \subseteq Ok
    <3>. HIDE DEF Ok
    <3>. QED BY <1>8, <1>9, NumbersInduction
  <2>. QED BY <2>1, <2>2
<1>11. kept \in [0..Len(s) -> Seq(Records)]
  <2>1. kept = [i \in 0..Len(s) |-> kept[i]]
    BY <1>5
  <2>. QED BY <1>10, <2>1
<1>12. kept[0] = <<>>
  BY <1>7
<1>13. \A n \in 1..Len(s) :
           kept[n] = IF n \in X THEN kept[n - 1] ELSE Append(kept[n - 1], s[n])
  <2>1. \A n \in 1..Len(s) : n \in 0..Len(s) /\ n # 0
    OBVIOUS
  <2>. QED BY <1>7, <2>1
<1>. HIDE DEF step
<1>. QED BY <1>6, <1>11, <1>12, <1>13, Zenon

-----------------------------------------------------------------------------
(* The removal of pairs, when the power does not fail in the middle of it. *)

(* What is in "temp" and in the pairs file while pairing_remove works:     *)
(* the records kept so far, and the beginning of "temp".                   *)
CopyOutOK ==
    rm.step = "copy out" =>
        /\ rm.drop \subseteq 1..Len(file[rm.dev])
        /\ rm.at <= Len(file[rm.dev]) + 1
        /\ temp = Store!KeptUpTo(file[rm.dev], rm.drop)[rm.at - 1]
        /\ rm.kept = Len(temp)
CopyBackOK ==
    rm.step = "copy back" =>
        /\ rm.at = Len(file[rm.dev]) + 1
        /\ rm.at <= Len(temp) + 1
        /\ \A i \in 1..Len(file[rm.dev]) : file[rm.dev][i] = temp[i]
RewriteInv ==
    /\ rm.step = "none" => temp = <<>>
    /\ CopyOutOK /\ CopyBackOK

LEMMA InitRewriteInv == Init => RewriteInv
BY DEF Init, RewriteInv, CopyOutOK, CopyBackOK, Idle

(* The steps that are not part of a removal leave it alone. *)
LEMMA RewriteUntouched ==
    ASSUME RewriteInv, rm.step = "none", rm'.step = "none", temp' = temp \/ temp' = <<>>
    PROVE  RewriteInv'
BY DEF RewriteInv, CopyOutOK, CopyBackOK

(* The fields of rm in a step of a removal. *)
LEMMA RmSteps ==
    ASSUME Inv
    PROVE  /\ CopyOut => /\ rm.step = "copy out" /\ rm'.step = "copy out"
                         /\ rm'.dev = rm.dev /\ rm'.drop = rm.drop /\ rm'.at = rm.at + 1
                         /\ rm'.kept = IF rm.at \in rm.drop THEN rm.kept ELSE rm.kept + 1
           /\ Recreate => /\ rm.step = "copy out" /\ rm'.step = "copy back"
                          /\ rm'.dev = rm.dev /\ rm'.at = 1
           /\ CopyBack => /\ rm.step = "copy back" /\ rm'.step = "copy back"
                          /\ rm'.dev = rm.dev /\ rm'.at = rm.at + 1
BY DEF Inv, RmTypes, CopyOut, Recreate, CopyBack

LEMMA RmFacts ==
    ASSUME Inv
    PROVE  /\ rm.dev \in Devices /\ rm.at \in Nat \ {0} /\ rm.kept \in Nat
           /\ rm.step \in {"none", "copy out", "copy back"}
           /\ file \in [Devices -> Seq(Records)] /\ temp \in Seq(Records)
           /\ file[rm.dev] \in Seq(Records) /\ Len(file[rm.dev]) \in Nat
           /\ Len(temp) \in Nat
<1>1. rm.dev \in Devices
  BY DEF Inv, RmTypes
<1>2. /\ rm.at \in Nat \ {0} /\ rm.kept \in Nat
      /\ rm.step \in {"none", "copy out", "copy back"}
  BY DEF Inv, RmTypes
<1>3. file \in [Devices -> Seq(Records)] /\ temp \in Seq(Records)
  BY DEF Inv, FlashTypes
<1>4. file[rm.dev] \in Seq(Records)
  BY <1>1, <1>3
<1>5. Len(file[rm.dev]) \in Nat /\ Len(temp) \in Nat
  BY <1>3, <1>4, LenProperties
<1>. QED BY <1>1, <1>2, <1>3, <1>4, <1>5

LEMMA CopyOutKeepsRewrite ==
    ASSUME Inv, RewriteInv, CopyOut
    PROVE  RewriteInv'
<1> DEFINE s == file[rm.dev]
           kept == Store!KeptUpTo(s, rm.drop)
           n == rm.at
<1>1. /\ s \in Seq(Records) /\ temp \in Seq(Records)
      /\ n \in Nat \ {0} /\ rm.kept = Len(temp) /\ n <= Len(s)
      /\ rm.drop \subseteq 1..Len(s) /\ temp = kept[n - 1]
      /\ rm.step = "copy out" /\ file' = file
  BY RmFacts DEF RewriteInv, CopyOutOK, CopyOut
<1>2. /\ n \in 1..Len(s) /\ n + 1 <= Len(s) + 1 /\ (n + 1) - 1 = n
      /\ Len(s) \in Nat /\ Len(temp) \in Nat
  <2>1. n \in Nat \ {0} /\ Len(s) \in Nat /\ Len(temp) \in Nat /\ n <= Len(s)
    BY <1>1, RmFacts
  <2>. HIDE DEF s, n
  <2>. QED BY <2>1
<1>3. /\ rm'.step = "copy out" /\ rm'.dev = rm.dev /\ rm'.drop = rm.drop
      /\ rm'.at = n + 1
      /\ rm'.kept = IF n \in rm.drop THEN rm.kept ELSE rm.kept + 1
  BY RmSteps
<1>4. kept[n] = IF n \in rm.drop THEN kept[n - 1] ELSE Append(kept[n - 1], s[n])
  <2>1. s \in Seq(Records)
    BY <1>1
  <2>. HIDE DEF s, n
  <2>2. \A m \in 1..Len(s) :
            kept[m] = IF m \in rm.drop THEN kept[m - 1] ELSE Append(kept[m - 1], s[m])
    BY <2>1, KeptUpToDef, Zenon
  <2>. HIDE DEF kept
  <2>. QED BY <1>2, <2>2, Zenon
<1>5. temp' = kept[n] /\ rm'.kept = Len(temp')
  <2>1. CASE n \in rm.drop
    <3>1. temp' = temp
      BY <2>1 DEF CopyOut
    <3>. HIDE DEF kept, n, s
    <3>. QED BY <1>1, <1>3, <1>4, <2>1, <3>1
  <2>2. CASE n \notin rm.drop
    <3>1. temp' = IF rm.kept + 1 <= Len(temp) THEN [temp EXCEPT ![rm.kept + 1] = s[n]]
                  ELSE Append(temp, s[n])
      BY <2>2 DEF CopyOut
    <3>2. ~(rm.kept + 1 <= Len(temp)) /\ s[n] \in Records
      <4>1. rm.kept = Len(temp) /\ s \in Seq(Records)
        BY <1>1
      <4>. HIDE DEF kept, n, s
      <4>2. ~(Len(temp) + 1 <= Len(temp))
        BY <1>2
      <4>3. s[n] \in Records
        BY <1>2, <4>1, ElementOfSeq, Zenon
      <4>. QED BY <4>1, <4>2, <4>3
    <3>3. temp' = Append(temp, s[n])
      BY <3>1, <3>2
    <3>. HIDE DEF kept, n, s
    <3>4. kept[n] = Append(temp, s[n]) /\ rm'.kept = Len(temp) + 1
      BY <1>1, <1>3, <1>4, <2>2
    <3>5. Len(Append(temp, s[n])) = Len(temp) + 1
      <4>1. temp \in Seq(Records) /\ s[n] \in Records
        BY <1>1, <3>2
      <4>. QED BY <4>1, AppendProperties
    <3>. QED BY <3>3, <3>4, <3>5
  <2>. QED BY <2>1, <2>2
<1>6. file'[rm'.dev] = s
  BY <1>1, <1>3
<1>7. CopyOutOK'
  <2>1. Store!KeptUpTo(file'[rm'.dev], rm'.drop)[rm'.at - 1] = kept[n]
    BY <1>2, <1>3, <1>6
  <2>. HIDE DEF kept, n, s
  <2>. QED BY <1>1, <1>2, <1>3, <1>5, <1>6, <2>1 DEF CopyOutOK
<1>. QED BY <1>3, <1>7 DEF RewriteInv, CopyBackOK

LEMMA RecreateKeepsRewrite ==
    ASSUME Inv, RewriteInv, Recreate
    PROVE  RewriteInv'
<1>1. /\ rm'.step = "copy back" /\ rm'.dev = rm.dev /\ rm'.at = 1 /\ temp' = temp
      /\ rm.dev \in Devices
  BY RmSteps, RmFacts DEF Recreate
<1>2. file'[rm'.dev] = <<>>
  <2>1. file' = [file EXCEPT ![rm.dev] = <<>>] /\ file \in [Devices -> Seq(Records)]
    BY RmFacts DEF Recreate
  <2>. QED BY <1>1, <2>1
<1>3. Len(temp) \in Nat
  BY RmFacts
<1>4. Len(<<>>) = 0 /\ 1 <= Len(temp) + 1
  BY <1>3
<1>5. CopyBackOK'
  <2>1. Len(file'[rm'.dev]) = 0 /\ rm'.at <= Len(temp') + 1
    BY <1>1, <1>2, <1>4
  <2>2. \A i \in 1..0 : file'[rm'.dev][i] = temp'[i]
    OBVIOUS
  <2>3. rm'.at = Len(file'[rm'.dev]) + 1
    <3>1. Len(file'[rm'.dev]) + 1 = 1
      BY <2>1
    <3>. QED BY <1>1, <3>1
  <2>. QED BY <2>1, <2>2, <2>3 DEF CopyBackOK
<1>. QED BY <1>1, <1>5 DEF RewriteInv, CopyOutOK

LEMMA CopyBackKeepsRewrite ==
    ASSUME Inv, RewriteInv, CopyBack
    PROVE  RewriteInv'
<1> DEFINE s == file[rm.dev]
           r == temp[rm.at]
<1>1. /\ rm'.step = "copy back" /\ rm'.dev = rm.dev /\ rm'.at = rm.at + 1 /\ temp' = temp
      /\ rm.dev \in Devices /\ rm.step = "copy back" /\ rm.at <= Len(temp)
  BY RmSteps, RmFacts DEF CopyBack
<1>2. /\ rm.at = Len(s) + 1 /\ Len(s) \in Nat /\ s \in Seq(Records) /\ temp \in Seq(Records)
      /\ \A i \in 1..Len(s) : s[i] = temp[i]
  BY <1>1, RmFacts DEF RewriteInv, CopyBackOK
<1>3. file'[rm'.dev] = Append(s, r) /\ r \in Records
  <2>1. file' = [file EXCEPT ![rm.dev] = Append(s, r)] /\ file \in [Devices -> Seq(Records)]
    BY RmFacts DEF CopyBack
  <2>2. r \in Records
    <3>1. rm.at \in Nat \ {0} /\ Len(temp) \in Nat /\ rm.at <= Len(temp)
      BY <1>1, RmFacts
    <3>2. rm.at \in 1..Len(temp)
      BY <3>1
    <3>3. temp \in Seq(Records)
      BY <1>2
    <3>. QED BY <3>2, <3>3, ElementOfSeq, Zenon
  <2>. HIDE DEF s, r
  <2>. QED BY <1>1, <2>1, <2>2
<1>4. /\ Len(Append(s, r)) = Len(s) + 1
      /\ \A i \in 1..Len(s) : Append(s, r)[i] = s[i]
      /\ Append(s, r)[Len(s) + 1] = r
  <2>. HIDE DEF s, r
  <2>. QED BY <1>2, <1>3, AppendProperties
<1>5. \A i \in 1..Len(s) + 1 : Append(s, r)[i] = temp[i]
  <2>1. ASSUME NEW i \in 1..Len(s) + 1
        PROVE  Append(s, r)[i] = temp[i]
    <3>1. CASE i = Len(s) + 1
      <4>1. r = temp[i]
        BY <1>2, <3>1
      <4>. HIDE DEF s, r
      <4>. QED BY <1>4, <3>1, <4>1
    <3>2. CASE i # Len(s) + 1
      <4>1. i \in 1..Len(s)
        BY <1>2, <3>2
      <4>. HIDE DEF s, r
      <4>. QED BY <1>2, <1>4, <4>1
    <3>. QED BY <3>1, <3>2
  <2>. QED BY <2>1
<1>6. rm'.at = Len(s) + 1 + 1 /\ rm'.at <= Len(temp) + 1
  <2>1. Len(temp) \in Nat /\ Len(s) \in Nat
    BY RmFacts
  <2>2. rm.at = Len(s) + 1 /\ rm'.at = rm.at + 1 /\ rm.at <= Len(temp)
    BY <1>1, <1>2
  <2>. HIDE DEF s
  <2>. QED BY <2>1, <2>2
<1>. HIDE DEF s, r
<1>. QED BY <1>1, <1>3, <1>4, <1>5, <1>6 DEF RewriteInv, CopyOutOK, CopyBackOK

LEMMA StepRewriteInv ==
    ASSUME Inv, RewriteInv, ~MidRewrite, [Next]_vars
    PROVE  RewriteInv'
<1>1. ASSUME MemoryLost, rm.step = "none", UNCHANGED temp
      PROVE  RewriteInv'
  <2>1. rm'.step = "none"
    BY <1>1 DEF MemoryLost, Idle
  <2>. QED BY <1>1, <2>1, RewriteUntouched
<1>2. CASE PowerOn \/ UNCHANGED vars
  BY <1>2 DEF PowerOn, vars, flashVars, RewriteInv, CopyOutOK, CopyBackOK
<1>3. CASE RestorePairs \/ Crash \/ JoinNoBlock
  <2>1. rm.step = "none" /\ UNCHANGED temp
    BY <1>3 DEF RestorePairs, Crash, JoinNoBlock, CpuFree, flashVars
  <2>2. MemoryLost \/ rm' = rm
    BY <1>3 DEF RestorePairs, Crash, JoinNoBlock
  <2>3. CASE rm' = rm
    BY <2>1, <2>3, RewriteUntouched
  <2>. QED BY <1>1, <2>1, <2>2, <2>3
<1>4. ASSUME rm.step = "none", rm' = rm, UNCHANGED temp
      PROVE  RewriteInv'
  BY <1>4, RewriteUntouched
<1>5. CASE HandlePair
  BY <1>4, <1>5 DEF HandlePair, flashVars
<1>6. ASSUME NEW d \in Devices, NEW r \in Records, JoinCreated(d, r) \/ JoinRefused(d, r)
      PROVE  RewriteInv'
  BY <1>4, <1>6 DEF JoinCreated, JoinRefused, CpuFree, flashVars
<1>7. ASSUME NEW d \in Devices, RemoveAll(d) \/ RemoveRefused(d)
      PROVE  RewriteInv'
  BY <1>4, <1>7 DEF RemoveAll, RemoveRefused, CpuFree, flashVars
<1>8. ASSUME NEW d \in Devices, NEW drop \in SUBSET (1..Len(file[d])), RemoveIndex(d, drop)
      PROVE  RewriteInv'
  <2>1. /\ rm'.step = "copy out" /\ rm'.dev = d /\ rm'.drop = drop /\ rm'.at = 1
        /\ rm'.kept = 0 /\ file' = file /\ temp' = temp /\ rm.step = "none"
    BY <1>8 DEF RemoveIndex, CpuFree, flashVars
  <2>2. temp = <<>> /\ file[d] \in Seq(Records)
    BY <2>1 DEF RewriteInv, Inv, FlashTypes
  <2>3. Store!KeptUpTo(file[d], drop)[0] = <<>>
    BY <2>2, KeptUpToDef, Zenon
  <2>4. 1 <= Len(file[d]) + 1 /\ 1 - 1 = 0 /\ Len(<<>>) = 0
    BY <2>2
  <2>5. CopyOutOK'
    <3>1. Store!KeptUpTo(file'[rm'.dev], rm'.drop)[rm'.at - 1] = <<>>
      BY <2>1, <2>3, <2>4
    <3>. QED BY <2>1, <2>2, <2>4, <3>1 DEF CopyOutOK
  <2>. QED BY <2>1, <2>5 DEF RewriteInv, CopyBackOK
<1>9. CASE RemoveDone
  <2>1. rm'.step = "none" /\ temp' = <<>>
    BY <1>9 DEF RemoveDone, Idle
  <2>. QED BY <2>1 DEF RewriteInv, CopyOutOK, CopyBackOK
<1>. QED
  BY <1>2, <1>3, <1>5, <1>6, <1>7, <1>8, <1>9, CopyOutKeepsRewrite, RecreateKeepsRewrite,
     CopyBackKeepsRewrite
     DEF Next, Node, Client

-----------------------------------------------------------------------------
(* What the steps do to the pairs the clients see. *)

LEMMA StoredIsFile ==
    ASSUME Inv
    PROVE  /\ rm.step # "copy back" => StoredPairs = file
           /\ rm.step = "copy back" => StoredPairs = [file EXCEPT ![rm.dev] = temp]
           /\ rm.step # "copy out" => Asked = {}
BY RmFacts DEF StoredPairs, Asked

(* The first two again, for the state after a step. *)
LEMMA StoredIsFileNext ==
    ASSUME Inv'
    PROVE  /\ rm'.step # "copy back" => StoredPairs' = file'
           /\ rm'.step = "copy back" => StoredPairs' = [file' EXCEPT ![rm'.dev] = temp']
           /\ rm'.step # "copy out" => Asked' = {}
<1>1. file' \in [Devices -> Seq(Records)]
  BY DEF Inv, FlashTypes
<1>. QED BY <1>1 DEF StoredPairs, Asked

StoredAlike == StoredPairs' = StoredPairs /\ Asked' = Asked
AddsPair(d, r) ==
    Asked = {} /\ Asked' = {} /\ StoredPairs' = [StoredPairs EXCEPT ![d] = Append(@, r)]
ClearsPairs(d) ==
    Asked = {} /\ Asked' = {} /\ StoredPairs' = [StoredPairs EXCEPT ![d] = <<>>]
AsksRemoval(d, drop) ==
    /\ Asked = {} /\ Asked' = {<<d, drop>>} /\ StoredPairs' = StoredPairs
    /\ drop \subseteq 1..Len(StoredPairs[d])
RemovesPairs(d, drop) ==
    /\ Asked = {<<d, drop>>} /\ Asked' = {}
    /\ StoredPairs' = [StoredPairs EXCEPT ![d] = Store!WithoutIndexes(@, drop)]

LEMMA JoinAdds ==
    ASSUME Inv, Inv', CreatedInv, NEW d \in Devices, NEW r \in Records, JoinCreated(d, r)
    PROVE  AddsPair(d, r)
<1>1. /\ rm.step = "none" /\ rm' = rm /\ leaked < MaxFd
      /\ file' = IF leaked < MaxFd THEN [file EXCEPT ![d] = Append(@, r)] ELSE file
  BY DEF JoinCreated, CpuFree, CreatedInv
<1>2. StoredPairs = file /\ StoredPairs' = file' /\ Asked = {} /\ Asked' = {}
  BY <1>1, StoredIsFile, StoredIsFileNext
<1>. QED BY <1>1, <1>2 DEF AddsPair

LEMMA RemoveAllClears ==
    ASSUME Inv, Inv', NEW d \in Devices, RemoveAll(d)
    PROVE  ClearsPairs(d)
<1>1. rm.step = "none" /\ rm' = rm /\ file' = [file EXCEPT ![d] = <<>>]
  BY DEF RemoveAll, CpuFree
<1>2. StoredPairs = file /\ StoredPairs' = file' /\ Asked = {} /\ Asked' = {}
  BY <1>1, StoredIsFile, StoredIsFileNext
<1>. QED BY <1>1, <1>2 DEF ClearsPairs

LEMMA RemoveIndexAsks ==
    ASSUME Inv, Inv', NEW d \in Devices, NEW drop \in SUBSET (1..Len(file[d])),
           RemoveIndex(d, drop)
    PROVE  AsksRemoval(d, drop)
<1>1. /\ rm.step = "none" /\ file' = file
      /\ rm'.step = "copy out" /\ rm'.dev = d /\ rm'.drop = drop
  BY DEF RemoveIndex, CpuFree, flashVars
<1>2. StoredPairs = file /\ StoredPairs' = file' /\ Asked = {}
  BY <1>1, StoredIsFile, StoredIsFileNext
<1>3. Asked' = {<<d, drop>>}
  BY <1>1 DEF Asked
<1>. QED BY <1>1, <1>2, <1>3 DEF AsksRemoval

(* The file is created again: what is in "temp" now takes its place. *)
LEMMA RecreateRemoves ==
    ASSUME Inv, Inv', RewriteInv, Recreate
    PROVE  RemovesPairs(rm.dev, rm.drop)
<1> DEFINE s == file[rm.dev]
<1>1. /\ rm.step = "copy out" /\ rm'.step = "copy back" /\ rm'.dev = rm.dev
      /\ file' = [file EXCEPT ![rm.dev] = <<>>] /\ temp' = temp /\ rm.at > Len(s)
  BY RmSteps DEF Recreate
<1>2. /\ StoredPairs = file /\ StoredPairs' = [file' EXCEPT ![rm.dev] = temp]
      /\ Asked = {<<rm.dev, rm.drop>>} /\ Asked' = {}
  <2>1. rm.step # "copy back" /\ rm'.step # "copy out"
    BY <1>1
  <2>2. Asked = {<<rm.dev, rm.drop>>}
    BY <1>1 DEF Asked
  <2>. QED BY <1>1, <2>1, <2>2, StoredIsFile, StoredIsFileNext
<1>3. temp = Store!WithoutIndexes(s, rm.drop)
  <2>1. rm.at <= Len(s) + 1 /\ temp = Store!KeptUpTo(s, rm.drop)[rm.at - 1]
    BY <1>1 DEF RewriteInv, CopyOutOK
  <2>2. rm.at \in Nat /\ Len(s) \in Nat
    BY RmFacts
  <2>3. rm.at - 1 = Len(s)
    <3>1. rm.at > Len(s) /\ rm.at <= Len(s) + 1
      BY <1>1, <2>1
    <3>. HIDE DEF s
    <3>. QED BY <2>2, <3>1
  <2>. QED BY <2>1, <2>3 DEF Store!WithoutIndexes
<1>4. [file' EXCEPT ![rm.dev] = temp] = [file EXCEPT ![rm.dev] = temp]
  BY <1>1, RmFacts
<1>. QED BY <1>2, <1>3, <1>4 DEF RemovesPairs

(* Copying records and removing "temp" change nothing a client sees. *)
LEMMA CopyingIsUnseen ==
    ASSUME Inv, Inv', RewriteInv, CopyOut \/ CopyBack \/ RemoveDone
    PROVE  StoredAlike
<1>1. CASE CopyOut
  <2>1. /\ rm.step = "copy out" /\ rm'.step = "copy out" /\ file' = file
        /\ rm'.dev = rm.dev /\ rm'.drop = rm.drop
    BY <1>1, RmSteps DEF CopyOut
  <2>2. StoredPairs = file /\ StoredPairs' = file
    BY <2>1, StoredIsFile, StoredIsFileNext
  <2>3. Asked' = Asked
    BY <2>1 DEF Asked
  <2>. QED BY <2>2, <2>3 DEF StoredAlike
<1>2. CASE CopyBack
  <2>1. /\ rm.step = "copy back" /\ rm'.step = "copy back" /\ rm'.dev = rm.dev
        /\ temp' = temp /\ file' = [file EXCEPT ![rm.dev] = Append(@, temp[rm.at])]
    BY <1>2, RmSteps DEF CopyBack
  <2>2. /\ StoredPairs = [file EXCEPT ![rm.dev] = temp]
        /\ StoredPairs' = [file' EXCEPT ![rm.dev] = temp]
        /\ Asked = {} /\ Asked' = {}
    BY <2>1, StoredIsFile, StoredIsFileNext
  <2>3. [file' EXCEPT ![rm.dev] = temp] = [file EXCEPT ![rm.dev] = temp]
    BY <2>1, RmFacts
  <2>. QED BY <2>2, <2>3 DEF StoredAlike
<1>3. CASE RemoveDone
  <2>1. /\ rm.step = "copy back" /\ rm'.step = "none" /\ file' = file
        /\ rm.at > Len(temp)
    BY <1>3 DEF RemoveDone, Idle
  <2>2. /\ StoredPairs = [file EXCEPT ![rm.dev] = temp] /\ StoredPairs' = file
        /\ Asked = {} /\ Asked' = {}
    BY <2>1, StoredIsFile, StoredIsFileNext
  <2>3. file[rm.dev] = temp
    <3> DEFINE s == file[rm.dev]
    <3>1. /\ rm.at = Len(s) + 1 /\ rm.at <= Len(temp) + 1
          /\ \A i \in 1..Len(s) : s[i] = temp[i]
      BY <2>1 DEF RewriteInv, CopyBackOK
    <3>2. s \in Seq(Records) /\ temp \in Seq(Records) /\ Len(s) \in Nat /\ Len(temp) \in Nat
      BY RmFacts
    <3>. HIDE DEF s
    <3>3. Len(s) = Len(temp)
      <4>1. rm.at = Len(s) + 1 /\ rm.at <= Len(temp) + 1 /\ rm.at > Len(temp)
        BY <2>1, <3>1
      <4>2. Len(s) \in Nat /\ Len(temp) \in Nat
        BY <3>2
      <4>. QED BY <4>1, <4>2
    <3>4. s = temp
      BY <3>1, <3>2, <3>3, SeqEqual
    <3>. QED BY <3>4 DEF s
  <2>4. [file EXCEPT ![rm.dev] = temp] = file
    BY <2>3, RmFacts
  <2>. QED BY <2>2, <2>4 DEF StoredAlike
<1>. QED BY <1>1, <1>2, <1>3

(* Nor do the other steps, a power loss included. *)
LEMMA OthersAreUnseen ==
    ASSUME Inv, Inv', ~MidRewrite,
           \/ PowerOn \/ RestorePairs \/ HandlePair \/ JoinNoBlock \/ Crash
           \/ \E d \in Devices, r \in Records : JoinRefused(d, r)
           \/ \E d \in Devices : RemoveRefused(d)
           \/ UNCHANGED vars
    PROVE  StoredAlike
<1>1. ASSUME rm.step = "none", rm'.step = "none", file' = file
      PROVE  StoredAlike
  BY <1>1, StoredIsFile, StoredIsFileNext DEF StoredAlike
<1>2. CASE PowerOn \/ UNCHANGED vars
  BY <1>2 DEF PowerOn, vars, flashVars, StoredAlike, StoredPairs, Asked
<1>3. CASE HandlePair
  BY <1>1, <1>3 DEF HandlePair, flashVars
<1>4. CASE RestorePairs \/ JoinNoBlock \/ Crash
  <2>1. rm.step = "none" /\ file' = file /\ (MemoryLost \/ rm' = rm)
    BY <1>4 DEF RestorePairs, JoinNoBlock, Crash, CpuFree, flashVars
  <2>2. MemoryLost => rm'.step = "none"
    BY DEF MemoryLost, Idle
  <2>. QED BY <1>1, <2>1, <2>2
<1>5. ASSUME NEW d \in Devices, NEW r \in Records, JoinRefused(d, r)
      PROVE  StoredAlike
  BY <1>1, <1>5 DEF JoinRefused, CpuFree, flashVars
<1>6. ASSUME NEW d \in Devices, RemoveRefused(d)
      PROVE  StoredAlike
  BY <1>1, <1>6 DEF RemoveRefused, CpuFree, flashVars
<1>. QED BY <1>2, <1>3, <1>4, <1>5, <1>6

(* Every step is one of PairStore's or changes nothing PairStore knows. *)
LEMMA StepImplements ==
    ASSUME Inv, Inv', CreatedInv, RewriteInv, ~MidRewrite, [Next]_vars
    PROVE  [Store!Next]_(Store!vars)
<1>1. StoredAlike => UNCHANGED Store!vars
  BY DEF StoredAlike, Store!vars
<1>2. ASSUME NEW d \in Devices, NEW r \in Records, AddsPair(d, r)
      PROVE  Store!Next
  BY <1>2 DEF AddsPair, Store!Next, Store!Add
<1>3. ASSUME NEW d \in Devices, ClearsPairs(d)
      PROVE  Store!Next
  BY <1>3 DEF ClearsPairs, Store!Next, Store!Clear
<1>4. ASSUME NEW d \in Devices, NEW drop, AsksRemoval(d, drop)
      PROVE  Store!Next
  BY <1>4 DEF AsksRemoval, Store!Next, Store!Ask
<1>5. ASSUME NEW d \in Devices, NEW drop, RemovesPairs(d, drop)
      PROVE  Store!Next
  <2>1. <<d, drop>> \in Asked /\ <<d, drop>>[1] = d /\ <<d, drop>>[2] = drop
    BY <1>5 DEF RemovesPairs
  <2>2. Store!Drop
    BY <1>5, <2>1 DEF RemovesPairs, Store!Drop
  <2>. QED BY <2>2 DEF Store!Next
<1>6. CASE CopyOut \/ CopyBack \/ RemoveDone
  BY <1>1, <1>6, CopyingIsUnseen
<1>7. CASE Recreate
  BY <1>5, <1>7, RecreateRemoves, RmFacts
<1>8. ASSUME NEW d \in Devices, NEW r \in Records, JoinCreated(d, r)
      PROVE  Store!Next
  BY <1>2, <1>8, JoinAdds
<1>9. ASSUME NEW d \in Devices, RemoveAll(d)
      PROVE  Store!Next
  BY <1>3, <1>9, RemoveAllClears
<1>10. ASSUME NEW d \in Devices, NEW drop \in SUBSET (1..Len(file[d])), RemoveIndex(d, drop)
       PROVE  Store!Next
  BY <1>4, <1>10, RemoveIndexAsks
<1>11. ASSUME \/ PowerOn \/ RestorePairs \/ HandlePair \/ JoinNoBlock \/ Crash
              \/ \E d \in Devices, r \in Records : JoinRefused(d, r)
              \/ \E d \in Devices : RemoveRefused(d)
              \/ UNCHANGED vars
       PROVE  UNCHANGED Store!vars
  BY <1>1, <1>11, OthersAreUnseen
<1>. QED
  BY <1>6, <1>7, <1>8, <1>9, <1>10, <1>11 DEF Next, Node, Client

(* If the power does not fail in the middle of pairRemoveIndex, the pairs  *)
(* file does what PairStore promises, for any files and any pool: a join   *)
(* adds one pair at the end, a removal takes away exactly the pairs it was *)
(* given, at one moment, and no boot, refusal or power loss changes it.    *)
THEOREM StoreImplemented == ASSUME ~MidRewrite PROVE Spec => ImplementsPairStore
<1>1. Init => Inv /\ CreatedInv /\ RewriteInv
  BY InitInv, InitCreatedInv, InitRewriteInv
<1>2. Inv /\ CreatedInv /\ RewriteInv /\ [Next]_vars => Inv' /\ CreatedInv' /\ RewriteInv'
  BY StepInv, StepCreatedInv, StepRewriteInv
<1>3. Init => Store!Init
  BY DEF Init, Store!Init, StoredPairs, Asked, Idle
<1>4. Inv /\ Inv' /\ CreatedInv /\ RewriteInv /\ [Next]_vars => [Store!Next]_(Store!vars)
  BY StepImplements
<1>. QED BY <1>1, <1>2, <1>3, <1>4, PTL DEF Spec, ImplementsPairStore, Store!Spec

-----------------------------------------------------------------------------
(* No redundant pairs, when the commands wait for the boot to be done. *)

Distinct(s) == \A i, j \in 1..Len(s) : i # j => s[i].url # s[j].url

LEMMA DistinctAppend ==
    ASSUME NEW s \in Seq(Records), NEW r \in Records, Distinct(s),
           \A i \in 1..Len(s) : s[i].url # r.url
    PROVE  Distinct(Append(s, r))
<1> DEFINE t == Append(s, r)
           n == Len(s)
<1>1. /\ Len(t) = n + 1 /\ n \in Nat
      /\ \A i \in 1..n : t[i] = s[i]
      /\ t[n + 1] = r
  BY AppendProperties
<1>2. \A i \in 1..n : s[i].url # r.url
  OBVIOUS
<1>3. \A i, j \in 1..n : i # j => s[i].url # s[j].url
  BY DEF Distinct
<1>. HIDE DEF t, n
<1>4. ASSUME NEW i \in 1..n + 1, NEW j \in 1..n + 1, i # j
      PROVE  t[i].url # t[j].url
  <2>1. /\ i # n + 1 => i \in 1..n
        /\ j # n + 1 => j \in 1..n
    BY <1>1
  <2>2. CASE i = n + 1
    BY <1>1, <1>2, <1>4, <2>1, <2>2
  <2>3. CASE j = n + 1
    BY <1>1, <1>2, <1>4, <2>1, <2>3
  <2>4. CASE i # n + 1 /\ j # n + 1
    BY <1>1, <1>3, <1>4, <2>1, <2>4
  <2>. QED BY <2>2, <2>3, <2>4
<1>5. \A i, j \in 1..Len(t) : i # j => t[i].url # t[j].url
  BY <1>1, <1>4
<1>. QED BY <1>5 DEF Distinct, t

(* What a removal leaves is a part of what there was. *)
LEMMA WithoutIndexesFacts ==
    ASSUME NEW s \in Seq(Records), NEW X
    PROVE  /\ Store!WithoutIndexes(s, X) \in Seq(Records)
           /\ Len(Store!WithoutIndexes(s, X)) <= Len(s)
           /\ \A i \in 1..Len(Store!WithoutIndexes(s, X)) :
                 \E j \in 1..Len(s) : Store!WithoutIndexes(s, X)[i] = s[j]
           /\ Distinct(s) => Distinct(Store!WithoutIndexes(s, X))
<1> DEFINE kept == Store!KeptUpTo(s, X)
           Part(m) == /\ kept[m] \in Seq(Records)
                      /\ Len(kept[m]) <= m
                      /\ \A i \in 1..Len(kept[m]) : \E j \in 1..m : kept[m][i] = s[j]
                      /\ Distinct(s) => Distinct(kept[m])
           Ok == {m \in Nat : m <= Len(s) => Part(m)}
<1>1. /\ kept \in [0..Len(s) -> Seq(Records)]
      /\ kept[0] = <<>>
      /\ \A n \in 1..Len(s) : kept[n] = IF n \in X THEN kept[n - 1]
                                        ELSE Append(kept[n - 1], s[n])
  BY KeptUpToDef, Zenon
<1>. HIDE DEF kept
<1>2. 0 \in Ok
  <2>1. kept[0] \in Seq(Records) /\ Len(kept[0]) = 0
    BY <1>1
  <2>2. Distinct(kept[0])
    BY <2>1 DEF Distinct
  <2>. QED BY <2>1, <2>2
<1>3. ASSUME NEW m \in Ok \cap Nat
      PROVE  m + 1 \in Ok
  <2>. SUFFICES ASSUME m + 1 <= Len(s)
                PROVE  Part(m + 1)
    OBVIOUS
  <2>1. Part(m) /\ m \in Nat /\ m <= Len(s)
    OBVIOUS
  <2>2. m + 1 \in 1..Len(s) /\ (m + 1) - 1 = m
    OBVIOUS
  <2>3. kept[m + 1] = IF m + 1 \in X THEN kept[m] ELSE Append(kept[m], s[m + 1])
    BY <1>1, <2>2
  <2>4. s[m + 1] \in Records
    BY <2>2, ElementOfSeq
  <2>5. CASE m + 1 \in X
    <3>1. kept[m + 1] = kept[m]
      BY <2>3, <2>5
    <3>2. Len(kept[m]) <= m + 1
      BY <2>1
    <3>3. \A j \in 1..m : j \in 1..m + 1
      BY <2>1
    <3>. QED BY <2>1, <3>1, <3>2, <3>3
  <2>6. CASE m + 1 \notin X
    <3> DEFINE t == kept[m]
               r == s[m + 1]
    <3>1. kept[m + 1] = Append(t, r)
      BY <2>3, <2>6
    <3>2. t \in Seq(Records) /\ r \in Records /\ Len(t) <= m /\ Len(t) \in Nat
      BY <2>1, <2>4, LenProperties
    <3>3. \A i \in 1..Len(t) : \E j \in 1..m : t[i] = s[j]
      BY <2>1
    <3>4. Distinct(s) => Distinct(t)
      BY <2>1
    <3>5. /\ Append(t, r) \in Seq(Records)
          /\ Len(Append(t, r)) = Len(t) + 1
          /\ \A i \in 1..Len(t) : Append(t, r)[i] = t[i]
          /\ Append(t, r)[Len(t) + 1] = r
      <4>. HIDE DEF t, r
      <4>. QED BY <3>2, AppendProperties
    <3>6. ASSUME NEW i \in 1..Len(t) + 1
          PROVE  \E j \in 1..m + 1 : Append(t, r)[i] = s[j]
      <4>1. CASE i = Len(t) + 1
        <5>1. m + 1 \in 1..m + 1
          BY <2>1
        <5>2. Append(t, r)[i] = r
          BY <3>5, <4>1
        <5>. QED BY <5>1, <5>2
      <4>2. CASE i # Len(t) + 1
        <5>1. i \in 1..Len(t)
          <6>. HIDE DEF t
          <6>. QED BY <3>2, <4>2
        <5>2. PICK j \in 1..m : t[i] = s[j]
          BY <3>3, <5>1
        <5>3. j \in 1..m + 1
          BY <2>1
        <5>4. Append(t, r)[i] = t[i]
          BY <3>5, <5>1
        <5>. QED BY <5>2, <5>3, <5>4
      <4>. QED BY <4>1, <4>2
    <3>7. ASSUME Distinct(s)
          PROVE  Distinct(Append(t, r))
      <4>1. ASSUME NEW i \in 1..Len(t)
            PROVE  t[i].url # r.url
        <5>1. PICK j \in 1..m : t[i] = s[j]
          BY <3>3
        <5>2. j \in 1..Len(s) /\ m + 1 \in 1..Len(s) /\ j # m + 1
          BY <2>1, <2>2
        <5>3. s[j].url # s[m + 1].url
          BY <3>7, <5>2 DEF Distinct
        <5>. QED BY <5>1, <5>3
      <4>2. Distinct(t)
        BY <3>4, <3>7
      <4>. HIDE DEF t, r
      <4>. QED BY <3>2, <4>1, <4>2, DistinctAppend
    <3>8. Len(t) + 1 <= m + 1
      <4>. HIDE DEF t
      <4>. QED BY <2>1, <3>2
    <3>. HIDE DEF t, r
    <3>. QED BY <3>1, <3>5, <3>6, <3>7, <3>8
  <2>. QED BY <2>5, <2>6
<1>4. Part(Len(s))
  <2>1. Nat \subseteq Ok
    <3>. HIDE DEF Ok
    <3>. QED BY <1>2, <1>3, NumbersInduction
  <2>. QED BY <2>1
<1>5. kept[Len(s)] = Store!WithoutIndexes(s, X)
  BY DEF kept, Store!WithoutIndexes
<1>. QED BY <1>4, <1>5

(* Commands wait for the boot loop: a removal runs only when all the lists *)
(* have been read back.                                                    *)
BootInv ==
    /\ phase = "on" => restored = NDev
    /\ rm.step # "none" => phase = "on"

LEMMA InitBootInv == Init => BootInv
BY DEF Init, BootInv, Idle

LEMMA StepBootInv ==
    ASSUME BootInv, ~EarlyTraffic, [Next]_vars
    PROVE  BootInv'
<1>1. ASSUME MemoryLost
      PROVE  BootInv'
  BY <1>1 DEF MemoryLost, BootInv, Idle
<1>2. CASE PowerOn \/ UNCHANGED vars
  BY <1>2 DEF PowerOn, vars, BootInv
<1>3. CASE RestorePairs
  <2>1. CASE ~MemoryLost
    <3>1. /\ restored' = restored + 1 /\ phase' = IF restored + 1 = NDev THEN "on" ELSE "restore"
          /\ rm' = rm /\ rm.step = "none"
      BY <1>3, <2>1 DEF RestorePairs
    <3>. QED BY <3>1 DEF BootInv
  <2>. QED BY <1>1, <2>1
<1>4. CASE JoinNoBlock \/ Crash
  BY <1>1, <1>4 DEF JoinNoBlock, Crash
<1>5. ASSUME phase = "on", phase' = phase, restored' = restored
      PROVE  BootInv'
  BY <1>5 DEF BootInv
<1>6. CASE HandlePair
  BY <1>5, <1>6 DEF HandlePair
<1>7. CASE CopyOut \/ Recreate \/ CopyBack \/ RemoveDone
  <2>1. rm.step # "none" /\ UNCHANGED <<phase, restored>>
    BY <1>7 DEF CopyOut, Recreate, CopyBack, RemoveDone
  <2>. QED BY <1>5, <2>1 DEF BootInv
<1>8. ASSUME NEW d \in Devices,
             \/ \E r \in Records : JoinCreated(d, r) \/ JoinRefused(d, r)
             \/ RemoveAll(d) \/ RemoveRefused(d)
             \/ \E drop \in SUBSET (1..Len(file[d])) : RemoveIndex(d, drop)
      PROVE  BootInv'
  <2>1. CpuFree /\ UNCHANGED <<phase, restored>>
    BY <1>8 DEF JoinCreated, JoinRefused, RemoveAll, RemoveRefused, RemoveIndex
  <2>. QED BY <1>5, <2>1 DEF CpuFree
<1>. QED
  BY <1>2, <1>3, <1>4, <1>6, <1>7, <1>8 DEF Next, Node, Client

(* What is stored has been read back into the lists, or joined there. *)
ListedUrls(d) == {blk[pairs[d][i]].rec.url : i \in 1..Len(pairs[d])}
StoredUrls(d) == {StoredPairs[d][i].url : i \in 1..Len(StoredPairs[d])}
UrlsInv ==
    /\ \A d \in Devices : Distinct(StoredPairs[d])
    /\ \A d \in Devices : d <= restored => StoredUrls(d) \subseteq ListedUrls(d)

LEMMA InitUrlsInv == Init => UrlsInv
<1>. SUFFICES ASSUME Init
              PROVE  UrlsInv
  OBVIOUS
<1>1. \A d \in Devices : StoredPairs[d] = <<>>
  BY DEF Init, StoredPairs, Idle
<1>2. Len(<<>>) = 0
  OBVIOUS
<1>. QED BY <1>1, <1>2 DEF UrlsInv, Distinct, StoredUrls

LEMMA StoredPairsType == Inv => StoredPairs \in [Devices -> Seq(Records)]
BY RmFacts, StoredIsFile

(* No step that keeps the lists changes what they hold. *)
LEMMA ListedUrlsStay ==
    ASSUME Inv, [Next]_vars, phase' # "off", NEW d \in Devices, pairs'[d] = pairs[d]
    PROVE  ListedUrls(d)' = ListedUrls(d)
<1>1. \A i \in 1..Len(pairs[d]) : pairs[d][i] \in Referenced
  BY DEF Referenced, Listed
<1>2. \A i \in 1..Len(pairs[d]) : blk'[pairs[d][i]] = blk[pairs[d][i]]
  BY <1>1, StepKeepsPairs
<1>. QED BY <1>2 DEF ListedUrls

LEMMA UrlsUnchanged ==
    ASSUME Inv, UrlsInv, [Next]_vars, StoredPairs' = StoredPairs,
           UNCHANGED <<restored, pairs>>, phase' # "off"
    PROVE  UrlsInv'
<1>1. \A d \in Devices : ListedUrls(d)' = ListedUrls(d)
  BY ListedUrlsStay
<1>2. \A d \in Devices : StoredUrls(d)' = StoredUrls(d)
  BY DEF StoredUrls
<1>. QED BY <1>1, <1>2 DEF UrlsInv

LEMMA UrlsAfterReset ==
    ASSUME Inv, UrlsInv, StoredPairs' = StoredPairs, MemoryLost
    PROVE  UrlsInv'
<1>1. restored' = 0 /\ \A d \in Devices : ~(d <= 0)
  BY Sizes DEF MemoryLost, Devices
<1>. QED BY <1>1 DEF UrlsInv

LEMMA RestoreKeepsUrls ==
    ASSUME Inv, Inv', UrlsInv, [Next]_vars, RestorePairs, StoredPairs' = StoredPairs, ~MemoryLost
    PROVE  UrlsInv'
<1>0. PICK e \in Devices : e = restored + 1
  <2>1. restored \in 0..NDev /\ restored < NDev
    BY DEF RestorePairs, Inv, CtlTypes, Running
  <2>. QED BY <2>1, Sizes DEF Devices
<1> DEFINE n == Len(file[e])
           new == [i \in 1..n |-> allocated + i]
<1>1. /\ allocated + n <= PoolSize
      /\ blk' = [b \in Blocks |->
                    IF b \in allocated + 1..allocated + n
                      THEN Filled(b, e, file[e][b - allocated]) ELSE blk[b]]
      /\ pairs' = [pairs EXCEPT ![e] = @ \o new]
      /\ restored' = e /\ rm.step = "none" /\ phase' # "off" /\ phase \in {"coap", "restore"}
  BY <1>0 DEF RestorePairs
<1>2. /\ allocated \in Nat /\ restored \in Nat
      /\ file \in [Devices -> Seq(Records)] /\ pairs \in [Devices -> Seq(Blocks)]
      /\ file[e] \in Seq(Records) /\ n \in Nat
  <2>1. allocated \in Nat /\ restored \in Nat
    BY Sizes DEF Inv, CtlTypes, MemTypes
  <2>2. file \in [Devices -> Seq(Records)] /\ pairs \in [Devices -> Seq(Blocks)]
    BY DEF Inv, FlashTypes, MemTypes
  <2>3. file[e] \in Seq(Records)
    BY <2>2
  <2>. QED BY <2>1, <2>2, <2>3, LenProperties
<1>3. StoredPairs = file
  BY <1>1, StoredIsFile
<1>4. \A i \in 1..n : allocated + i \in Blocks /\ allocated + i \in allocated + 1..allocated + n
                      /\ (allocated + i) - allocated = i
  <2>. HIDE DEF n
  <2>. QED BY <1>1, <1>2, Sizes DEF Blocks
<1>5. \A i \in 1..n : blk'[allocated + i].rec = file[e][i]
  <2>. SUFFICES ASSUME NEW i \in 1..n
                PROVE  blk'[allocated + i].rec = file[e][i]
    OBVIOUS
  <2>1. blk'[allocated + i] = Filled(allocated + i, e, file[e][i])
    BY <1>1, <1>4
  <2>. QED BY <2>1 DEF Filled
<1>6. /\ new \in Seq(Blocks) /\ Len(new) = n /\ \A i \in 1..n : new[i] = allocated + i
  <2>1. n \in Nat /\ \A i \in 1..n : allocated + i \in Blocks
    BY <1>2, <1>4
  <2>. HIDE DEF n
  <2>. QED BY <2>1
<1>7. pairs'[e] = pairs[e] \o new /\ pairs[e] \in Seq(Blocks)
  BY <1>1, <1>2
<1>8. StoredUrls(e)' \subseteq ListedUrls(e)'
  <2>. HIDE DEF new
  <2>1. ASSUME NEW i \in 1..n
        PROVE  file[e][i].url \in ListedUrls(e)'
    <3> DEFINE k == Len(pairs[e])
    <3>1. k \in Nat
      BY <1>7, LenProperties
    <3>2. /\ Len(pairs[e] \o new) = k + n
          /\ \A j \in 1..k + n :
                (pairs[e] \o new)[j] = IF j <= k THEN pairs[e][j] ELSE new[j - k]
      <4>1. new \in Seq(Blocks) /\ Len(new) = n /\ pairs[e] \in Seq(Blocks)
        BY <1>6, <1>7
      <4>. HIDE DEF n
      <4>. QED BY <4>1, ConcatProperties
    <3>. HIDE DEF k, n
    <3>3. k + i \in 1..k + n /\ ~(k + i <= k) /\ (k + i) - k = i
      BY <1>2, <3>1
    <3>4. (pairs[e] \o new)[k + i] = new[i] /\ new[i] = allocated + i
      BY <1>6, <3>2, <3>3
    <3>5. k + i \in 1..Len(pairs'[e]) /\ pairs'[e][k + i] = allocated + i
      BY <1>7, <3>2, <3>3, <3>4
    <3>6. blk'[pairs'[e][k + i]].rec.url = file[e][i].url
      BY <1>5, <3>5
    <3>. QED BY <3>5, <3>6 DEF ListedUrls
  <2>2. StoredUrls(e)' = {file[e][i].url : i \in 1..n}
    <3>1. StoredUrls(e)' = {StoredPairs'[e][i].url : i \in 1..Len(StoredPairs'[e])}
      BY DEF StoredUrls
    <3>2. StoredPairs'[e] = file[e]
      BY <1>3
    <3>. QED BY <3>1, <3>2
  <2>. QED BY <2>1, <2>2
<1>9. ASSUME NEW d \in Devices, d <= restored', d # e
      PROVE  StoredUrls(d)' \subseteq ListedUrls(d)'
  <2>1. d <= restored
    BY <1>0, <1>1, <1>2, <1>9 DEF Devices
  <2>2. pairs'[d] = pairs[d]
    BY <1>1, <1>2, <1>9
  <2>3. ListedUrls(d)' = ListedUrls(d)
    BY <1>1, <2>2, ListedUrlsStay
  <2>4. StoredUrls(d)' = StoredUrls(d)
    BY DEF StoredUrls
  <2>. QED BY <2>1, <2>3, <2>4 DEF UrlsInv
<1>10. \A d \in Devices : Distinct(StoredPairs[d])'
  BY DEF UrlsInv
<1>11. \A d \in Devices : d <= restored' => StoredUrls(d)' \subseteq ListedUrls(d)'
  BY <1>8, <1>9
<1>. QED BY <1>10, <1>11 DEF UrlsInv

LEMMA JoinKeepsUrls ==
    ASSUME Inv, UrlsInv, BootInv, ~EarlyTraffic, [Next]_vars,
           NEW d \in Devices, NEW r \in Records, JoinCreated(d, r), AddsPair(d, r)
    PROVE  UrlsInv'
<1> DEFINE s == StoredPairs[d]
           k == Len(pairs[d])
<1>1. /\ phase = "on" /\ phase' = phase /\ restored' = restored /\ ~Known(d, r)
      /\ blk' = [blk EXCEPT ![NextBlock] = Filled(NextBlock, d, r)]
      /\ pairs' = [pairs EXCEPT ![d] = Append(@, NextBlock)]
      /\ allocated < PoolSize
  BY DEF JoinCreated, CpuFree
<1>2. /\ restored = NDev /\ \A e \in Devices : e <= restored
  BY <1>1, Sizes DEF BootInv, Devices
<1>3. /\ StoredPairs' = [StoredPairs EXCEPT ![d] = Append(s, r)]
      /\ StoredPairs \in [Devices -> Seq(Records)] /\ s \in Seq(Records)
  BY StoredPairsType DEF AddsPair
<1>4. StoredPairs'[d] = Append(s, r)
  BY <1>3
<1>5. /\ pairs[d] \in Seq(Blocks) /\ pairs \in [Devices -> Seq(Blocks)] /\ k \in Nat
      /\ blk \in [Blocks -> [dev : Devices, rec : Records \cup {NoRecord},
                             suburl : Urls \cup {NoUrl}]]
      /\ NextBlock \in Blocks
  <2>1. pairs \in [Devices -> Seq(Blocks)]
    BY DEF Inv, MemTypes
  <2>2. NextBlock \in Blocks
    BY <1>1, Sizes DEF NextBlock, Blocks, Inv, MemTypes
  <2>. QED BY <2>1, <2>2, LenProperties DEF Inv, MemTypes
<1>6. StoredUrls(d) \subseteq ListedUrls(d)
  BY <1>2 DEF UrlsInv
<1>7. r.url \notin ListedUrls(d)
  BY <1>1 DEF Known, ListedUrls
<1>8. Distinct(Append(s, r))
  <2>1. Distinct(s)
    BY DEF UrlsInv
  <2>2. \A i \in 1..Len(s) : s[i].url # r.url
    BY <1>6, <1>7 DEF StoredUrls
  <2>. HIDE DEF s
  <2>. QED BY <1>3, <2>1, <2>2, DistinctAppend
<1>9. \A e \in Devices : Distinct(StoredPairs'[e])
  <2>1. ASSUME NEW e \in Devices
        PROVE  Distinct(StoredPairs'[e])
    <3>1. CASE e = d
      BY <1>4, <1>8, <3>1
    <3>2. CASE e # d
      <4>1. StoredPairs'[e] = StoredPairs[e]
        BY <1>3, <3>2
      <4>. QED BY <4>1 DEF UrlsInv
    <3>. QED BY <3>1, <3>2
  <2>. QED BY <2>1
<1>10. ListedUrls(d) \subseteq ListedUrls(d)' /\ r.url \in ListedUrls(d)'
  <2>1. pairs'[d] = Append(pairs[d], NextBlock)
    BY <1>1, <1>5
  <2>2. /\ Len(Append(pairs[d], NextBlock)) = k + 1
        /\ \A i \in 1..k : Append(pairs[d], NextBlock)[i] = pairs[d][i]
        /\ Append(pairs[d], NextBlock)[k + 1] = NextBlock
    BY <1>5, AppendProperties
  <2>3. blk'[NextBlock].rec = r
    <3>1. blk'[NextBlock] = Filled(NextBlock, d, r)
      BY <1>1, <1>5
    <3>. QED BY <3>1 DEF Filled
  <2>4. \A i \in 1..k : blk'[pairs[d][i]] = blk[pairs[d][i]]
    <3>1. \A i \in 1..k : pairs[d][i] \in Referenced
      BY DEF Referenced, Listed
    <3>2. phase' # "off"
      BY <1>1
    <3>. QED BY <3>1, <3>2, StepKeepsPairs
  <2>. HIDE DEF k
  <2>5. k + 1 \in 1..Len(pairs'[d]) /\ pairs'[d][k + 1] = NextBlock
    BY <1>5, <2>1, <2>2
  <2>6. r.url \in ListedUrls(d)'
    <3>1. blk'[pairs'[d][k + 1]].rec.url = r.url
      BY <2>3, <2>5
    <3>. QED BY <2>5, <3>1 DEF ListedUrls
  <2>7. ASSUME NEW i \in 1..k
        PROVE  blk[pairs[d][i]].rec.url \in ListedUrls(d)'
    <3>1. i \in 1..k + 1
      BY <1>5
    <3>2. i \in 1..Len(pairs'[d]) /\ pairs'[d][i] = pairs[d][i]
      BY <2>1, <2>2, <3>1
    <3>3. blk'[pairs'[d][i]].rec.url = blk[pairs[d][i]].rec.url
      BY <2>4, <3>2
    <3>. QED BY <3>2, <3>3 DEF ListedUrls
  <2>8. ListedUrls(d) = {blk[pairs[d][i]].rec.url : i \in 1..k}
    BY DEF ListedUrls, k
  <2>. QED BY <2>6, <2>7, <2>8
<1>11. StoredUrls(d)' \subseteq ListedUrls(d)'
  <2>1. Len(s) \in Nat /\ Len(Append(s, r)) = Len(s) + 1
        /\ (\A i \in 1..Len(s) : Append(s, r)[i] = s[i]) /\ Append(s, r)[Len(s) + 1] = r
    <3>. HIDE DEF s
    <3>. QED BY <1>3, AppendProperties, LenProperties
  <2>2. StoredUrls(d)' = {Append(s, r)[i].url : i \in 1..Len(Append(s, r))}
    <3>1. StoredUrls(d)' = {StoredPairs'[d][i].url : i \in 1..Len(StoredPairs'[d])}
      BY DEF StoredUrls
    <3>. QED BY <1>4, <3>1
  <2>3. ASSUME NEW i \in 1..Len(s) + 1
        PROVE  Append(s, r)[i].url \in ListedUrls(d)'
    <3>1. CASE i = Len(s) + 1
      BY <1>10, <2>1, <3>1
    <3>2. CASE i # Len(s) + 1
      <4>1. i \in 1..Len(s)
        <5>. HIDE DEF s
        <5>. QED BY <2>1, <3>2
      <4>2. s[i].url \in StoredUrls(d)
        BY <4>1 DEF StoredUrls
      <4>3. Append(s, r)[i].url = s[i].url
        BY <2>1, <4>1
      <4>. QED BY <1>6, <1>10, <4>2, <4>3
    <3>. QED BY <3>1, <3>2
  <2>4. 1..Len(Append(s, r)) = 1..Len(s) + 1
    BY <2>1
  <2>. HIDE DEF s
  <2>. QED BY <2>2, <2>3, <2>4
<1>12. ASSUME NEW e \in Devices, e # d
       PROVE  StoredUrls(e)' \subseteq ListedUrls(e)'
  <2>1. pairs'[e] = pairs[e] /\ StoredPairs'[e] = StoredPairs[e]
    BY <1>1, <1>3, <1>5, <1>12
  <2>2. ListedUrls(e)' = ListedUrls(e)
    BY <1>1, <2>1, ListedUrlsStay
  <2>3. StoredUrls(e)' = StoredUrls(e)
    BY <2>1 DEF StoredUrls
  <2>. QED BY <1>2, <2>2, <2>3 DEF UrlsInv
<1>13. \A e \in Devices : StoredUrls(e)' \subseteq ListedUrls(e)'
  BY <1>11, <1>12
<1>. QED BY <1>9, <1>13 DEF UrlsInv

LEMMA ClearKeepsUrls ==
    ASSUME Inv, UrlsInv, [Next]_vars, NEW d \in Devices, RemoveAll(d), ClearsPairs(d)
    PROVE  UrlsInv'
<1>1. /\ phase' = phase /\ phase # "off" /\ restored' = restored
      /\ pairs' = [pairs EXCEPT ![d] = <<>>] /\ pairs \in [Devices -> Seq(Blocks)]
      /\ StoredPairs' = [StoredPairs EXCEPT ![d] = <<>>]
      /\ StoredPairs \in [Devices -> Seq(Records)]
  BY StoredPairsType DEF RemoveAll, CpuFree, ClearsPairs, Inv, MemTypes
<1>2. StoredPairs'[d] = <<>> /\ Len(<<>>) = 0
  BY <1>1
<1>3. Distinct(StoredPairs'[d]) /\ StoredUrls(d)' = {}
  BY <1>2 DEF Distinct, StoredUrls
<1>4. ASSUME NEW e \in Devices, e # d
      PROVE  /\ StoredPairs'[e] = StoredPairs[e]
             /\ StoredUrls(e)' = StoredUrls(e) /\ ListedUrls(e)' = ListedUrls(e)
  <2>1. pairs'[e] = pairs[e] /\ StoredPairs'[e] = StoredPairs[e]
    BY <1>1, <1>4
  <2>. QED BY <1>1, <2>1, ListedUrlsStay DEF StoredUrls
<1>. QED BY <1>1, <1>3, <1>4 DEF UrlsInv

LEMMA RemoveKeepsUrls ==
    ASSUME Inv, UrlsInv, [Next]_vars, Recreate, rm.dev \in Devices, phase # "off",
           RemovesPairs(rm.dev, rm.drop)
    PROVE  UrlsInv'
<1> DEFINE s == StoredPairs[rm.dev]
           t == Store!WithoutIndexes(s, rm.drop)
<1>1. /\ phase' # "off" /\ UNCHANGED <<restored, pairs>>
      /\ StoredPairs' = [StoredPairs EXCEPT ![rm.dev] = t]
      /\ StoredPairs \in [Devices -> Seq(Records)] /\ s \in Seq(Records)
  BY StoredPairsType DEF Recreate, memVars, RemovesPairs
<1>2. /\ Distinct(s) => Distinct(t)
      /\ \A i \in 1..Len(t) : \E j \in 1..Len(s) : t[i] = s[j]
  <2>1. s \in Seq(Records)
    BY <1>1
  <2>. HIDE DEF s
  <2>. QED BY <2>1, WithoutIndexesFacts
<1>3. ASSUME NEW e \in Devices
      PROVE  /\ Distinct(StoredPairs'[e])
             /\ StoredUrls(e)' \subseteq StoredUrls(e)
             /\ ListedUrls(e)' = ListedUrls(e)
  <2>1. ListedUrls(e)' = ListedUrls(e)
    BY <1>1, ListedUrlsStay
  <2>2. CASE e = rm.dev
    <3>1. StoredPairs'[e] = t
      BY <1>1, <2>2
    <3>2. Distinct(s)
      BY <2>2 DEF UrlsInv
    <3>3. StoredUrls(e) = {s[j].url : j \in 1..Len(s)}
      BY <2>2 DEF StoredUrls
    <3>4. StoredUrls(e)' = {t[i].url : i \in 1..Len(t)}
      <4>. HIDE DEF t
      <4>. QED BY <3>1 DEF StoredUrls
    <3>. HIDE DEF s, t
    <3>. QED BY <1>2, <2>1, <3>1, <3>2, <3>3, <3>4
  <2>3. CASE e # rm.dev
    <3>1. StoredPairs'[e] = StoredPairs[e]
      BY <1>1, <2>3
    <3>. QED BY <2>1, <3>1 DEF UrlsInv, StoredUrls
  <2>. QED BY <2>2, <2>3
<1>. QED BY <1>1, <1>3 DEF UrlsInv

LEMMA StepUrlsInv ==
    ASSUME Inv, Inv', CreatedInv, RewriteInv, BootInv, UrlsInv,
           ~MidRewrite, ~EarlyTraffic, [Next]_vars
    PROVE  UrlsInv'
<1>1. CASE PowerOn \/ HandlePair
  <2>1. StoredPairs' = StoredPairs
    BY <1>1, OthersAreUnseen DEF StoredAlike
  <2>2. UNCHANGED <<restored, pairs>> /\ phase' # "off"
    BY <1>1 DEF PowerOn, HandlePair, memVars
  <2>. QED BY <2>1, <2>2, UrlsUnchanged
<1>2. CASE UNCHANGED vars
  <2>1. StoredPairs' = StoredPairs
    BY <1>2, OthersAreUnseen DEF StoredAlike
  <2>2. UNCHANGED <<restored, pairs, blk>>
    BY <1>2 DEF vars, memVars
  <2>3. \A d \in Devices : StoredUrls(d)' = StoredUrls(d) /\ ListedUrls(d)' = ListedUrls(d)
    BY <2>1, <2>2 DEF StoredUrls, ListedUrls
  <2>. QED BY <2>1, <2>2, <2>3 DEF UrlsInv
<1>3. CASE RestorePairs \/ JoinNoBlock \/ Crash
  <2>1. StoredPairs' = StoredPairs
    BY <1>3, OthersAreUnseen DEF StoredAlike
  <2>2. CASE MemoryLost
    BY <2>1, <2>2, UrlsAfterReset
  <2>3. CASE ~MemoryLost
    <3>1. RestorePairs
      BY <1>3, <2>3 DEF JoinNoBlock, Crash
    <3>. QED BY <2>1, <2>3, <3>1, RestoreKeepsUrls
  <2>. QED BY <2>2, <2>3
<1>4. CASE CopyOut \/ CopyBack \/ RemoveDone
  <2>1. StoredPairs' = StoredPairs
    BY <1>4, CopyingIsUnseen DEF StoredAlike
  <2>2. UNCHANGED <<phase, restored, pairs>> /\ rm.step # "none"
    BY <1>4 DEF CopyOut, CopyBack, RemoveDone, memVars
  <2>3. phase' # "off"
    BY <2>2 DEF BootInv
  <2>. QED BY <2>1, <2>2, <2>3, UrlsUnchanged
<1>5. CASE Recreate
  <2>1. phase # "off"
    BY <1>5 DEF Recreate, BootInv
  <2>. QED BY <1>5, <2>1, RecreateRemoves, RmFacts, RemoveKeepsUrls
<1>6. ASSUME NEW d \in Devices, NEW r \in Records, JoinCreated(d, r)
      PROVE  UrlsInv'
  BY <1>6, JoinAdds, JoinKeepsUrls
<1>7. ASSUME NEW d \in Devices, RemoveAll(d)
      PROVE  UrlsInv'
  BY <1>7, RemoveAllClears, ClearKeepsUrls
<1>8. ASSUME NEW d \in Devices,
             (\E r \in Records : JoinRefused(d, r)) \/ RemoveRefused(d)
      PROVE  UrlsInv'
  <2>1. StoredPairs' = StoredPairs
    BY <1>8, OthersAreUnseen DEF StoredAlike
  <2>2. UNCHANGED <<phase, restored, pairs>> /\ CpuFree
    BY <1>8 DEF JoinRefused, RemoveRefused, memVars
  <2>3. phase' # "off"
    BY <2>2 DEF CpuFree
  <2>. QED BY <2>1, <2>2, <2>3, UrlsUnchanged
<1>9. ASSUME NEW d \in Devices, NEW drop \in SUBSET (1..Len(file[d])), RemoveIndex(d, drop)
      PROVE  UrlsInv'
  <2>1. StoredPairs' = StoredPairs
    BY <1>9, RemoveIndexAsks DEF AsksRemoval
  <2>2. UNCHANGED <<phase, restored, pairs>> /\ CpuFree
    BY <1>9 DEF RemoveIndex, memVars
  <2>3. phase' # "off"
    BY <2>2 DEF CpuFree
  <2>. QED BY <2>1, <2>2, <2>3, UrlsUnchanged
<1>. QED
  BY <1>1, <1>2, <1>3, <1>4, <1>5, <1>6, <1>7, <1>8, <1>9 DEF Next, Node, Client

(* In the middle of a rewrite a file is the beginning of what it will be.  *)
LEMMA FileIsPartOfStored ==
    ASSUME Inv, RewriteInv, NEW d \in Devices
    PROVE  /\ Len(file[d]) <= Len(StoredPairs[d])
           /\ \A i \in 1..Len(file[d]) : file[d][i] = StoredPairs[d][i]
<1>1. CASE rm.step = "copy back" /\ rm.dev = d
  <2>1. StoredPairs[d] = temp
    BY <1>1, StoredIsFile, RmFacts
  <2>2. rm.at = Len(file[d]) + 1 /\ rm.at <= Len(temp) + 1
        /\ \A i \in 1..Len(file[d]) : file[d][i] = temp[i]
    BY <1>1 DEF RewriteInv, CopyBackOK
  <2>3. Len(file[d]) \in Nat /\ Len(temp) \in Nat
    BY <1>1, RmFacts
  <2>4. Len(file[d]) <= Len(temp)
    BY <2>2, <2>3
  <2>. QED BY <2>1, <2>2, <2>4
<1>2. CASE ~(rm.step = "copy back" /\ rm.dev = d)
  <2>1. StoredPairs[d] = file[d]
    BY <1>2 DEF StoredPairs
  <2>2. Len(file[d]) \in Nat
    BY LenProperties DEF Inv, FlashTypes
  <2>. QED BY <2>1, <2>2
<1>. QED BY <1>1, <1>2

(* No device ever has two stored pairs with one source URL, for any pairs  *)
(* and any order of joins, removals and power losses, if the commands wait *)
(* for the boot loop and the power does not fail inside a removal.         *)
THEOREM PairsNotRedundant ==
    ASSUME ~MidRewrite, ~EarlyTraffic
    PROVE  Spec => []NoRedundantPairs
<1> DEFINE All == Inv /\ CreatedInv /\ RewriteInv /\ BootInv /\ UrlsInv
<1>1. Init => All
  BY InitInv, InitCreatedInv, InitRewriteInv, InitBootInv, InitUrlsInv
<1>2. All /\ [Next]_vars => All'
  BY StepInv, StepCreatedInv, StepRewriteInv, StepBootInv, StepUrlsInv
<1>3. All => NoRedundantPairs
  <2>. SUFFICES ASSUME All, NEW d \in Devices,
                       NEW i \in 1..Len(file[d]), NEW j \in 1..Len(file[d]), i # j
                PROVE  file[d][i].url # file[d][j].url
    BY DEF NoRedundantPairs
  <2>1. Distinct(StoredPairs[d])
    BY DEF UrlsInv
  <2>2. /\ file[d][i] = StoredPairs[d][i] /\ file[d][j] = StoredPairs[d][j]
        /\ Len(file[d]) <= Len(StoredPairs[d])
    BY FileIsPartOfStored
  <2>3. Len(file[d]) \in Nat /\ Len(StoredPairs[d]) \in Nat
    BY StoredPairsType, LenProperties DEF Inv, FlashTypes
  <2>4. i \in 1..Len(StoredPairs[d]) /\ j \in 1..Len(StoredPairs[d])
    BY <2>2, <2>3
  <2>. QED BY <2>1, <2>2, <2>4 DEF Distinct
<1>. QED BY <1>1, <1>2, <1>3, PTL DEF Spec

-----------------------------------------------------------------------------
(* The pool has a block for every stored record. *)

(* The number of records of the first devices: StoredUpTo, for any lists.  *)
LengthsUpTo(f) ==
    LET sum[d \in 0..NDev] == IF d = 0 THEN 0 ELSE sum[d - 1] + Len(f[d])
    IN sum

LEMMA LengthsUpToDef ==
    ASSUME NEW f \in [Devices -> Seq(Records)]
    PROVE  /\ LengthsUpTo(f) \in [0..NDev -> Nat]
           /\ LengthsUpTo(f)[0] = 0
           /\ \A d \in Devices : LengthsUpTo(f)[d] = LengthsUpTo(f)[d - 1] + Len(f[d])
<1> DEFINE Def(g) == g = [d \in 0..NDev |-> IF d = 0 THEN 0 ELSE g[d - 1] + Len(f[d])]
           step == [x \in Nat \X (1..NDev) |-> x[1] + Len(f[x[2]])]
<1>1. \A d \in 1..NDev : d \in Devices /\ Len(f[d]) \in Nat
  BY LenProperties DEF Devices
<1>2. step \in [Nat \X (1..NDev) -> Nat]
  BY <1>1
<1>3. PICK g \in [0..NDev -> Nat] :
          g[0] = 0 /\ \A d \in 1..NDev : g[d] = step[<<g[d - 1], d>>]
  <2>1. 0 \in Nat /\ NDev \in Nat
    BY Sizes
  <2>. HIDE DEF step
  <2>2. \E g : IsChain(g, Nat, 0, NDev, step)
    BY <1>2, <2>1, RecursionExists, Zenon
  <2>. QED BY <2>2 DEF IsChain
<1>4. \A d \in 1..NDev : g[d] = g[d - 1] + Len(f[d])
  <2>. SUFFICES ASSUME NEW d \in 1..NDev
                PROVE  g[d] = g[d - 1] + Len(f[d])
    OBVIOUS
  <2>1. d - 1 \in 0..NDev
    BY Sizes
  <2>2. g[d - 1] \in Nat
    BY <1>3, <2>1
  <2>3. step[<<g[d - 1], d>>] = g[d - 1] + Len(f[d])
    BY <2>2
  <2>. HIDE DEF step
  <2>. QED BY <1>3, <2>3
<1>5. Def(g)
  <2> DEFINE h == [d \in 0..NDev |-> IF d = 0 THEN 0 ELSE g[d - 1] + Len(f[d])]
  <2>1. ASSUME NEW d \in 0..NDev
        PROVE  g[d] = h[d]
    <3>1. CASE d = 0
      BY <1>3, <3>1
    <3>2. CASE d # 0
      <4>1. d \in 1..NDev
        BY <3>2, Sizes
      <4>. HIDE DEF step
      <4>. QED BY <1>4, <3>2, <4>1
    <3>. QED BY <3>1, <3>2
  <2>2. g = [d \in 0..NDev |-> g[d]] /\ h = [d \in 0..NDev |-> h[d]]
    BY <1>3
  <2>3. g = h
    <3>. HIDE DEF h
    <3>. QED BY <2>1, <2>2
  <2>. QED BY <2>3
<1> DEFINE sum == CHOOSE h : Def(h)
<1>6. Def(sum)
  <2>. HIDE DEF Def
  <2>. QED BY <1>5
<1>7. LengthsUpTo(f) = sum
  BY DEF LengthsUpTo
<1>. HIDE DEF sum, step
<1>8. \A d \in 0..NDev : sum[d] = IF d = 0 THEN 0 ELSE sum[d - 1] + Len(f[d])
  BY <1>6
<1>9. sum[0] = 0
  BY <1>8, Sizes
<1>10. \A d \in 1..NDev : sum[d] = sum[d - 1] + Len(f[d])
  <2>1. \A d \in 1..NDev : d \in 0..NDev /\ d # 0
    BY Sizes
  <2>. QED BY <1>8, <2>1
<1> DEFINE Ok == {m \in Nat : m <= NDev => sum[m] \in Nat}
<1>11. 0 \in Ok
  BY <1>9
<1>12. ASSUME NEW m \in Ok \cap Nat
       PROVE  m + 1 \in Ok
  <2>. SUFFICES ASSUME m + 1 <= NDev
                PROVE  sum[m + 1] \in Nat
    OBVIOUS
  <2>1. m + 1 \in 1..NDev /\ (m + 1) - 1 = m /\ m <= NDev
    BY Sizes
  <2>2. sum[m] \in Nat
    BY <2>1
  <2>3. sum[m + 1] = sum[m] + Len(f[m + 1])
    BY <1>10, <2>1
  <2>. QED BY <1>1, <2>1, <2>2, <2>3
<1>13. \A d \in 0..NDev : sum[d] \in Nat
  <2>1. Nat \subseteq Ok
    <3>. HIDE DEF Ok
    <3>. QED BY <1>11, <1>12, NumbersInduction
  <2>2. \A d \in 0..NDev : d \in Nat /\ d <= NDev
    BY Sizes
  <2>. QED BY <2>1, <2>2
<1>14. sum = [d \in 0..NDev |-> sum[d]]
  BY <1>6
<1>15. sum \in [0..NDev -> Nat]
  BY <1>13, <1>14
<1>. HIDE DEF Ok
<1>. QED BY <1>7, <1>9, <1>10, <1>15 DEF Devices

(* One list changes: the sums from its device on change by as much. *)
LEMMA LengthsUpdate ==
    ASSUME NEW f \in [Devices -> Seq(Records)], NEW d \in Devices, NEW s \in Seq(Records)
    PROVE  LengthsUpTo([f EXCEPT ![d] = s])[NDev] = LengthsUpTo(f)[NDev] + Len(s) - Len(f[d])
<1> DEFINE g == [f EXCEPT ![d] = s]
           F == LengthsUpTo(f)
           G == LengthsUpTo(g)
           Ok == {m \in Nat : m <= NDev =>
                     G[m] = IF d <= m THEN F[m] + Len(s) - Len(f[d]) ELSE F[m]}
<1>1. g \in [Devices -> Seq(Records)]
  OBVIOUS
<1>2. /\ F \in [0..NDev -> Nat] /\ F[0] = 0
      /\ \A e \in Devices : F[e] = F[e - 1] + Len(f[e])
  BY LengthsUpToDef
<1>3. /\ G \in [0..NDev -> Nat] /\ G[0] = 0
      /\ \A e \in Devices : G[e] = G[e - 1] + Len(g[e])
  <2>. HIDE DEF g
  <2>. QED BY <1>1, LengthsUpToDef
<1>4. \A e \in Devices : g[e] = IF e = d THEN s ELSE f[e]
  OBVIOUS
<1>5. \A e \in Devices : Len(f[e]) \in Nat
  BY LenProperties
<1>6. Len(s) \in Nat /\ d \in Nat /\ 1 <= d /\ d <= NDev /\ NDev \in Nat
  BY LenProperties, Sizes DEF Devices
<1>. HIDE DEF g, F, G
<1>7. 0 \in Ok
  BY <1>2, <1>3, <1>6
<1>8. ASSUME NEW m \in Ok \cap Nat
      PROVE  m + 1 \in Ok
  <2>. SUFFICES ASSUME m + 1 <= NDev
                PROVE  G[m + 1] = IF d <= m + 1 THEN F[m + 1] + Len(s) - Len(f[d])
                                                ELSE F[m + 1]
    OBVIOUS
  <2>1. m + 1 \in Devices /\ (m + 1) - 1 = m /\ m \in 0..NDev
    BY <1>6 DEF Devices
  <2>2. G[m] = IF d <= m THEN F[m] + Len(s) - Len(f[d]) ELSE F[m]
    BY <1>6
  <2>3. F[m] \in Nat /\ G[m] \in Nat
    BY <1>2, <1>3, <2>1
  <2>4. F[m + 1] = F[m] + Len(f[m + 1]) /\ G[m + 1] = G[m] + Len(g[m + 1])
    BY <1>2, <1>3, <2>1
  <2>5. Len(f[m + 1]) \in Nat /\ Len(f[d]) \in Nat
    BY <1>5, <2>1
  <2>6. CASE m + 1 = d
    <3>1. Len(g[m + 1]) = Len(s) /\ ~(d <= m) /\ d <= m + 1 /\ Len(f[m + 1]) = Len(f[d])
      BY <1>4, <1>6, <2>1, <2>6
    <3>2. G[m] = F[m]
      BY <2>2, <3>1
    <3>3. G[m + 1] = F[m] + Len(s) /\ F[m + 1] = F[m] + Len(f[d])
      BY <2>4, <3>1, <3>2
    <3>4. G[m + 1] = F[m + 1] + Len(s) - Len(f[d])
      BY <1>6, <2>3, <2>5, <3>3
    <3>. QED BY <3>1, <3>4
  <2>7. CASE m + 1 # d
    <3>1. Len(g[m + 1]) = Len(f[m + 1])
      BY <1>4, <2>1, <2>7
    <3>2. d <= m + 1 <=> d <= m
      BY <1>6, <2>7
    <3>3. CASE d <= m
      <4>1. G[m + 1] = F[m + 1] + Len(s) - Len(f[d])
        BY <1>6, <2>2, <2>3, <2>4, <2>5, <3>1, <3>3
      <4>. QED BY <3>2, <3>3, <4>1
    <3>4. CASE ~(d <= m)
      <4>1. G[m + 1] = F[m + 1]
        BY <2>2, <2>4, <3>1, <3>4
      <4>. QED BY <3>2, <3>4, <4>1
    <3>. QED BY <3>3, <3>4
  <2>. QED BY <2>6, <2>7
<1>9. Nat \subseteq Ok
  <2>. HIDE DEF Ok
  <2>. QED BY <1>7, <1>8, NumbersInduction
<1>10. NDev \in Ok
  BY <1>6, <1>9
<1>. QED BY <1>6, <1>10 DEF F, G, g

(* Shorter lists have smaller sums. *)
LEMMA LengthsMonotone ==
    ASSUME NEW f \in [Devices -> Seq(Records)], NEW g \in [Devices -> Seq(Records)],
           \A d \in Devices : Len(f[d]) <= Len(g[d])
    PROVE  \A m \in 0..NDev : LengthsUpTo(f)[m] <= LengthsUpTo(g)[m]
<1> DEFINE F == LengthsUpTo(f)
           G == LengthsUpTo(g)
           Ok == {m \in Nat : m <= NDev => F[m] <= G[m]}
<1>1. /\ F \in [0..NDev -> Nat] /\ F[0] = 0
      /\ \A e \in Devices : F[e] = F[e - 1] + Len(f[e])
      /\ G \in [0..NDev -> Nat] /\ G[0] = 0
      /\ \A e \in Devices : G[e] = G[e - 1] + Len(g[e])
  BY LengthsUpToDef
<1>2. \A e \in Devices : Len(f[e]) \in Nat /\ Len(g[e]) \in Nat
  BY LenProperties
<1>3. NDev \in Nat
  BY Sizes
<1>. HIDE DEF F, G
<1>4. 0 \in Ok
  BY <1>1
<1>5. ASSUME NEW m \in Ok \cap Nat
      PROVE  m + 1 \in Ok
  <2>. SUFFICES ASSUME m + 1 <= NDev
                PROVE  F[m + 1] <= G[m + 1]
    OBVIOUS
  <2>1. m + 1 \in Devices /\ (m + 1) - 1 = m /\ m \in 0..NDev
    BY <1>3 DEF Devices
  <2>2. F[m] <= G[m]
    BY <1>3
  <2>3. F[m] \in Nat /\ G[m] \in Nat
    BY <1>1, <2>1
  <2>4. F[m + 1] = F[m] + Len(f[m + 1]) /\ G[m + 1] = G[m] + Len(g[m + 1])
    BY <1>1, <2>1
  <2>5. /\ Len(f[m + 1]) \in Nat /\ Len(g[m + 1]) \in Nat
        /\ Len(f[m + 1]) <= Len(g[m + 1])
    BY <1>2, <2>1
  <2>. QED BY <2>2, <2>3, <2>4, <2>5
<1>6. Nat \subseteq Ok
  <2>. HIDE DEF Ok
  <2>. QED BY <1>4, <1>5, NumbersInduction
<1>7. \A m \in 0..NDev : m \in Nat /\ m <= NDev
  BY <1>3
<1>. QED BY <1>6, <1>7 DEF F, G

(* No more pairs are stored than blocks in use, and while the lists are    *)
(* read back exactly those of the devices that are done.                   *)
PoolInv ==
    /\ LengthsUpTo(StoredPairs)[NDev] <= PoolSize
    /\ phase = "on" => LengthsUpTo(StoredPairs)[NDev] <= allocated
    /\ phase # "on" => allocated = LengthsUpTo(StoredPairs)[restored]

LEMMA NothingStored ==
    ASSUME NEW f \in [Devices -> Seq(Records)], \A d \in Devices : f[d] = <<>>
    PROVE  LengthsUpTo(f)[0] = 0 /\ LengthsUpTo(f)[NDev] = 0
<1> DEFINE F == LengthsUpTo(f)
           Ok == {m \in Nat : m <= NDev => F[m] = 0}
<1>1. F[0] = 0 /\ \A e \in Devices : F[e] = F[e - 1] + Len(f[e])
  BY LengthsUpToDef
<1>2. NDev \in Nat /\ \A e \in Devices : Len(f[e]) = 0
  BY Sizes
<1>. HIDE DEF F
<1>3. 0 \in Ok
  BY <1>1
<1>4. ASSUME NEW m \in Ok \cap Nat
      PROVE  m + 1 \in Ok
  <2>. SUFFICES ASSUME m + 1 <= NDev
                PROVE  F[m + 1] = 0
    OBVIOUS
  <2>1. m + 1 \in Devices /\ (m + 1) - 1 = m /\ m <= NDev
    BY <1>2 DEF Devices
  <2>2. F[m] = 0
    BY <2>1
  <2>3. F[m + 1] = F[m] + Len(f[m + 1]) /\ Len(f[m + 1]) = 0
    BY <1>1, <1>2, <2>1
  <2>. QED BY <2>2, <2>3
<1>5. Nat \subseteq Ok
  <2>. HIDE DEF Ok
  <2>. QED BY <1>3, <1>4, NumbersInduction
<1>. QED BY <1>1, <1>2, <1>5 DEF F

LEMMA InitPoolInv == Init => PoolInv
<1>. SUFFICES ASSUME Init
              PROVE  PoolInv
  OBVIOUS
<1>1. StoredPairs \in [Devices -> Seq(Records)]
  BY InitInv, StoredPairsType
<1>2. \A d \in Devices : StoredPairs[d] = <<>>
  BY DEF Init, StoredPairs, Idle
<1>3. LengthsUpTo(StoredPairs)[0] = 0 /\ LengthsUpTo(StoredPairs)[NDev] = 0
  BY <1>1, <1>2, NothingStored
<1>4. phase = "off" /\ restored = 0 /\ allocated = 0 /\ PoolSize \in Nat
  BY Sizes DEF Init
<1>. QED BY <1>3, <1>4 DEF PoolInv

LEMMA RestoreKeepsPool ==
    ASSUME Inv, PoolInv, RestorePairs, StoredPairs' = StoredPairs, ~MemoryLost
    PROVE  PoolInv'
<1> DEFINE F == LengthsUpTo(StoredPairs)
<1>1. PICK e \in Devices : e = restored + 1
  <2>1. restored \in 0..NDev /\ restored < NDev
    BY DEF RestorePairs, Inv, CtlTypes, Running
  <2>. QED BY <2>1, Sizes DEF Devices
<1>2. /\ allocated' = allocated + Len(file[e]) /\ restored' = e
      /\ phase' = IF e = NDev THEN "on" ELSE "restore"
      /\ rm.step = "none" /\ phase \in {"coap", "restore"}
  BY <1>1 DEF RestorePairs
<1>3. StoredPairs = file
  BY <1>2, StoredIsFile
<1>4. F[e] = F[e - 1] + Len(StoredPairs[e])
  BY StoredPairsType, LengthsUpToDef
<1>5. e - 1 = restored
  BY <1>1 DEF Inv, CtlTypes
<1>6. allocated = F[restored]
  BY <1>2 DEF PoolInv
<1>7. allocated' = F[e]
  BY <1>2, <1>3, <1>4, <1>5, <1>6
<1>8. e = NDev => F[NDev] <= allocated'
  <2>. SUFFICES ASSUME e = NDev
                PROVE  F[NDev] <= allocated'
    OBVIOUS
  <2>1. F[NDev] \in Nat
    BY StoredPairsType, LengthsUpToDef, Sizes
  <2>. HIDE DEF F
  <2>. QED BY <1>7, <2>1
<1>9. LengthsUpTo(StoredPairs)' = F
  OBVIOUS
<1>10. F[NDev] <= PoolSize
  BY DEF PoolInv
<1>. HIDE DEF F
<1>. QED BY <1>2, <1>7, <1>8, <1>9, <1>10 DEF PoolInv

(* A command that changes one list, when all the lists are read back. *)
LEMMA UpdateKeepsPool ==
    ASSUME Inv, PoolInv, phase = "on", phase' = "on",
           NEW d \in Devices, NEW s \in Seq(Records),
           StoredPairs' = [StoredPairs EXCEPT ![d] = s],
           NEW n \in Nat, allocated' = allocated + n, allocated' <= PoolSize,
           Len(s) <= Len(StoredPairs[d]) + n
    PROVE  PoolInv'
<1> DEFINE total == LengthsUpTo(StoredPairs)[NDev]
           l == Len(StoredPairs[d])
<1>1. StoredPairs \in [Devices -> Seq(Records)]
  BY StoredPairsType
<1>2. total \in Nat /\ l \in Nat /\ Len(s) \in Nat /\ PoolSize \in Nat /\ allocated \in Nat
  <2>1. total \in Nat
    BY <1>1, LengthsUpToDef, Sizes
  <2>2. l \in Nat /\ Len(s) \in Nat
    BY <1>1, LenProperties
  <2>. QED BY <2>1, <2>2, Sizes DEF Inv, MemTypes
<1>3. LengthsUpTo(StoredPairs')[NDev] = total + Len(s) - l
  BY <1>1, LengthsUpdate
<1>4. total <= allocated
  BY DEF PoolInv
<1>5. Len(s) <= l + n
  OBVIOUS
<1>. HIDE DEF total, l
<1>6. total + Len(s) - l <= allocated + n
  BY <1>2, <1>4, <1>5
<1>7. LengthsUpTo(StoredPairs')[NDev] <= allocated'
  BY <1>3, <1>6
<1>8. LengthsUpTo(StoredPairs')[NDev] <= PoolSize
  <2>1. allocated + n <= PoolSize
    OBVIOUS
  <2>2. total + Len(s) - l <= PoolSize
    BY <1>2, <1>6, <2>1
  <2>. QED BY <1>3, <2>2
<1>. QED BY <1>7, <1>8 DEF PoolInv

LEMMA StepPoolInv ==
    ASSUME Inv, Inv', CreatedInv, RewriteInv, BootInv, PoolInv,
           ~MidRewrite, ~EarlyTraffic, [Next]_vars
    PROVE  PoolInv'
<1>1. ASSUME StoredPairs' = StoredPairs, UNCHANGED <<phase, restored, allocated>>
      PROVE  PoolInv'
  BY <1>1 DEF PoolInv
<1>2. CASE PowerOn \/ HandlePair \/ UNCHANGED vars
  <2>1. StoredPairs' = StoredPairs
    BY <1>2, OthersAreUnseen DEF StoredAlike
  <2>2. CASE PowerOn
    <3>1. phase # "on" /\ phase' # "on" /\ UNCHANGED <<restored, allocated>>
      BY <2>2 DEF PowerOn, memVars
    <3>. QED BY <2>1, <3>1 DEF PoolInv
  <2>3. CASE HandlePair \/ UNCHANGED vars
    BY <1>1, <2>1, <2>3 DEF HandlePair, vars, memVars
  <2>. QED BY <1>2, <2>2, <2>3
<1>3. CASE RestorePairs \/ JoinNoBlock \/ Crash
  <2>1. StoredPairs' = StoredPairs
    BY <1>3, OthersAreUnseen DEF StoredAlike
  <2>2. CASE MemoryLost
    <3>1. LengthsUpTo(StoredPairs)[0] = 0
      BY StoredPairsType, LengthsUpToDef
    <3>2. phase' # "on" /\ restored' = 0 /\ allocated' = 0
      BY <2>2 DEF MemoryLost
    <3>. QED BY <2>1, <3>1, <3>2 DEF PoolInv
  <2>3. CASE ~MemoryLost
    <3>1. RestorePairs
      BY <1>3, <2>3 DEF JoinNoBlock, Crash
    <3>. QED BY <2>1, <2>3, <3>1, RestoreKeepsPool
  <2>. QED BY <2>2, <2>3
<1>4. CASE CopyOut \/ CopyBack \/ RemoveDone
  <2>1. StoredPairs' = StoredPairs
    BY <1>4, CopyingIsUnseen DEF StoredAlike
  <2>2. UNCHANGED <<phase, restored, allocated>>
    BY <1>4 DEF CopyOut, CopyBack, RemoveDone, memVars
  <2>. QED BY <1>1, <2>1, <2>2
<1>5. CASE Recreate
  <2> DEFINE s == StoredPairs[rm.dev]
             t == Store!WithoutIndexes(s, rm.drop)
  <2>1. /\ phase = "on" /\ phase' = "on" /\ allocated' = allocated
        /\ rm.dev \in Devices
    BY <1>5, RmFacts DEF Recreate, BootInv, memVars
  <2>2. StoredPairs' = [StoredPairs EXCEPT ![rm.dev] = t]
    BY <1>5, RecreateRemoves DEF RemovesPairs
  <2>3. s \in Seq(Records)
    BY <2>1, StoredPairsType
  <2>4. t \in Seq(Records) /\ Len(t) <= Len(s)
    <3>. HIDE DEF s
    <3>. QED BY <2>3, WithoutIndexesFacts
  <2>5. Len(t) <= Len(s) + 0 /\ allocated' = allocated + 0 /\ allocated' <= PoolSize
    <3>1. Len(s) \in Nat /\ allocated \in 0..PoolSize
      BY <2>3, LenProperties DEF Inv, MemTypes
    <3>. HIDE DEF s, t
    <3>. QED BY <2>1, <2>4, <3>1, Sizes
  <2>. HIDE DEF t
  <2>. QED BY <2>1, <2>2, <2>4, <2>5, UpdateKeepsPool
<1>6. ASSUME NEW d \in Devices, NEW r \in Records, JoinCreated(d, r)
      PROVE  PoolInv'
  <2> DEFINE s == StoredPairs[d]
             t == Append(s, r)
  <2>1. /\ phase = "on" /\ phase' = "on" /\ allocated' = allocated + 1
        /\ allocated < PoolSize
    BY <1>6 DEF JoinCreated, CpuFree, NextBlock
  <2>2. StoredPairs' = [StoredPairs EXCEPT ![d] = t]
    BY <1>6, JoinAdds DEF AddsPair
  <2>3. s \in Seq(Records)
    BY StoredPairsType
  <2>4. t \in Seq(Records) /\ Len(t) = Len(s) + 1
    <3>. HIDE DEF s
    <3>. QED BY <2>3, AppendProperties
  <2>5. Len(t) <= Len(s) + 1 /\ allocated' <= PoolSize
    <3>1. Len(s) \in Nat /\ allocated \in 0..PoolSize
      BY <2>3, LenProperties DEF Inv, MemTypes
    <3>. HIDE DEF s, t
    <3>. QED BY <2>1, <2>4, <3>1, Sizes
  <2>. HIDE DEF t
  <2>. QED BY <2>1, <2>2, <2>4, <2>5, UpdateKeepsPool
<1>7. ASSUME NEW d \in Devices, RemoveAll(d)
      PROVE  PoolInv'
  <2>1. phase = "on" /\ phase' = "on" /\ allocated' = allocated
    BY <1>7 DEF RemoveAll, CpuFree
  <2>2. StoredPairs' = [StoredPairs EXCEPT ![d] = <<>>]
    BY <1>7, RemoveAllClears DEF ClearsPairs
  <2>3. Len(StoredPairs[d]) \in Nat /\ allocated \in 0..PoolSize
    BY StoredPairsType, LenProperties DEF Inv, MemTypes
  <2>4. <<>> \in Seq(Records) /\ Len(<<>>) <= Len(StoredPairs[d]) + 0
    BY <2>3
  <2>5. allocated' = allocated + 0 /\ allocated' <= PoolSize
    BY <2>1, <2>3, Sizes
  <2>. QED BY <2>1, <2>2, <2>4, <2>5, UpdateKeepsPool
<1>8. ASSUME NEW d \in Devices,
             (\E r \in Records : JoinRefused(d, r)) \/ RemoveRefused(d)
      PROVE  PoolInv'
  <2>1. StoredPairs' = StoredPairs
    BY <1>8, OthersAreUnseen DEF StoredAlike
  <2>2. UNCHANGED <<phase, restored, allocated>>
    BY <1>8 DEF JoinRefused, RemoveRefused, memVars
  <2>. QED BY <1>1, <2>1, <2>2
<1>9. ASSUME NEW d \in Devices, NEW drop \in SUBSET (1..Len(file[d])), RemoveIndex(d, drop)
      PROVE  PoolInv'
  <2>1. StoredPairs' = StoredPairs
    BY <1>9, RemoveIndexAsks DEF AsksRemoval
  <2>2. UNCHANGED <<phase, restored, allocated>>
    BY <1>9 DEF RemoveIndex, memVars
  <2>. QED BY <1>1, <2>1, <2>2
<1>. QED
  BY <1>2, <1>3, <1>4, <1>5, <1>6, <1>7, <1>8, <1>9 DEF Next, Node, Client

(* The flash never holds more pairs than the pool has blocks, so that the  *)
(* node can boot from it, for pools of any size and any number of devices, *)
(* under the conditions of PairsNotRedundant.                              *)
THEOREM NodeCanBoot ==
    ASSUME ~MidRewrite, ~EarlyTraffic
    PROVE  Spec => []RecordsFitPool
<1> DEFINE All == Inv /\ CreatedInv /\ RewriteInv /\ BootInv /\ PoolInv
<1>1. Init => All
  BY InitInv, InitCreatedInv, InitRewriteInv, InitBootInv, InitPoolInv
<1>2. All /\ [Next]_vars => All'
  BY StepInv, StepCreatedInv, StepRewriteInv, StepBootInv, StepPoolInv
<1>3. All => RecordsFitPool
  <2>. SUFFICES ASSUME All
                PROVE  StoredUpTo[NDev] <= PoolSize
    BY DEF RecordsFitPool
  <2>1. StoredUpTo = LengthsUpTo(file)
    BY DEF StoredUpTo, LengthsUpTo
  <2>2. file \in [Devices -> Seq(Records)] /\ StoredPairs \in [Devices -> Seq(Records)]
    BY StoredPairsType DEF Inv, FlashTypes
  <2>3. \A d \in Devices : Len(file[d]) <= Len(StoredPairs[d])
    BY FileIsPartOfStored
  <2>4. NDev \in 0..NDev
    BY Sizes
  <2>5. LengthsUpTo(file)[NDev] <= LengthsUpTo(StoredPairs)[NDev]
    BY <2>2, <2>3, <2>4, LengthsMonotone
  <2>6. LengthsUpTo(file)[NDev] \in Nat /\ LengthsUpTo(StoredPairs)[NDev] \in Nat
    BY <2>2, <2>4, LengthsUpToDef
  <2>7. LengthsUpTo(StoredPairs)[NDev] <= PoolSize
    BY DEF PoolInv
  <2>. QED BY <2>1, <2>5, <2>6, <2>7, Sizes
<1>. QED BY <1>1, <1>2, <1>3, PTL DEF Spec

=============================================================================
