------------------------- MODULE ReverseNotifyProofs -------------------------
(***************************************************************************)
(* Theorems of ReverseNotify, for every set of nodes, every pool, queue    *)
(* and transaction limit, and, but for ObserversRemembered, any network.   *)
(***************************************************************************)
EXTENDS ReverseNotify, SequenceTheorems, FiniteSetTheorems, TLAPS

-----------------------------------------------------------------------------
(* Lemmas about sequences. *)

(* What RemoveAt returns. *)
LEMMA RemoveAtFacts ==
    ASSUME NEW S, NEW s \in Seq(S), NEW k \in 1..Len(s)
    PROVE  /\ RemoveAt(s, k) \in Seq(S)
           /\ Len(RemoveAt(s, k)) = Len(s) - 1
           /\ \A i \in 1..Len(s) - 1 :
                 RemoveAt(s, k)[i] = IF i < k THEN s[i] ELSE s[i + 1]
<1> DEFINE a == SubSeq(s, 1, k - 1)
           b == SubSeq(s, k + 1, Len(s))
<1>1. /\ a \in Seq(S)
      /\ Len(a) = k - 1
      /\ \A i \in 1..k - 1 : a[i] = s[i]
  <2>1. \A i \in 1..k - 1 : s[i] \in S
    OBVIOUS
  <2>2. k - 1 \in Int /\ 1 \in Int
    OBVIOUS
  <2>. QED BY <2>1, <2>2, SubSeqProperties
<1>2. /\ b \in Seq(S)
      /\ Len(b) = Len(s) - k
      /\ \A i \in 1..Len(s) - k : b[i] = s[k + i]
  <2>1. \A i \in k + 1..Len(s) : s[i] \in S
    OBVIOUS
  <2>2. k + 1 \in Int /\ Len(s) \in Int
    OBVIOUS
  <2>. QED BY <2>1, <2>2, SubSeqProperties
<1>3. /\ a \o b \in Seq(S)
      /\ Len(a \o b) = Len(s) - 1
      /\ \A i \in 1..Len(s) - 1 :
            (a \o b)[i] = IF i <= k - 1 THEN a[i] ELSE b[i - (k - 1)]
  <2>. HIDE DEF a, b
  <2>1. Len(a) + Len(b) = Len(s) - 1 /\ Len(a) = k - 1
    BY <1>1, <1>2
  <2>2. /\ a \o b \in Seq(S)
        /\ Len(a \o b) = Len(a) + Len(b)
        /\ \A i \in 1..Len(a) + Len(b) :
              (a \o b)[i] = IF i <= Len(a) THEN a[i] ELSE b[i - Len(a)]
    BY <1>1, <1>2, ConcatProperties
  <2>. QED BY <2>1, <2>2, Zenon
<1>4. ASSUME NEW i \in 1..Len(s) - 1
      PROVE  (a \o b)[i] = IF i < k THEN s[i] ELSE s[i + 1]
  <2>. HIDE DEF a, b
  <2>1. CASE i < k
    BY <2>1, <1>1, <1>3
  <2>2. CASE ~(i < k)
    BY <2>2, <1>2, <1>3
  <2>. QED BY <2>1, <2>2
<1>. QED BY <1>3, <1>4 DEF RemoveAt

(* Writing record i of the file, or the one after its last, changes that   *)
(* record and no other.                                                    *)
LEMMA FileWithFacts ==
    ASSUME file \in Seq(Addresses), NEW i \in 1..Len(file) + 1, NEW addr \in Addresses
    PROVE  /\ FileWith(i, addr) \in Seq(Addresses)
           /\ Len(FileWith(i, addr)) >= Len(file)
           /\ Len(FileWith(i, addr)) >= i
           /\ FileWith(i, addr)[i] = addr
           /\ \A j \in 1..Len(file) : j # i => FileWith(i, addr)[j] = file[j]
BY DEF FileWith

(* Counting the transactions: one opened, one replaced, some closed. *)
LEMMA CountFacts ==
    ASSUME NEW S, IsFiniteSet(S), NEW x, NEW y, NEW T \in SUBSET S
    PROVE  /\ Cardinality(S) \in Nat
           /\ IsFiniteSet(S \cup {x}) /\ Cardinality(S \cup {x}) \in Nat
           /\ Cardinality(S \cup {x}) <= Cardinality(S) + 1
           /\ IsFiniteSet(T) /\ Cardinality(T) \in Nat
           /\ Cardinality(T) <= Cardinality(S)
           /\ x \in S => /\ IsFiniteSet((S \ {x}) \cup {y})
                         /\ Cardinality((S \ {x}) \cup {y}) \in Nat
                         /\ Cardinality((S \ {x}) \cup {y}) <= Cardinality(S)
<1>1. Cardinality(S) \in Nat
  BY FS_CardinalityType
<1>2. IsFiniteSet(T) /\ Cardinality(T) <= Cardinality(S)
  BY FS_Subset
<1>3. Cardinality(T) \in Nat
  BY <1>2, FS_CardinalityType
<1>4. /\ IsFiniteSet(S \cup {x})
      /\ Cardinality(S \cup {x}) = IF x \in S THEN Cardinality(S) ELSE Cardinality(S) + 1
  BY FS_AddElement
<1>5. /\ IsFiniteSet(S \ {x})
      /\ Cardinality(S \ {x}) = IF x \in S THEN Cardinality(S) - 1 ELSE Cardinality(S)
  BY FS_RemoveElement
<1>6. /\ IsFiniteSet((S \ {x}) \cup {y})
      /\ Cardinality((S \ {x}) \cup {y}) = IF y \in S \ {x} THEN Cardinality(S \ {x})
                                           ELSE Cardinality(S \ {x}) + 1
  BY <1>5, FS_AddElement
<1>7. Cardinality((S \ {x}) \cup {y}) \in Nat
  BY <1>6, FS_CardinalityType
<1>. QED BY <1>1, <1>2, <1>3, <1>4, <1>5, <1>6, <1>7

-----------------------------------------------------------------------------
(* Type correctness. *)

LEMMA FileWithType ==
    ASSUME file \in Seq(Addresses), NEW i \in 1..PoolSize, NEW addr \in Addresses
    PROVE  FileWith(i, addr) \in Seq(Addresses)
BY DEF FileWith

(* While a write is in progress its record is that of a listed node. *)
LEMMA WritePosition ==
    ASSUME TypeOK, wr # Idle
    PROVE  /\ wr \in 1..Len(revlookup) /\ wr \in 1..PoolSize
           /\ revlookup[wr] \in Items /\ revlookup[wr].addr \in Addresses
<1>1. PoolSize \in Nat
  BY SizesAssumption DEF SizesAssumption
<1>2. wr \in 1..Len(revlookup) /\ wr \in 1..PoolSize
  BY <1>1 DEF TypeOK, Idle
<1>3. revlookup[wr] \in Items
  BY <1>2 DEF TypeOK
<1>. QED BY <1>2, <1>3 DEF Items

(* Taking an item off the list. *)
Without(item) ==
    IF Contains(revlookup, item) THEN RemoveAt(revlookup, IndexOf(item)) ELSE revlookup

LEMMA WithoutFacts ==
    ASSUME TypeOK, NEW item
    PROVE  /\ Without(item) \in Seq(Items)
           /\ Len(Without(item)) <= Len(revlookup)
           /\ \A i \in 1..Len(Without(item)) :
                 Without(item)[i] \in {revlookup[j] : j \in {i, i + 1} \cap 1..Len(revlookup)}
<1>1. CASE Contains(revlookup, item)
  <2>1. IndexOf(item) \in 1..Len(revlookup)
    BY <1>1 DEF Contains, IndexOf
  <2>2. revlookup \in Seq(Items)
    BY DEF TypeOK
  <2>3. /\ RemoveAt(revlookup, IndexOf(item)) \in Seq(Items)
        /\ Len(RemoveAt(revlookup, IndexOf(item))) = Len(revlookup) - 1
        /\ \A i \in 1..Len(revlookup) - 1 :
              RemoveAt(revlookup, IndexOf(item))[i]
                 = IF i < IndexOf(item) THEN revlookup[i] ELSE revlookup[i + 1]
    BY <2>1, <2>2, RemoveAtFacts
  <2>4. Without(item) = RemoveAt(revlookup, IndexOf(item))
    BY <1>1 DEF Without
  <2>. QED BY <2>1, <2>2, <2>3, <2>4
<1>2. CASE ~Contains(revlookup, item)
  BY <1>2 DEF Without, TypeOK
<1>. QED BY <1>1, <1>2

(* Posting an event leaves a queue of events within its length. *)
LEMMA PostType ==
    ASSUME SizesAssumption,
           queue \in Seq(ProcessEvents), Len(queue) <= QueueMax, dropped \in BOOLEAN,
           NEW e \in ProcessEvents, Post(e)
    PROVE  /\ queue' \in Seq(ProcessEvents)
           /\ Len(queue') <= QueueMax
           /\ dropped' \in BOOLEAN
<1>1. CASE Len(queue) < QueueMax
  <2>1. queue' = Append(queue, e) /\ dropped' = dropped
    BY <1>1 DEF Post
  <2>. QED BY <1>1, <2>1, AppendProperties, SizesAssumption
<1>2. CASE ~(Len(queue) < QueueMax)
  BY <1>2 DEF Post
<1>. QED BY <1>1, <1>2

(* Taking the first event leaves a queue of events within its length. *)
LEMMA TakeType ==
    ASSUME SizesAssumption,
           queue \in Seq(ProcessEvents), Len(queue) <= QueueMax,
           queue # <<>>, queue' = Tail(queue)
    PROVE  /\ queue' \in Seq(ProcessEvents)
           /\ Len(queue') <= QueueMax
           /\ Head(queue) \in ProcessEvents
BY DEF SizesAssumption

(* Before susensors_process runs nothing is listed, written or sent. *)
Asleep == phase # "on" => revlookup = <<>> /\ wr = Idle /\ trans = {}

(* TypeOK made inductive: the open transactions are finite, which counting *)
(* them needs, and the process starts from cleared memory.                 *)
TypeInv == TypeOK /\ IsFiniteSet(trans) /\ Asleep

LEMMA InitTypeInv == Init => TypeInv
<1>. SUFFICES ASSUME Init PROVE TypeInv
  OBVIOUS
<1>1. IsFiniteSet(trans) /\ Cardinality(trans) = 0 /\ Cardinality(trans) <= MaxTrans
  BY FS_EmptySet, SizesAssumption DEF Init, SizesAssumption
<1>2. slotAddr \in [Slots -> Addresses]
  BY DEF Init, NoNode, Addresses
<1>3. /\ revlookup \in Seq(Items) /\ file \in Seq(Addresses) /\ queue \in Seq(ProcessEvents)
      /\ Len(revlookup) = 0 /\ Len(queue) = 0
  BY DEF Init
<1>4. /\ allocated \in 0..PoolSize /\ crashes \in 0..MaxCrashes
      /\ obsReq \in [Nodes -> 0..MaxTries]
  BY SizesAssumption DEF Init, SizesAssumption
<1>5. adding \in BOOLEAN /\ dropped \in BOOLEAN
  BY DEF Init
<1>6. phase \in {"off", "coap", "on"}
  BY DEF Init
<1>7. /\ used \subseteq Slots /\ early \subseteq used /\ interest \subseteq Nodes
      /\ trans \subseteq [item : Items, tries : 0..MaxTries]
      /\ replies \subseteq [item : Items, code : {"OK", "DELETED"}]
  BY DEF Init
<1>8. wr = 0 /\ allocated = 0 /\ Len(queue) <= QueueMax
  BY <1>3, SizesAssumption DEF Init, Idle, SizesAssumption
<1>9. Asleep
  BY DEF Init, Asleep
<1>. QED BY <1>1, <1>2, <1>3, <1>4, <1>5, <1>6, <1>7, <1>8, <1>9 DEF TypeInv, TypeOK

LEMMA StepTypeInv == TypeInv /\ [Next]_vars => TypeInv'
<1>. SUFFICES ASSUME TypeInv, [Next]_vars PROVE TypeInv'
  OBVIOUS
<1>. USE DEF TypeInv, TypeOK, Asleep, Idle, ramVars, obsVars, nodeVars, queueVars
<1>1. CASE PowerOn
  BY <1>1 DEF PowerOn
<1>2. CASE StartProcess
  <2>1. Restored \in 0..PoolSize /\ Restored <= Len(file)
    BY SizesAssumption DEF Restored, SizesAssumption
  <2>2. \A i \in 1..Restored : [id |-> i, addr |-> file[i]] \in Items
    BY <2>1, SizesAssumption DEF Items, SizesAssumption
  <2>3. revlookup' \in Seq(Items) /\ Len(revlookup') = Restored
    BY <1>2, <2>1, <2>2 DEF StartProcess
  <2>4. queue' \in Seq(ProcessEvents) /\ Len(queue') <= QueueMax
    <3> DEFINE n == IF Restored < QueueMax THEN Restored ELSE QueueMax
    <3>1. n \in Nat /\ n <= Restored /\ n <= QueueMax
      BY <2>1, SizesAssumption DEF SizesAssumption
    <3>2. \A i \in 1..n : Presence([id |-> i, addr |-> file[i]]) \in ProcessEvents
      BY <3>1, <2>1, <2>2 DEF ProcessEvents
    <3>3. queue' = [i \in 1..n |-> Presence([id |-> i, addr |-> file[i]])]
      BY <1>2 DEF StartProcess, PresenceEvents
    <3>. HIDE DEF n
    <3>. QED BY <3>1, <3>2, <3>3
  <2>5. wr' = 0 /\ allocated' = Restored /\ adding' = adding /\ trans' = trans
    BY <1>2 DEF StartProcess
  <2>6. dropped' \in BOOLEAN
    BY <1>2 DEF StartProcess
  <2>. QED BY <1>2, <2>1, <2>3, <2>4, <2>5, <2>6 DEF StartProcess
<1>3. CASE Crash
  <2>1. file' \in Seq(Addresses)
    <3>1. CASE file' = file
      BY <3>1
    <3>2. CASE wr # Idle /\ file' = FileWith(wr, Torn)
      <4>1. wr \in 1..PoolSize /\ Torn \in Addresses
        BY <3>2, WritePosition DEF Addresses
      <4>. QED BY <3>2, <4>1, FileWithType
    <3>. QED BY <1>3, <3>1, <3>2 DEF Crash
  <2>2. revlookup' = <<>> /\ wr' = 0 /\ allocated' = 0 /\ queue' = <<>> /\ trans' = {}
    BY <1>3 DEF Crash
  <2>3. IsFiniteSet(trans') /\ Cardinality(trans') <= MaxTrans /\ Len(queue') <= QueueMax
    BY <2>2, FS_EmptySet, SizesAssumption DEF SizesAssumption
  <2>4. slotAddr' \in [Slots -> Addresses] /\ used' \subseteq Slots /\ early' \subseteq used'
    BY <1>3 DEF Crash, NoNode, Addresses
  <2>5. crashes' \in 0..MaxCrashes
    BY <1>3, SizesAssumption DEF Crash, SizesAssumption
  <2>6. adding' \in BOOLEAN /\ dropped' \in BOOLEAN
    BY <1>3 DEF Crash
  <2>7. allocated' \in 0..PoolSize /\ revlookup' \in Seq(Items) /\ queue' \in Seq(ProcessEvents)
    BY <2>2, SizesAssumption DEF SizesAssumption
  <2>8. phase' = "off" /\ replies' = {} /\ interest' = interest /\ obsReq' = obsReq
    BY <1>3 DEF Crash
  <2>. QED BY <2>1, <2>2, <2>3, <2>4, <2>5, <2>6, <2>7, <2>8
<1>4. CASE WriteRecord
  <2>1. wr \in 1..PoolSize /\ revlookup[wr].addr \in Addresses
    BY <1>4, WritePosition DEF WriteRecord
  <2>2. file' \in Seq(Addresses)
    BY <1>4, <2>1, FileWithType DEF WriteRecord
  <2>. QED BY <1>4, <2>1, <2>2 DEF WriteRecord
<1>5. ASSUME NEW n \in Nodes, ObserveArrives(n)
      PROVE  TypeInv'
  <2>. DEFINE others == {s \in used : slotAddr[s] # n}
              free == Slots \ others
  <2>1. obsReq' \in [Nodes -> 0..MaxTries]
    <3>1. PICK left \in {0, obsReq[n] - 1} : obsReq' = [obsReq EXCEPT ![n] = left]
      BY <1>5 DEF ObserveArrives
    <3>2. left \in 0..MaxTries
      BY <1>5, <3>1, SizesAssumption DEF ObserveArrives, SizesAssumption
    <3>. QED BY <3>1, <3>2
  <2>2. /\ used' \subseteq Slots /\ early' \subseteq used'
        /\ slotAddr' \in [Slots -> Addresses]
        /\ queue' \in Seq(ProcessEvents) /\ Len(queue') <= QueueMax
        /\ dropped' \in BOOLEAN
    <3>1. CASE /\ used' = others /\ early' = early \cap others
               /\ UNCHANGED <<slotAddr, queueVars>>
      BY <3>1
    <3>2. ASSUME NEW slot \in free,
                 used' = others \cup {slot},
                 early' \subseteq (early \cap others) \cup {slot},
                 slotAddr' = [slotAddr EXCEPT ![slot] = n],
                 Post(NewObserver(slot)) \/ UNCHANGED queueVars
          PROVE  <2>2
      <4>1. used' \subseteq Slots /\ early' \subseteq used'
        BY <3>2
      <4>2. slotAddr' \in [Slots -> Addresses]
        BY <3>2 DEF Addresses
      <4>3. NewObserver(slot) \in ProcessEvents
        BY DEF ProcessEvents
      <4>4. CASE Post(NewObserver(slot))
        BY <4>1, <4>2, <4>3, <4>4, PostType, SizesAssumption
      <4>5. CASE UNCHANGED queueVars
        BY <4>1, <4>2, <4>5
      <4>. QED BY <3>2, <4>4, <4>5
    <3>. QED BY <1>5, <3>1, <3>2 DEF ObserveArrives
  <2>. QED BY <1>5, <2>1, <2>2 DEF ObserveArrives
<1>6. ASSUME NEW s \in Slots, ObserverDropped(s)
      PROVE  TypeInv'
  BY <1>6 DEF ObserverDropped
<1>7. CASE HandleNewObserver
  <2> DEFINE addr == slotAddr[Head(queue).slot]
             item == [id |-> allocated + 1, addr |-> addr]
  <2>1. /\ queue' \in Seq(ProcessEvents) /\ Len(queue') <= QueueMax
        /\ Head(queue) \in ProcessEvents
    BY <1>7, TakeType, SizesAssumption DEF HandleNewObserver
  <2>2. addr \in Addresses
    <3>1. Head(queue).slot \in Slots
      BY <1>7, <2>1 DEF HandleNewObserver, ProcessEvents, NewObserver, Presence
    <3>. QED BY <3>1
  <2>3. CASE addr \notin Listed /\ BlockFree
    <3>1. item \in Items /\ allocated + 1 \in 0..PoolSize
      BY <2>2, <2>3, SizesAssumption DEF Items, BlockFree, SizesAssumption
    <3>2. /\ revlookup' = Append(revlookup, item) /\ allocated' = allocated + 1
          /\ wr' = 1 /\ adding' = TRUE
      BY <1>7, <2>3 DEF HandleNewObserver
    <3>3. revlookup' \in Seq(Items) /\ Len(revlookup') = Len(revlookup) + 1
      BY <3>1, <3>2, AppendProperties
    <3>4. phase = "on" /\ phase' = "on" /\ trans' = trans /\ dropped' = dropped
      BY <1>7 DEF HandleNewObserver
    <3>5. /\ wr' \in 0..Len(revlookup') /\ Len(revlookup') <= allocated'
          /\ allocated' \in 0..PoolSize
      BY <3>1, <3>2, <3>3
    <3>6. UNCHANGED <<phase, file, obsVars, trans, replies, nodeVars, crashes>>
      BY <1>7 DEF HandleNewObserver
    <3>. QED BY <2>1, <3>2, <3>3, <3>4, <3>5, <3>6
  <2>4. CASE ~(addr \notin Listed /\ BlockFree)
    BY <1>7, <2>1, <2>4 DEF HandleNewObserver
  <2>. QED BY <2>3, <2>4
<1>8. CASE HandlePresence
  <2>1. /\ queue' \in Seq(ProcessEvents) /\ Len(queue') <= QueueMax
        /\ Head(queue) \in ProcessEvents
    BY <1>8, TakeType, SizesAssumption DEF HandlePresence
  <2>2. Head(queue).item \in Items
    BY <1>8, <2>1 DEF HandlePresence, ProcessEvents, NewObserver, Presence
  <2> DEFINE t == [item |-> Head(queue).item, tries |-> 0]
  <2>3. t \in [item : Items, tries : 0..MaxTries]
    BY <2>2, SizesAssumption DEF SizesAssumption
  <2>4. /\ trans' \subseteq [item : Items, tries : 0..MaxTries]
        /\ IsFiniteSet(trans') /\ Cardinality(trans') <= MaxTrans
    <3>1. CASE Cardinality(trans) < MaxTrans
      <4>1. trans' = trans \cup {t}
        BY <1>8, <3>1 DEF HandlePresence
      <4>2. /\ IsFiniteSet(trans \cup {t})
            /\ Cardinality(trans \cup {t}) <= Cardinality(trans) + 1
            /\ Cardinality(trans) \in Nat /\ Cardinality(trans \cup {t}) \in Nat
        BY CountFacts
      <4>. HIDE DEF t
      <4>. QED BY <2>3, <3>1, <4>1, <4>2, SizesAssumption DEF SizesAssumption
    <3>2. CASE ~(Cardinality(trans) < MaxTrans)
      BY <1>8, <3>2 DEF HandlePresence
    <3>. QED BY <3>1, <3>2
  <2>5. phase = "on" /\ phase' = "on" /\ dropped' = dropped
    BY <1>8 DEF HandlePresence
  <2>6. UNCHANGED <<ramVars, file, obsVars, replies, nodeVars, crashes>>
    BY <1>8 DEF HandlePresence
  <2>. QED BY <2>1, <2>4, <2>5, <2>6
<1>9. ASSUME NEW t \in trans, PresenceArrives(t)
      PROVE  TypeInv'
  <2> DEFINE u == [item |-> t.item, tries |-> t.tries + 1]
  <2>0. t \in [item : Items, tries : 0..MaxTries]
    OBVIOUS
  <2>1. u \in [item : Items, tries : 0..MaxTries] /\ t.item \in Items
    BY <1>9, <2>0, SizesAssumption DEF PresenceArrives, SizesAssumption
  <2>2. trans' = (trans \ {t}) \cup {u}
    <3>1. [t EXCEPT !.tries = @ + 1] = u
      BY <2>0
    <3>. QED BY <1>9, <3>1 DEF PresenceArrives
  <2>3. IsFiniteSet(trans') /\ Cardinality(trans') <= MaxTrans
    <3>1. /\ Cardinality(trans) \in Nat /\ IsFiniteSet((trans \ {t}) \cup {u})
          /\ Cardinality((trans \ {t}) \cup {u}) \in Nat
          /\ Cardinality((trans \ {t}) \cup {u}) <= Cardinality(trans)
      BY <1>9, CountFacts
    <3>. HIDE DEF u
    <3>. QED BY <2>2, <3>1, SizesAssumption DEF SizesAssumption
  <2>4. trans' \subseteq [item : Items, tries : 0..MaxTries]
    BY <2>1, <2>2
  <2>5. /\ replies' \subseteq [item : Items, code : {"OK", "DELETED"}]
        /\ obsReq' \in [Nodes -> 0..MaxTries]
    <3>1. MaxTries \in 0..MaxTries
      BY SizesAssumption DEF SizesAssumption
    <3>2. \/ replies' = replies \cup {[item |-> t.item, code |-> "OK"]}
          \/ replies' = replies \cup {[item |-> t.item, code |-> "DELETED"]}
      BY <1>9 DEF PresenceArrives
    <3>3. obsReq' = obsReq \/ obsReq' = [obsReq EXCEPT ![t.item.addr] = MaxTries]
      BY <1>9 DEF PresenceArrives
    <3>4. replies' \subseteq [item : Items, code : {"OK", "DELETED"}]
      BY <2>1, <3>2
    <3>. QED BY <3>1, <3>3, <3>4
  <2>6. phase = "on"
    BY <1>9
  <2>7. UNCHANGED <<phase, ramVars, file, obsVars, queueVars, interest, crashes>>
    BY <1>9 DEF PresenceArrives
  <2>. QED BY <2>3, <2>4, <2>5, <2>6, <2>7
<1>10. ASSUME NEW r \in replies, ReplyArrives(r)
       PROVE  TypeInv'
  <2> DEFINE open == {t \in trans : t.item = r.item}
  <2>1. /\ replies' \subseteq [item : Items, code : {"OK", "DELETED"}]
        /\ trans' = trans \ open /\ phase' = phase
    BY <1>10 DEF ReplyArrives
  <2>2. IsFiniteSet(trans') /\ Cardinality(trans') <= MaxTrans
    <3>1. trans' \in SUBSET trans
      BY <2>1
    <3>2. /\ IsFiniteSet(trans') /\ Cardinality(trans') <= Cardinality(trans)
          /\ Cardinality(trans') \in Nat /\ Cardinality(trans) \in Nat
      BY <3>1, CountFacts
    <3>. QED BY <3>2, SizesAssumption DEF SizesAssumption
  <2>3. UNCHANGED <<obsVars, queueVars, nodeVars, crashes>>
    BY <1>10 DEF ReplyArrives
  <2>4. CASE open # {} /\ r.code = "DELETED"
    <3>1. /\ revlookup' = Without(r.item) /\ allocated' = allocated /\ adding' = FALSE
          /\ \/ Without(r.item) = <<>> /\ file' = <<>> /\ wr' = wr
             \/ Without(r.item) # <<>> /\ file' = file /\ wr' = 1
      BY <1>10, <2>4 DEF ReplyArrives, Without
    <3>2. /\ revlookup' \in Seq(Items) /\ Len(revlookup') <= allocated'
          /\ wr' \in 0..Len(revlookup')
      BY <1>10, <3>1, WithoutFacts DEF ReplyArrives, CpuFree
    <3>3. file' \in Seq(Addresses) /\ allocated' \in 0..PoolSize
      <4>1. <<>> \in Seq(Addresses)
        OBVIOUS
      <4>2. file' = <<>> \/ file' = file
        BY <3>1
      <4>3. allocated' = allocated
        BY <3>1
      <4>. QED BY <4>1, <4>2, <4>3
    <3>5. adding' \in BOOLEAN
      BY <3>1
    <3>4. phase = "on"
      BY <2>4
    <3>. QED BY <2>1, <2>2, <2>3, <3>2, <3>3, <3>4, <3>5
  <2>5. CASE ~(open # {} /\ r.code = "DELETED")
    <3>1. UNCHANGED <<ramVars, file>>
      BY <1>10, <2>5 DEF ReplyArrives
    <3>. QED BY <2>1, <2>2, <2>3, <3>1
  <2>. QED BY <2>4, <2>5
<1>11. ASSUME NEW t \in trans, PresenceTimesOut(t)
       PROVE  TypeInv'
  <2>1. IsFiniteSet(trans') /\ Cardinality(trans') <= MaxTrans /\ trans' \subseteq trans
    <3>1. trans' = trans \ {t} /\ trans' \in SUBSET trans
      BY <1>11 DEF PresenceTimesOut
    <3>2. /\ IsFiniteSet(trans') /\ Cardinality(trans') <= Cardinality(trans)
          /\ Cardinality(trans') \in Nat /\ Cardinality(trans) \in Nat
      BY <3>1, CountFacts
    <3>. QED BY <3>1, <3>2, SizesAssumption DEF SizesAssumption
  <2>2. UNCHANGED <<phase, ramVars, file, obsVars, queueVars, replies, nodeVars, crashes>>
    BY <1>11 DEF PresenceTimesOut
  <2>. QED BY <2>1, <2>2
<1>12. ASSUME NEW r \in replies, ReplyLost(r)
       PROVE  TypeInv'
  BY <1>12 DEF ReplyLost
<1>13. ASSUME NEW n \in Nodes, ObserveLost(n)
       PROVE  TypeInv'
  BY <1>13, SizesAssumption DEF ObserveLost, SizesAssumption
<1>14. ASSUME NEW n \in Nodes, Bind(n)
       PROVE  TypeInv'
  BY <1>14, SizesAssumption DEF Bind, SizesAssumption
<1>15. ASSUME NEW n \in Nodes, Unbind(n)
       PROVE  TypeInv'
  BY <1>15 DEF Unbind
<1>16. CASE UNCHANGED vars
  BY <1>16 DEF vars
<1>. QED BY <1>1, <1>2, <1>3, <1>4, <1>5, <1>6, <1>7, <1>8, <1>9, <1>10, <1>11, <1>12,
            <1>13, <1>14, <1>15, <1>16 DEF Next, Sensor, Network, Environment

(* Every variable keeps its type whatever the network does and wherever    *)
(* power fails.                                                            *)
THEOREM TypeCorrect == Spec => []TypeOK
<1>1. Spec => []TypeInv
  BY InitTypeInv, StepTypeInv, PTL DEF Spec
<1>. QED BY <1>1, PTL DEF TypeInv

-----------------------------------------------------------------------------
(* The flash file during a write. *)

(* Between writes record i of the file is list entry i.  During a write    *)
(* the entries before wr are written, and any other is still where the     *)
(* previous write put it: at its index, or one further if an item before   *)
(* it was taken off.  The entry addSource appends may be nowhere yet.      *)
Written(i) == i <= Len(file) /\ file[i] = revlookup[i].addr
StillBehind(i) == i + 1 <= Len(file) /\ file[i + 1] = revlookup[i].addr
BeingAdded(i) == adding /\ i = Len(revlookup)

FileInv ==
    /\ wr = Idle => \A i \in 1..Len(revlookup) : Written(i)
    /\ wr # Idle =>
          /\ wr <= Len(file) + 1
          /\ \A i \in 1..wr - 1 : Written(i)
          /\ \A i \in wr..Len(revlookup) : Written(i) \/ StillBehind(i) \/ BeingAdded(i)

LEMMA InitFileInv == Init => FileInv
BY DEF Init, FileInv

LEMMA StepFileInv == TypeInv /\ FileInv /\ [Next]_vars => FileInv'
<1>. SUFFICES ASSUME TypeInv, FileInv, [Next]_vars PROVE FileInv'
  OBVIOUS
<1>0. TypeOK /\ Asleep
  BY DEF TypeInv
<1>1. CASE UNCHANGED <<file, ramVars>>
  BY <1>1 DEF FileInv, Written, StillBehind, BeingAdded, ramVars
<1>2. CASE StartProcess
  <2>1. wr' = Idle
    BY <1>0, <1>2 DEF StartProcess, Asleep
  <2>2. Restored \in Nat /\ Restored <= Len(file)
    BY <1>0, SizesAssumption DEF Restored, SizesAssumption, TypeOK
  <2>3. /\ revlookup' = [i \in 1..Restored |-> [id |-> i, addr |-> file[i]]]
        /\ file' = file
    BY <1>2 DEF StartProcess
  <2>4. Len(revlookup') = Restored
    BY <2>2, <2>3
  <2>. QED BY <2>1, <2>2, <2>3, <2>4 DEF FileInv, Written
<1>3. CASE Crash
  <2>1. revlookup' = <<>> /\ wr' = Idle
    BY <1>3 DEF Crash
  <2>. QED BY <2>1 DEF FileInv
<1>4. CASE WriteRecord
  <2>1. /\ file' = FileWith(wr, revlookup[wr].addr) /\ wr # Idle
        /\ wr' = (IF wr < Len(revlookup) THEN wr + 1 ELSE Idle)
        /\ revlookup' = revlookup /\ adding' = adding
    BY <1>4 DEF WriteRecord
  <2>2. /\ wr \in 1..Len(revlookup) /\ revlookup[wr].addr \in Addresses
        /\ file \in Seq(Addresses) /\ Len(revlookup) \in Nat
    BY <1>0, <2>1, WritePosition DEF TypeOK
  <2>3. /\ wr <= Len(file) + 1
        /\ \A i \in 1..wr - 1 : Written(i)
        /\ \A i \in wr..Len(revlookup) : Written(i) \/ StillBehind(i) \/ BeingAdded(i)
    BY <2>1 DEF FileInv
  <2>4. wr \in 1..Len(file) + 1
    BY <2>2, <2>3
  <2>5. /\ file' \in Seq(Addresses)
        /\ Len(file') >= Len(file) /\ Len(file') >= wr
        /\ file'[wr] = revlookup[wr].addr
        /\ \A j \in 1..Len(file) : j # wr => file'[j] = file[j]
    BY <2>1, <2>2, <2>4, FileWithFacts
  <2>6. \A i \in 1..wr : Written(i)'
    BY <2>1, <2>2, <2>3, <2>5 DEF Written
  <2>7. \A i \in wr + 1..Len(revlookup) :
           Written(i)' \/ StillBehind(i)' \/ BeingAdded(i)'
    BY <2>1, <2>2, <2>3, <2>5 DEF Written, StillBehind, BeingAdded
  <2>8. CASE wr < Len(revlookup)
    BY <2>1, <2>2, <2>5, <2>6, <2>7, <2>8 DEF FileInv, Idle
  <2>9. CASE ~(wr < Len(revlookup))
    BY <2>1, <2>2, <2>6, <2>9 DEF FileInv, Idle
  <2>. QED BY <2>8, <2>9
<1>5. CASE HandleNewObserver
  <2>1. CASE UNCHANGED ramVars
    BY <1>1, <1>5, <2>1 DEF HandleNewObserver
  <2>2. CASE /\ revlookup' = Append(revlookup, [id |-> allocated + 1,
                                                addr |-> slotAddr[Head(queue).slot]])
             /\ wr' = 1 /\ adding' = TRUE
    <3>1. wr = Idle /\ file' = file
      BY <1>5 DEF HandleNewObserver
    <3>2. /\ revlookup \in Seq(Items) /\ file \in Seq(Addresses)
      BY <1>0 DEF TypeOK
    <3>3. \A i \in 1..Len(revlookup) : Written(i)
      BY <3>1 DEF FileInv
    <3>4. /\ Len(revlookup') = Len(revlookup) + 1
          /\ \A i \in 1..Len(revlookup) : revlookup'[i] = revlookup[i]
      BY <2>2, <3>2
    <3>5. \A i \in 1..Len(revlookup) : Written(i)'
      BY <3>1, <3>3, <3>4 DEF Written
    <3>6. ASSUME NEW i \in 1..Len(revlookup')
          PROVE  Written(i)' \/ BeingAdded(i)'
      <4>1. CASE i = Len(revlookup')
        BY <2>2, <4>1 DEF BeingAdded
      <4>2. CASE i # Len(revlookup')
        BY <3>2, <3>4, <3>5, <4>2
      <4>. QED BY <4>1, <4>2
    <3>7. \A i \in 1..Len(revlookup') : Written(i)' \/ BeingAdded(i)'
      BY <3>6
    <3>. QED BY <2>2, <3>1, <3>2, <3>7 DEF FileInv, Idle
  <2>. QED BY <1>5, <2>1, <2>2 DEF HandleNewObserver
<1>6. ASSUME NEW r \in replies, ReplyArrives(r)
      PROVE  FileInv'
  <2>1. CASE UNCHANGED <<ramVars, file>>
    BY <1>1, <2>1
  <2>2. CASE /\ revlookup' = Without(r.item)
             /\ \/ Without(r.item) = <<>> /\ wr' = wr
                \/ wr' = 1 /\ file' = file
    <3>1. wr = Idle /\ file \in Seq(Addresses) /\ revlookup \in Seq(Items)
      BY <1>0, <1>6 DEF ReplyArrives, CpuFree, TypeOK
    <3>2. \A i \in 1..Len(revlookup) : Written(i)
      BY <3>1 DEF FileInv
    <3>3. CASE Without(r.item) = <<>> /\ wr' = wr
      BY <2>2, <3>1, <3>3 DEF FileInv
    <3>4. CASE wr' = 1 /\ file' = file
      <4>1. \A i \in 1..Len(revlookup') :
               \E j \in {i, i + 1} \cap 1..Len(revlookup) : revlookup'[i] = revlookup[j]
        BY <1>0, <2>2, WithoutFacts
      <4>2. ASSUME NEW i \in 1..Len(revlookup')
            PROVE  Written(i)' \/ StillBehind(i)'
        <5>1. PICK j \in {i, i + 1} \cap 1..Len(revlookup) : revlookup'[i] = revlookup[j]
          BY <4>1
        <5>2. j <= Len(file) /\ file[j] = revlookup[j].addr
          BY <3>2, <5>1 DEF Written
        <5>. QED BY <3>4, <5>1, <5>2 DEF Written, StillBehind
      <4>. QED BY <3>1, <3>4, <4>2 DEF FileInv, Idle
    <3>. QED BY <2>2, <3>3, <3>4
  <2>. QED BY <1>6, <2>1, <2>2 DEF ReplyArrives, Without
<1>7. ASSUME [Next]_vars, ~StartProcess, ~Crash, ~WriteRecord, ~HandleNewObserver,
             ~(\E r \in replies : ReplyArrives(r))
      PROVE  UNCHANGED <<file, ramVars>>
  BY <1>7 DEF Next, Sensor, Network, Environment, vars, PowerOn, HandlePresence,
              ObserveArrives, PresenceArrives, ObserverDropped, PresenceTimesOut,
              ReplyLost, ObserveLost, Bind, Unbind
<1>. QED BY <1>1, <1>2, <1>3, <1>4, <1>5, <1>6, <1>7

(* The record a crash tears is none of those that hold a listed node. *)
LEMMA CrashKeepsSources ==
    ASSUME TypeInv, FileInv, Crash, NEW i \in 1..Len(revlookup)
    PROVE  \/ revlookup[i].addr \in Recorded'
           \/ adding /\ wr # Idle /\ i = Len(revlookup)
<1>0. /\ TypeOK /\ file \in Seq(Addresses)
  BY DEF TypeInv, TypeOK
<1>1. CASE file' = file
  <2>1. Written(i) \/ StillBehind(i) \/ (BeingAdded(i) /\ wr # Idle)
    <3>1. CASE wr = Idle
      BY <3>1 DEF FileInv
    <3>2. CASE wr # Idle
      <4>1. wr \in 1..Len(revlookup)
        BY <1>0, <3>2, WritePosition
      <4>2. i \in 1..wr - 1 \/ i \in wr..Len(revlookup)
        BY <4>1
      <4>. QED BY <3>2, <4>2 DEF FileInv
    <3>. QED BY <3>1, <3>2
  <2>. QED BY <1>0, <1>1, <2>1 DEF Recorded, Written, StillBehind, BeingAdded
<1>2. CASE /\ wr # Idle
           /\ wr <= Len(file) => file[wr] # revlookup[wr].addr
           /\ file' = FileWith(wr, Torn)
  <2>1. /\ wr \in 1..Len(revlookup) /\ wr \in 1..Len(file) + 1 /\ Torn \in Addresses
    BY <1>0, <1>2, WritePosition DEF FileInv, Addresses
  <2>2. /\ file' \in Seq(Addresses) /\ Len(file') >= Len(file)
        /\ \A j \in 1..Len(file) : j # wr => file'[j] = file[j]
    BY <1>0, <1>2, <2>1, FileWithFacts
  <2>3. CASE i < wr
    <3>1. i <= Len(file) /\ file[i] = revlookup[i].addr
      BY <1>2, <2>1, <2>3 DEF FileInv, Written
    <3>. QED BY <1>0, <2>1, <2>2, <2>3, <3>1 DEF Recorded
  <2>4. CASE i >= wr
    <3>1. Written(i) \/ StillBehind(i) \/ BeingAdded(i)
      BY <1>2, <2>1, <2>4 DEF FileInv
    <3>2. CASE Written(i)
      <4>1. i # wr
        BY <1>2, <3>2 DEF Written
      <4>. QED BY <1>0, <2>1, <2>2, <3>2, <4>1 DEF Recorded, Written
    <3>3. CASE StillBehind(i)
      BY <1>0, <2>1, <2>2, <2>4, <3>3 DEF Recorded, StillBehind
    <3>4. CASE BeingAdded(i)
      BY <1>2, <3>4 DEF BeingAdded
    <3>. QED BY <3>1, <3>2, <3>3, <3>4
  <2>. QED BY <2>1, <2>3, <2>4
<1>. QED BY <1>1, <1>2 DEF Crash

(* A power loss forgets no node of the list, whenever it strikes: between  *)
(* two runs of the process, between two records of writeFile, or inside    *)
(* one.  Only the node being added can be missing.                         *)
THEOREM PowerLossKeepsSources == Spec => SourcesSurvivePowerLoss
<1>1. TypeInv /\ FileInv /\ [Next]_vars =>
         [phase' = "off" =>
             \A i \in 1..Len(revlookup) :
                 \/ revlookup[i].addr \in Recorded'
                 \/ adding /\ wr # Idle /\ i = Len(revlookup)]_vars
  <2>. SUFFICES ASSUME TypeInv, FileInv, Next, phase' = "off",
                       NEW i \in 1..Len(revlookup)
                PROVE  \/ revlookup[i].addr \in Recorded'
                       \/ adding /\ wr # Idle /\ i = Len(revlookup)
    OBVIOUS
  <2>1. CASE Crash
    BY <2>1, CrashKeepsSources
  <2>2. CASE ~Crash
    <3>1. phase = "on"
      BY DEF TypeInv, TypeOK, Asleep
    <3>2. phase' = phase \/ phase' = "on" \/ phase' = "coap"
      BY <2>2 DEF Next, Sensor, Network, Environment, PowerOn, StartProcess, WriteRecord,
                  HandleNewObserver, HandlePresence, ObserveArrives, PresenceArrives,
                  ReplyArrives, ObserverDropped, PresenceTimesOut, ReplyLost,
                  ObserveLost, Bind, Unbind
    <3>. QED BY <3>1, <3>2
  <2>. QED BY <2>1, <2>2
<1>2. Init => TypeInv /\ FileInv
  BY InitTypeInv, InitFileInv
<1>3. TypeInv /\ FileInv /\ [Next]_vars => (TypeInv /\ FileInv)'
  BY StepTypeInv, StepFileInv
<1>. QED BY <1>1, <1>2, <1>3, PTL DEF Spec, SourcesSurvivePowerLoss
-----------------------------------------------------------------------------
(* The observers and the list, over a reliable network that keeps the      *)
(* messages of a node in order.                                            *)

(* An observer struct in use by a node with a pair: the node is listed,    *)
(* the event of this struct is queued, or a request is still on its way.   *)
SlotKnown(s) ==
    slotAddr[s] \in interest =>
        \/ slotAddr[s] \in Listed
        \/ Contains(queue, NewObserver(s))
        \/ obsReq[slotAddr[s]] > 0

(* An answer that takes a node with a pair off the list comes before the   *)
(* observe request the node's pair has made it send.                       *)
RepliesBehind ==
    \A r \in replies :
        r.code = "DELETED" /\ r.item.addr \in interest => obsReq[r.item.addr] > 0

RoomLeft == allocated # PoolSize /\ ~dropped
RememberInv ==
    /\ phase # "on" => used \subseteq early
    /\ RepliesBehind
    /\ RoomLeft => \A s \in used \ early : SlotKnown(s)

LEMMA InitRememberInv == Init => RememberInv
BY DEF Init, RememberInv, RepliesBehind

(* An item other than the one removed stays on the list. *)
LEMMA WithoutKeeps ==
    ASSUME TypeOK, NEW item, NEW j \in 1..Len(revlookup), revlookup[j] # item
    PROVE  \E i \in 1..Len(Without(item)) : Without(item)[i] = revlookup[j]
<1>1. CASE Contains(revlookup, item)
  <2> DEFINE k == IndexOf(item)
             t == RemoveAt(revlookup, k)
  <2>1. k \in 1..Len(revlookup) /\ revlookup[k] = item
    BY <1>1 DEF Contains, IndexOf
  <2>2. revlookup \in Seq(Items) /\ Len(revlookup) \in Nat
    BY LenProperties DEF TypeOK
  <2>. HIDE DEF k
  <2>3. /\ Len(t) = Len(revlookup) - 1
        /\ \A i \in 1..Len(revlookup) - 1 :
              t[i] = IF i < k THEN revlookup[i] ELSE revlookup[i + 1]
    BY <2>1, <2>2, RemoveAtFacts
  <2>4. Without(item) = t
    BY <1>1 DEF Without, k
  <2>. HIDE DEF t
  <2>5. j # k
    BY <2>1
  <2>6. CASE j < k
    <3>1. j \in 1..Len(revlookup) - 1
      BY <2>1, <2>2, <2>6
    <3>. QED BY <2>3, <2>4, <2>6, <3>1
  <2>7. CASE ~(j < k)
    <3>1. j - 1 \in 1..Len(revlookup) - 1 /\ ~(j - 1 < k) /\ (j - 1) + 1 = j
      BY <2>1, <2>2, <2>5, <2>7
    <3>. QED BY <2>3, <2>4, <3>1
  <2>. QED BY <2>6, <2>7
<1>2. CASE ~Contains(revlookup, item)
  BY <1>2 DEF Without
<1>. QED BY <1>1, <1>2

(* Every event but the first is still there when the first is taken. *)
LEMMA TailContains ==
    ASSUME TypeOK, queue # <<>>, queue' = Tail(queue), NEW e, Contains(queue, e),
           e # Head(queue)
    PROVE  Contains(queue', e)
<1>1. queue \in Seq(ProcessEvents)
  BY DEF TypeOK
<1>2. PICK i \in 1..Len(queue) : queue[i] = e
  BY DEF Contains
<1>3. i # 1
  BY <1>1, <1>2
<1>4. /\ Len(queue') = Len(queue) - 1
      /\ \A k \in 1..Len(queue') : queue'[k] = queue[k + 1]
  BY <1>1, HeadTailProperties
<1>5. i - 1 \in 1..Len(queue') /\ (i - 1) + 1 = i
  BY <1>1, <1>3, <1>4
<1>. QED BY <1>2, <1>4, <1>5 DEF Contains

(* No event leaves the queue when one is posted. *)
LEMMA PostContains ==
    ASSUME TypeOK, NEW e, Post(e)
    PROVE  /\ \A x : Contains(queue, x) => Contains(queue', x)
           /\ dropped' \/ (Contains(queue', e) /\ dropped' = dropped)
<1>1. queue \in Seq(ProcessEvents)
  BY DEF TypeOK
<1>2. CASE Len(queue) < QueueMax
  <2>1. queue' = Append(queue, e) /\ dropped' = dropped
    BY <1>2 DEF Post
  <2>2. /\ Len(queue') = Len(queue) + 1 /\ Len(queue) \in Nat
        /\ \A i \in 1..Len(queue) : queue'[i] = queue[i]
        /\ queue'[Len(queue) + 1] = e
    BY <1>1, <2>1
  <2>. QED BY <2>1, <2>2 DEF Contains
<1>3. CASE ~(Len(queue) < QueueMax)
  BY <1>3 DEF Post
<1>. QED BY <1>2, <1>3

(* What a step keeps that leaves the list, the queue and the requests. *)
LEMMA SlotStays ==
    ASSUME NEW s, SlotKnown(s), slotAddr'[s] = slotAddr[s],
           slotAddr[s] \in interest' => slotAddr[s] \in interest,
           slotAddr[s] \in Listed => slotAddr[s] \in Listed',
           Contains(queue, NewObserver(s)) => Contains(queue', NewObserver(s)),
           obsReq[slotAddr[s]] > 0 => obsReq'[slotAddr[s]] > 0
    PROVE  SlotKnown(s)'
<1>1. NewObserver(s)' = NewObserver(s)
  BY DEF NewObserver
<1>. QED BY <1>1 DEF SlotKnown

LEMMA RememberUnchanged ==
    ASSUME RememberInv, UNCHANGED <<phase, ramVars, obsVars, queueVars, nodeVars>>,
           replies' \subseteq replies
    PROVE  RememberInv'
<1>1. Listed' = Listed
  BY DEF Listed, ramVars
<1>2. RepliesBehind'
  BY DEF RememberInv, RepliesBehind, nodeVars
<1>3. ASSUME RoomLeft', NEW s \in used' \ early'
      PROVE  SlotKnown(s)'
  <2>1. SlotKnown(s)
    BY <1>3 DEF RememberInv, RoomLeft, ramVars, queueVars, obsVars
  <2>. QED BY <1>1, <2>1, SlotStays DEF queueVars, obsVars, nodeVars
<1>. QED BY <1>2, <1>3 DEF RememberInv, obsVars

LEMMA ObserveKeepsRemember ==
    ASSUME TypeInv, RememberInv, InOrder, NEW n \in Nodes, ObserveArrives(n)
    PROVE  RememberInv'
<1> DEFINE others == {s \in used : slotAddr[s] # n}
           free == Slots \ others
<1>1. /\ phase' = phase /\ interest' = interest /\ replies' = replies
      /\ UNCHANGED ramVars
      /\ \A r \in replies : r.item.addr # n
  BY DEF ObserveArrives
<1>2. \A m : m # n => obsReq'[m] = obsReq[m]
  <2>1. PICK left \in {0, obsReq[n] - 1} : obsReq' = [obsReq EXCEPT ![n] = left]
    BY DEF ObserveArrives
  <2>. QED BY <2>1
<1>3. RepliesBehind'
  BY <1>1, <1>2 DEF RememberInv, RepliesBehind
<1>4. Listed' = Listed
  BY <1>1 DEF Listed, ramVars
<1>5. TypeOK
  BY DEF TypeInv
<1>6. RoomLeft' => ~dropped' /\ allocated # PoolSize
  BY <1>1 DEF RoomLeft, ramVars
<1>7. CASE /\ used' = others /\ early' = early \cap others
           /\ UNCHANGED <<slotAddr, queueVars>>
  <2>1. ASSUME RoomLeft', NEW s \in used' \ early'
        PROVE  SlotKnown(s)'
    <3>1. s \in used \ early /\ slotAddr[s] # n
      BY <1>7, <2>1
    <3>2. SlotKnown(s)
      BY <1>6, <1>7, <2>1, <3>1 DEF RememberInv, RoomLeft, queueVars
    <3>. QED BY <1>1, <1>2, <1>4, <1>7, <3>1, <3>2, SlotStays DEF queueVars
  <2>2. phase' # "on" => used' \subseteq early'
    <3>1. phase # "on" => used \subseteq early
      BY DEF RememberInv
    <3>. QED BY <1>1, <1>7, <3>1
  <2>. QED BY <1>3, <2>1, <2>2 DEF RememberInv
<1>8. ASSUME NEW slot \in free,
             used' = others \cup {slot},
             slotAddr' = [slotAddr EXCEPT ![slot] = n],
             IF phase = "on"
               THEN Post(NewObserver(slot)) /\ early' = early \cap others
               ELSE UNCHANGED queueVars /\ early' = (early \cap others) \cup {slot}
      PROVE  RememberInv'
  <2>1. /\ \A x : Contains(queue, x) => Contains(queue', x)
        /\ \/ dropped'
           \/ dropped' = dropped /\ (Contains(queue', NewObserver(slot)) \/ slot \in early')
    <3>1. CASE phase = "on"
      BY <1>5, <1>8, <3>1, PostContains
    <3>2. CASE phase # "on"
      BY <1>8, <3>2 DEF queueVars
    <3>. QED BY <3>1, <3>2
  <2>2. ASSUME RoomLeft', NEW s \in used' \ early'
        PROVE  SlotKnown(s)'
    <3>1. CASE s = slot
      <4>1. Contains(queue', NewObserver(s))
        BY <1>6, <2>1, <2>2, <3>1
      <4>2. NewObserver(s)' = NewObserver(s)
        BY DEF NewObserver
      <4>. QED BY <4>1, <4>2 DEF SlotKnown
    <3>2. CASE s # slot
      <4>1. s \in used \ early /\ slotAddr[s] # n
        BY <1>8, <2>2, <3>2
      <4>2. RoomLeft
        BY <1>6, <2>1, <2>2 DEF RoomLeft
      <4>3. SlotKnown(s)
        BY <4>1, <4>2 DEF RememberInv
      <4>4. slotAddr'[s] = slotAddr[s]
        BY <1>5, <1>8, <3>2, <4>1 DEF TypeOK
      <4>. QED BY <1>1, <1>2, <1>4, <2>1, <4>1, <4>3, <4>4, SlotStays
    <3>. QED BY <3>1, <3>2
  <2>3. phase' # "on" => used' \subseteq early'
    BY <1>1, <1>8 DEF RememberInv
  <2>. QED BY <1>3, <2>2, <2>3 DEF RememberInv
<1>9. \/ /\ used' = others /\ early' = early \cap others
         /\ UNCHANGED <<slotAddr, queueVars>>
      \/ \E slot \in free :
            /\ used' = others \cup {slot}
            /\ slotAddr' = [slotAddr EXCEPT ![slot] = n]
            /\ IF phase = "on"
                 THEN Post(NewObserver(slot)) /\ early' = early \cap others
                 ELSE UNCHANGED queueVars /\ early' = (early \cap others) \cup {slot}
  BY DEF ObserveArrives
<1>. HIDE DEF others, free
<1>. QED BY <1>7, <1>8, <1>9

LEMMA NewObserverKeepsRemember ==
    ASSUME TypeInv, RememberInv, HandleNewObserver
    PROVE  RememberInv'
<1> DEFINE addr == slotAddr[Head(queue).slot]
           item == [id |-> allocated + 1, addr |-> addr]
<1>1. /\ phase = "on" /\ phase' = phase /\ queue # <<>> /\ queue' = Tail(queue)
      /\ dropped' = dropped /\ UNCHANGED <<obsVars, replies, nodeVars>>
      /\ IF addr \notin Listed /\ BlockFree
           THEN revlookup' = Append(revlookup, item) /\ allocated' = allocated + 1
           ELSE UNCHANGED ramVars
  BY DEF HandleNewObserver
<1>2. TypeOK /\ revlookup \in Seq(Items) /\ allocated \in 0..PoolSize /\ PoolSize \in Nat
  BY SizesAssumption DEF TypeInv, TypeOK, SizesAssumption
<1>3. RoomLeft' => RoomLeft
  <2>1. CASE addr \notin Listed /\ BlockFree
    BY <1>1, <1>2, <2>1 DEF RoomLeft, BlockFree
  <2>2. CASE ~(addr \notin Listed /\ BlockFree)
    BY <1>1, <2>2 DEF RoomLeft, ramVars
  <2>. QED BY <2>1, <2>2
<1>4. /\ Listed \subseteq Listed'
      /\ RoomLeft' => addr \in Listed'
  <2>1. CASE addr \notin Listed /\ BlockFree
    <3>1. revlookup' = Append(revlookup, item)
      BY <1>1, <2>1
    <3>2. /\ Len(revlookup') = Len(revlookup) + 1 /\ Len(revlookup) \in Nat
          /\ \A i \in 1..Len(revlookup) : revlookup'[i] = revlookup[i]
          /\ revlookup'[Len(revlookup) + 1] = item
      BY <1>2, <3>1
    <3>3. item.addr = addr
      OBVIOUS
    <3>. HIDE DEF item, addr
    <3>. QED BY <3>2, <3>3 DEF Listed
  <2>2. CASE ~(addr \notin Listed /\ BlockFree)
    <3>1. Listed' = Listed
      BY <1>1, <2>2 DEF Listed, ramVars
    <3>2. RoomLeft' => BlockFree
      BY <1>1, <1>2, <2>2 DEF RoomLeft, BlockFree, ramVars
    <3>. QED BY <2>2, <3>1, <3>2
  <2>. QED BY <2>1, <2>2
<1>5. RepliesBehind'
  BY <1>1 DEF RememberInv, RepliesBehind, nodeVars
<1>6. ASSUME RoomLeft', NEW s \in used' \ early'
      PROVE  SlotKnown(s)'
  <2>1. SlotKnown(s) /\ slotAddr'[s] = slotAddr[s]
    BY <1>1, <1>3, <1>6 DEF RememberInv, obsVars
  <2>2. CASE Head(queue) = NewObserver(s)
    <3>1. Head(queue).slot = s
      BY <2>2 DEF NewObserver
    <3>2. slotAddr[s] \in Listed'
      BY <1>4, <1>6, <3>1
    <3>. QED BY <2>1, <3>2 DEF SlotKnown
  <2>3. CASE Head(queue) # NewObserver(s)
    <3>1. Contains(queue, NewObserver(s)) => Contains(queue', NewObserver(s))
      BY <1>1, <1>2, <2>3, TailContains
    <3>. QED BY <1>1, <1>4, <2>1, <3>1, SlotStays DEF nodeVars
  <2>. QED BY <2>2, <2>3
<1>. QED BY <1>1, <1>5, <1>6 DEF RememberInv

LEMMA ReplyKeepsRemember ==
    ASSUME TypeInv, RememberInv, NEW r \in replies, ReplyArrives(r)
    PROVE  RememberInv'
<1> DEFINE open == {t \in trans : t.item = r.item}
<1>1. /\ replies' \subseteq replies /\ UNCHANGED <<phase, obsVars, queueVars, nodeVars>>
      /\ IF open # {} /\ r.code = "DELETED"
           THEN revlookup' = Without(r.item) /\ allocated' = allocated
           ELSE UNCHANGED ramVars
  BY DEF ReplyArrives, Without
<1>. HIDE DEF open
<1>2. TypeOK
  BY DEF TypeInv
<1>3. CASE open # {} /\ r.code = "DELETED"
  <2>1. revlookup' = Without(r.item) /\ allocated' = allocated
    BY <1>1, <1>3
  <2>2. RepliesBehind'
    BY <1>1 DEF RememberInv, RepliesBehind, nodeVars
  <2>3. ASSUME RoomLeft', NEW s \in used' \ early'
        PROVE  SlotKnown(s)'
    <3>1. SlotKnown(s)
      BY <1>1, <2>1, <2>3 DEF RememberInv, RoomLeft, obsVars, queueVars
    <3>2. CASE slotAddr[s] \in Listed /\ slotAddr[s] \in interest /\ slotAddr[s] = r.item.addr
      <4>1. obsReq[slotAddr[s]] > 0
        BY <1>3, <3>2 DEF RememberInv, RepliesBehind
      <4>. QED BY <1>1, <4>1 DEF SlotKnown, obsVars, nodeVars
    <3>3. CASE slotAddr[s] \in Listed /\ slotAddr[s] # r.item.addr
      <4>1. PICK j \in 1..Len(revlookup) : revlookup[j].addr = slotAddr[s]
        BY <3>3 DEF Listed
      <4>2. PICK i \in 1..Len(Without(r.item)) : Without(r.item)[i] = revlookup[j]
        BY <1>2, <3>3, <4>1, WithoutKeeps
      <4>3. slotAddr[s] \in Listed'
        BY <2>1, <4>1, <4>2 DEF Listed
      <4>. QED BY <1>1, <4>3 DEF SlotKnown, obsVars
    <3>4. CASE slotAddr[s] \notin Listed \/ slotAddr[s] \notin interest
      <4>1. slotAddr[s] \notin interest
              \/ Contains(queue, NewObserver(s)) \/ obsReq[slotAddr[s]] > 0
        BY <3>1, <3>4 DEF SlotKnown
      <4>2. NewObserver(s)' = NewObserver(s)
        BY DEF NewObserver
      <4>. QED BY <1>1, <4>1, <4>2 DEF SlotKnown, obsVars, queueVars, nodeVars
    <3>. QED BY <3>2, <3>3, <3>4
  <2>. QED BY <1>1, <2>2, <2>3 DEF RememberInv, obsVars
<1>4. CASE ~(open # {} /\ r.code = "DELETED")
  BY <1>1, <1>4, RememberUnchanged
<1>. QED BY <1>3, <1>4

LEMMA StepRememberInv ==
    ASSUME TypeInv, RememberInv, Reliable, InOrder, [Next]_vars
    PROVE  RememberInv'
<1>0. TypeOK
  BY DEF TypeInv
<1>1. CASE PowerOn \/ StartProcess
  <2>1. used' \subseteq early' /\ UNCHANGED <<replies, nodeVars>>
    BY <1>1 DEF PowerOn, StartProcess, RememberInv, obsVars
  <2>. QED BY <2>1 DEF RememberInv, RepliesBehind, nodeVars
<1>2. CASE Crash
  BY <1>2 DEF Crash, RememberInv, RepliesBehind
<1>3. CASE WriteRecord \/ (\E t \in trans : PresenceTimesOut(t))
           \/ (\E r \in replies : ReplyLost(r)) \/ UNCHANGED vars
  <2>1. /\ UNCHANGED <<phase, revlookup, allocated, obsVars, queueVars, nodeVars>>
        /\ replies' \subseteq replies
    BY <1>3 DEF WriteRecord, PresenceTimesOut, ReplyLost, vars, ramVars
  <2>2. Listed' = Listed
    BY <2>1 DEF Listed
  <2>3. RepliesBehind'
    BY <2>1 DEF RememberInv, RepliesBehind, nodeVars
  <2>4. ASSUME RoomLeft', NEW s \in used' \ early'
        PROVE  SlotKnown(s)'
    <3>1. SlotKnown(s)
      BY <2>1, <2>4 DEF RememberInv, RoomLeft, queueVars, obsVars
    <3>. QED BY <2>1, <2>2, <3>1, SlotStays DEF queueVars, obsVars, nodeVars
  <2>. QED BY <2>1, <2>3, <2>4 DEF RememberInv, obsVars
<1>4. ASSUME NEW n \in Nodes, ObserveArrives(n)
      PROVE  RememberInv'
  BY <1>4, ObserveKeepsRemember
<1>5. ASSUME NEW d \in Slots, ObserverDropped(d)
      PROVE  RememberInv'
  <2>1. /\ UNCHANGED <<phase, ramVars, slotAddr, queueVars, replies, nodeVars>>
        /\ used' = used \ {d} /\ early' = early \ {d}
    BY <1>5 DEF ObserverDropped
  <2>2. Listed' = Listed
    BY <2>1 DEF Listed, ramVars
  <2>3. RepliesBehind'
    BY <2>1 DEF RememberInv, RepliesBehind, nodeVars
  <2>4. ASSUME RoomLeft', NEW s \in used' \ early'
        PROVE  SlotKnown(s)'
    <3>1. SlotKnown(s)
      BY <2>1, <2>4 DEF RememberInv, RoomLeft, queueVars, ramVars
    <3>. QED BY <2>1, <2>2, <3>1, SlotStays DEF queueVars, nodeVars
  <2>. QED BY <2>1, <2>3, <2>4 DEF RememberInv
<1>6. CASE HandleNewObserver
  BY <1>6, NewObserverKeepsRemember
<1>7. CASE HandlePresence
  <2>1. /\ UNCHANGED <<phase, ramVars, obsVars, replies, nodeVars, dropped>>
        /\ queue # <<>> /\ queue' = Tail(queue) /\ Head(queue).event = "susensors_presence"
    BY <1>7 DEF HandlePresence
  <2>2. Listed' = Listed
    BY <2>1 DEF Listed, ramVars
  <2>3. RepliesBehind'
    BY <2>1 DEF RememberInv, RepliesBehind, nodeVars
  <2>4. ASSUME RoomLeft', NEW s \in used' \ early'
        PROVE  SlotKnown(s)'
    <3>1. SlotKnown(s)
      BY <2>1, <2>4 DEF RememberInv, RoomLeft, obsVars, ramVars
    <3>2. NewObserver(s) # Head(queue)
      BY <2>1 DEF NewObserver
    <3>3. Contains(queue, NewObserver(s)) => Contains(queue', NewObserver(s))
      BY <1>0, <2>1, <3>2, TailContains
    <3>. QED BY <2>1, <2>2, <3>1, <3>3, SlotStays DEF obsVars, nodeVars
  <2>. QED BY <2>1, <2>3, <2>4 DEF RememberInv, obsVars
<1>8. ASSUME UNCHANGED <<phase, ramVars, obsVars, queueVars>>, RepliesBehind',
             \A m \in interest' : m \in interest \/ obsReq'[m] > 0,
             \A m \in interest : obsReq[m] > 0 => obsReq'[m] > 0
      PROVE  RememberInv'
  <2>1. Listed' = Listed
    BY <1>8 DEF Listed, ramVars
  <2>2. ASSUME RoomLeft', NEW s \in used' \ early'
        PROVE  SlotKnown(s)'
    <3>1. SlotKnown(s) /\ slotAddr' = slotAddr /\ queue' = queue
      BY <1>8, <2>2 DEF RememberInv, RoomLeft, queueVars, ramVars, obsVars
    <3>2. CASE slotAddr[s] \in interest
      BY <1>8, <2>1, <3>1, <3>2, SlotStays
    <3>3. CASE slotAddr[s] \notin interest
      BY <1>8, <3>1, <3>3 DEF SlotKnown
    <3>. QED BY <3>2, <3>3
  <2>. QED BY <1>8, <2>2 DEF RememberInv, obsVars
<1>9. /\ MaxTries \in Nat /\ MaxTries > 0 /\ interest \subseteq Nodes
      /\ obsReq \in [Nodes -> 0..MaxTries]
  BY <1>0, SizesAssumption DEF TypeOK, SizesAssumption
<1>10. ASSUME NEW n \in Nodes, Bind(n) \/ Unbind(n) \/ ObserveLost(n)
       PROVE  RememberInv'
  <2>1. /\ UNCHANGED <<phase, ramVars, obsVars, queueVars, replies>>
        /\ \A m \in Nodes : obsReq[m] > 0 => obsReq'[m] > 0
        /\ \A m \in interest' : m \in interest \/ obsReq'[m] > 0
        /\ interest' \subseteq Nodes
    <3>1. CASE Bind(n)
      BY <1>9, <3>1 DEF Bind
    <3>2. CASE Unbind(n)
      BY <1>9, <3>2 DEF Unbind
    <3>3. CASE ObserveLost(n)
      <4>1. /\ obsReq[n] > 1 /\ obsReq' = [obsReq EXCEPT ![n] = obsReq[n] - 1]
            /\ interest' = interest
        BY <3>3 DEF ObserveLost
      <4>2. obsReq[n] - 1 > 0
        BY <1>9, <4>1
      <4>3. \A m \in Nodes : obsReq[m] > 0 => obsReq'[m] > 0
        BY <1>9, <4>1, <4>2
      <4>. QED BY <1>9, <3>3, <4>1, <4>3 DEF ObserveLost
    <3>. QED BY <1>10, <3>1, <3>2, <3>3
  <2>2. RepliesBehind'
    <3>. SUFFICES ASSUME NEW r \in replies, r.code = "DELETED", r.item.addr \in interest'
                  PROVE  obsReq'[r.item.addr] > 0
      BY <2>1 DEF RepliesBehind
    <3>1. r.item.addr \in Nodes
      BY <2>1
    <3>. QED BY <2>1, <3>1 DEF RememberInv, RepliesBehind
  <2>. QED BY <1>8, <1>9, <2>1, <2>2
<1>11. ASSUME NEW t \in trans, PresenceArrives(t)
       PROVE  RememberInv'
  <2> DEFINE n == t.item.addr
  <2>1. /\ UNCHANGED <<phase, ramVars, obsVars, queueVars, interest>> /\ n \in Nodes
        /\ \/ /\ n \in interest
              /\ replies' = replies \cup {[item |-> t.item, code |-> "OK"]}
              /\ obsReq' = [obsReq EXCEPT ![n] = MaxTries]
           \/ /\ n \notin interest
              /\ replies' = replies \cup {[item |-> t.item, code |-> "DELETED"]}
              /\ obsReq' = obsReq
    BY <1>11 DEF PresenceArrives
  <2>2. \A m \in Nodes : obsReq[m] > 0 => obsReq'[m] > 0
    <3>. HIDE DEF n
    <3>. QED BY <1>9, <2>1
  <2>3. RepliesBehind'
    <3>. SUFFICES ASSUME NEW r \in replies', r.code = "DELETED", r.item.addr \in interest
                  PROVE  obsReq'[r.item.addr] > 0
      BY <2>1 DEF RepliesBehind
    <3>1. CASE r \in replies
      BY <1>9, <2>2, <3>1 DEF RememberInv, RepliesBehind
    <3>2. CASE r = [item |-> t.item, code |-> "OK"]
      BY <3>2
    <3>3. CASE n \notin interest /\ r = [item |-> t.item, code |-> "DELETED"]
      BY <3>3
    <3>. QED BY <2>1, <3>1, <3>2, <3>3
  <2>. QED BY <1>8, <1>9, <2>1, <2>2, <2>3
<1>12. ASSUME NEW r \in replies, ReplyArrives(r)
       PROVE  RememberInv'
  BY <1>12, ReplyKeepsRemember
<1>. QED BY <1>1, <1>2, <1>3, <1>4, <1>5, <1>6, <1>7, <1>10, <1>11, <1>12
     DEF Next, Sensor, Network, Environment

(* Over a reliable network that keeps the messages of a node in order, an  *)
(* observer with a pair is listed or about to be, for any number of nodes, *)
(* observer structs and retransmissions: the answer that takes it off the  *)
(* list never overtakes the request that puts it back.  Requests may be    *)
(* served before susensors_process runs; their observers the property      *)
(* excepts, and they take no other from the list.                          *)
THEOREM ObserversRemembered ==
    ASSUME Reliable, InOrder
    PROVE  Spec => []ObserversAreRemembered
<1>1. Init => TypeInv /\ RememberInv
  BY InitTypeInv, InitRememberInv
<1>2. TypeInv /\ RememberInv /\ [Next]_vars => TypeInv' /\ RememberInv'
  BY StepTypeInv, StepRememberInv
<1>3. TypeInv /\ RememberInv => ObserversAreRemembered
  <2>. SUFFICES ASSUME TypeInv, RememberInv, RoomLeft, NEW n \in {slotAddr[s] : s \in used \ early} \cap interest
                PROVE  n \in Listed \cup PendingAddrs \/ obsReq[n] > 0
    BY DEF ObserversAreRemembered, RoomLeft
  <2>1. PICK s \in used \ early : slotAddr[s] = n
    OBVIOUS
  <2>2. s \in Slots
    BY DEF TypeInv, TypeOK
  <2>3. SlotKnown(s)
    BY DEF RememberInv
  <2>4. Contains(queue, NewObserver(s)) => n \in PendingAddrs
    BY <2>1, <2>2 DEF PendingAddrs
  <2>. QED BY <2>1, <2>3, <2>4 DEF SlotKnown
<1>. QED BY <1>1, <1>2, <1>3, PTL DEF Spec

=============================================================================
