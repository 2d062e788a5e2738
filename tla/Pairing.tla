------------------------------- MODULE Pairing -------------------------------
(***************************************************************************)
(* The pairs (bindings) of an actuator node: pairing.c, and the part of    *)
(* susensors_process that turns a pair into an observe relation.           *)
(*                                                                         *)
(* A join command stores a pair three times: as a block of the memb pool   *)
(* pairings on the device's list in RAM, as a record of the device's flash *)
(* file "pairs_<device>", and, by way of a susensors_pair event, as an     *)
(* observee of the CoAP engine.  At boot the lists are read back from the  *)
(* files.  pairRemoveIndex rewrites a file through the file "temp";        *)
(* pairRemoveAll empties a list and removes the file.                      *)
(*                                                                         *)
(* Commands and events run one at a time.  Power may fail between any two  *)
(* steps, also between two records of a rewrite; a record is written whole *)
(* or not at all, and all records are of one size.  The three events of a  *)
(* pair and its three sub-URLs are treated alike, so one stands for them.  *)
(***************************************************************************)
EXTENDS Integers, SequencesExt

CONSTANTS
    NDev,           \* number of devices; 1..NDev is the order of sudevices
    Records,        \* the pairs a client may ask for: source node, source URL
                    \* and the action the event triggers
    NoUrl,          \* a sub-URL pointer that is still 0
    NoRecord,       \* an answer that is not about one pair
    PoolSize,       \* blocks of the pool pairings
    QueueMax,       \* length of Contiki's event queue
    MaxFd,          \* COFFEE_FD_SET_SIZE, files open at the same time
    MaxCrashes,     \* bound on power losses
    MaxRecords,     \* bound on the records of a file; as long as the pool
                    \* bounds them (RecordsFitPool) it is not felt
    MidRewrite,     \* FALSE: power does not fail during pairRemoveIndex
    EarlyTraffic    \* TRUE: commands may arrive before susensors_process runs

Devices == 1..NDev
Blocks == 1..PoolSize
Urls == {r.url : r \in Records}

ASSUME PairingSizes ==
    /\ {NDev, PoolSize, QueueMax, MaxFd} \subseteq Nat \ {0}
    /\ MaxCrashes \in Nat /\ MaxRecords \in Nat
ASSUME RecordsAssumption ==
    \A r \in Records : r = [dst |-> r.dst, url |-> r.url, action |-> r.action]
ASSUME SentinelAssumption == NoUrl \notin Urls /\ NoRecord \notin Records
ASSUME ScenarioAssumption == {MidRewrite, EarlyTraffic} \subseteq BOOLEAN

VARIABLES
    phase,        \* "off", "coap" (requests are served, susensors_process
                  \* waits for a route), "restore" (in its boot loop) or "on"
    restored,     \* the devices the boot loop is done with
    blk,          \* content of the blocks, stale in a block that is free
    allocated,    \* blocks 1..allocated are in use
    pairs,        \* list pairs of every device, as block numbers
    queue,        \* susensors_pair events
    observees,    \* the observe relations asked for
    handler,      \* the event handler of every device
    present,      \* devices with a pairs file
    file,         \* its records
    temp,         \* the records of the file "temp"
    leaked,       \* file descriptors that were never closed
    rm,           \* how far pairing_remove is
    answer,       \* history: the answer to the command just finished
    crashes       \* power losses so far

memVars == <<blk, allocated, pairs>>
procVars == <<queue, observees, handler>>
flashVars == <<present, file, temp>>
vars == <<phase, restored, memVars, procVars, flashVars, leaked, rm, answer, crashes>>

Blank == [dev |-> 1, rec |-> NoRecord, suburl |-> NoUrl]
Idle == [step |-> "none", dev |-> 1, drop |-> {}, at |-> 1, kept |-> 0]
NoAnswer == [request |-> "none", code |-> "none", dev |-> 1, rec |-> NoRecord]
NoHandler == "none"

Answered(request, code, d, r) ==
    answer' = [request |-> request, code |-> code, dev |-> d, rec |-> r]

(* A command is handled: the CoAP engine is up and no handler is running. *)
CpuFree ==
    /\ phase = "on" \/ (phase = "coap" /\ EarlyTraffic)
    /\ rm.step = "none"

(* process_post of one susensors_pair event per block: what does not fit   *)
(* is dropped, unnoticed.                                                  *)
EnqueuedFirst(blocks) ==    \* slip: one event per file
    IF blocks = <<>> THEN queue ELSE Append(queue, Head(blocks))
Enqueued(blocks) ==
    IF Len(queue) + Len(blocks) <= QueueMax THEN queue \o blocks
    ELSE SubSeq(queue \o blocks, 1, QueueMax)

(* The memory of the node after its power failed. *)
MemoryLost ==
    /\ phase' = "off" /\ restored' = 0
    /\ blk' = [b \in Blocks |-> Blank] /\ allocated' = 0
    /\ pairs' = [d \in Devices |-> <<>>]
    /\ queue' = <<>> /\ observees' = {} /\ handler' = [d \in Devices |-> NoHandler]
    /\ leaked' = 0 /\ rm' = Idle /\ answer' = NoAnswer

Init ==
    /\ phase = "off" /\ restored = 0
    /\ blk = [b \in Blocks |-> Blank] /\ allocated = 0
    /\ pairs = [d \in Devices |-> <<>>]
    /\ queue = <<>> /\ observees = {} /\ handler = [d \in Devices |-> NoHandler]
    /\ present = {} /\ file = [d \in Devices |-> <<>>] /\ temp = <<>>
    /\ leaked = 0 /\ rm = Idle /\ answer = NoAnswer
    /\ crashes = 0

-----------------------------------------------------------------------------
(* Boot. *)

PowerOn ==
    /\ phase = "off"
    /\ phase' = "coap"
    /\ UNCHANGED <<restored, memVars, procVars, flashVars, leaked, rm, answer, crashes>>

(* parseMessage fills a block.  The sub-URLs are set only where the        *)
(* pointers are 0, and memb_free does not clear them.                      *)
SubUrl(b, r) == IF blk[b].suburl = NoUrl THEN r.url ELSE blk[b].suburl
Filled(b, d, r) == [dev |-> d, rec |-> r, suburl |-> SubUrl(b, r)]

(* The next device of the boot loop: restore_SensorPairs.  A pool without  *)
(* a free block makes parseMessage write through a null pointer, which the *)
(* node answers with a reset.                                              *)
RestorePairs ==
    LET d   == restored + 1
        n   == Len(file[d])
        new == [i \in 1..n |-> allocated + i]
    IN /\ phase \in {"coap", "restore"} /\ rm.step = "none"
       /\ \/ /\ allocated + n > PoolSize
             /\ MemoryLost
          \/ /\ allocated + n <= PoolSize
             /\ blk' = [b \in Blocks |->
                           IF b \in allocated + 1..allocated + n
                             THEN Filled(b, d, file[d][b - allocated]) ELSE blk[b]]
             /\ allocated' = allocated + n
             /\ pairs' = [pairs EXCEPT ![d] = @ \o new]
             /\ queue' = Enqueued(new)
             /\ restored' = d
             /\ phase' = IF d = NDev THEN "on" ELSE "restore"
             /\ answer' = NoAnswer
             /\ UNCHANGED <<observees, handler, leaked, rm>>
       /\ UNCHANGED <<flashVars, crashes>>

Crash ==
    /\ phase # "off"
    /\ rm.step # "none" => MidRewrite
    /\ crashes < MaxCrashes
    /\ crashes' = crashes + 1
    /\ MemoryLost
    /\ UNCHANGED flashVars

-----------------------------------------------------------------------------
(* The join command: pairing_handle. *)

LastBlock == allocated          \* slip: the block before it
NextBlock == allocated + 1      \* the block memb_alloc returns

(* What follows is pairing_handle after the message was parsed.  An event  *)
(* posted to a process that does not run yet is lost.                      *)

(* The pair is known if a listed pair has the same URL. *)
KnownButLast(d, r) ==    \* slip: the last of the list is not compared
    \E i \in 1..Len(pairs[d]) - 1 : blk[pairs[d][i]].rec.url = r.url
Known(d, r) == \E i \in 1..Len(pairs[d]) : blk[pairs[d][i]].rec.url = r.url

JoinCreated(d, r) ==
    /\ CpuFree /\ allocated < PoolSize /\ ~Known(d, r)
    /\ Len(file[d]) < MaxRecords
    /\ blk' = [blk EXCEPT ![NextBlock] = Filled(NextBlock, d, r)]
    /\ allocated' = NextBlock
    /\ pairs' = [pairs EXCEPT ![d] = Append(@, NextBlock)]
    /\ IF leaked < MaxFd
         THEN /\ file' = [file EXCEPT ![d] = Append(@, r)]
              /\ present' = present \cup {d}
         ELSE UNCHANGED <<file, present>>
    /\ queue' = IF phase = "on" THEN Enqueued(<<NextBlock>>) ELSE queue
    /\ Answered("join", "2.01", d, r)
    /\ UNCHANGED <<phase, restored, observees, handler, temp, leaked, rm, crashes>>

(* Refused, as known or because the source URI does not parse: the block   *)
(* is given back, with its sub-URLs set.                                   *)
JoinRefused(d, r) ==
    /\ CpuFree /\ allocated < PoolSize
    /\ blk' = [blk EXCEPT ![NextBlock] = Filled(NextBlock, d, r)]
    /\ \/ Known(d, r) /\ Answered("join", "3.04", d, r)
       \/ Answered("join", "4.00", d, r)
    /\ UNCHANGED <<phase, restored, allocated, pairs, procVars, flashVars, leaked, rm,
                   crashes>>

(* No block: the node resets, as in RestorePairs. *)
StoredBeforeAllocated ==    \* slip: flash first, memory second
    /\ CpuFree /\ allocated = PoolSize
    /\ \E d \in Devices, r \in Records :
           file' = [file EXCEPT ![d] = Append(@, r)] /\ present' = present \cup {d}
    /\ MemoryLost
    /\ UNCHANGED <<temp, crashes>>
JoinNoBlock ==
    /\ CpuFree /\ allocated = PoolSize
    /\ MemoryLost
    /\ UNCHANGED <<flashVars, crashes>>

-----------------------------------------------------------------------------
(* The event susensors_pair. *)

HandlePair ==
    LET b == Head(queue)
    IN /\ phase = "on" /\ rm.step = "none"
       /\ queue # <<>>
       /\ queue' = Tail(queue)
       /\ observees' = observees \cup
              {[block |-> b, dst |-> blk[b].rec.dst, url |-> blk[b].suburl]}
       /\ handler' = [handler EXCEPT ![blk[b].dev] = blk[b].rec.action]
       /\ answer' = NoAnswer
       /\ UNCHANGED <<phase, restored, memVars, flashVars, leaked, rm, crashes>>

-----------------------------------------------------------------------------
(* The commands pairRemoveAll and pairRemoveIndex. *)

(* The list is emptied and the file removed.  No block is freed, and the   *)
(* observees stay.                                                         *)
RemoveAllFreesBlocks(d) ==    \* slip: memb_free, while others point there
    /\ CpuFree
    /\ pairs' = [pairs EXCEPT ![d] = <<>>]
    /\ allocated' = allocated - Len(pairs[d])
    /\ file' = [file EXCEPT ![d] = <<>>]
    /\ present' = present \ {d}
    /\ Answered("pairRemoveAll", IF d \in present THEN "2.04" ELSE "4.00", d, NoRecord)
    /\ UNCHANGED <<phase, restored, blk, procVars, temp, leaked, rm, crashes>>
RemoveAll(d) ==
    /\ CpuFree
    /\ pairs' = [pairs EXCEPT ![d] = <<>>]
    /\ file' = [file EXCEPT ![d] = <<>>]
    /\ present' = present \ {d}
    /\ Answered("pairRemoveAll", IF d \in present THEN "2.04" ELSE "4.00", d, NoRecord)
    /\ UNCHANGED <<phase, restored, blk, allocated, procVars, temp, leaked, rm, crashes>>

(* pairing_remove leaves early: no file, no descriptor for it or for       *)
(* "temp", or an empty file, and then "temp" stays open.                   *)
PairsFileStaysOpen(d) ==    \* slip: no cfs_close before return 2
    /\ CpuFree /\ d \in present
    /\ leaked' = IF leaked = MaxFd - 1 \/ (file[d] = <<>> /\ leaked < MaxFd - 1)
                   THEN leaked + 1 ELSE leaked
    /\ file[d] = <<>> \/ leaked >= MaxFd - 1
    /\ Answered("pairRemoveIndex", "refused", d, NoRecord)
    /\ UNCHANGED <<phase, restored, memVars, procVars, flashVars, rm, crashes>>
RemoveRefused(d) ==
    /\ CpuFree
    /\ \/ (d \notin present \/ leaked >= MaxFd - 1) /\ UNCHANGED leaked
       \/ /\ d \in present /\ file[d] = <<>> /\ leaked < MaxFd - 1
          /\ leaked' = leaked + 1
    /\ Answered("pairRemoveIndex", "refused", d, NoRecord)
    /\ UNCHANGED <<phase, restored, memVars, procVars, flashVars, rm, crashes>>

RemoveIndex(d, drop) ==
    /\ CpuFree
    /\ d \in present /\ file[d] # <<>> /\ leaked < MaxFd - 1
    /\ rm' = [step |-> "copy out", dev |-> d, drop |-> drop, at |-> 1, kept |-> 0]
    /\ answer' = NoAnswer
    /\ UNCHANGED <<phase, restored, memVars, procVars, flashVars, leaked, crashes>>

(* A record that is not to be removed is written to "temp", over what an   *)
(* earlier rewrite may have left there.                                    *)
CopyOut ==
    /\ rm.step = "copy out" /\ rm.at <= Len(file[rm.dev])
    /\ IF rm.at \in rm.drop
         THEN rm' = [rm EXCEPT !.at = @ + 1] /\ UNCHANGED temp
         ELSE LET k == rm.kept + 1
                  r == file[rm.dev][rm.at]
              IN /\ rm' = [rm EXCEPT !.at = @ + 1, !.kept = k]
                 /\ temp' = IF k <= Len(temp) THEN [temp EXCEPT ![k] = r]
                                              ELSE Append(temp, r)
    /\ UNCHANGED <<phase, restored, memVars, procVars, present, file, leaked, answer,
                   crashes>>

(* The pairs file is removed and created again. *)
Recreate ==
    /\ rm.step = "copy out" /\ rm.at > Len(file[rm.dev])
    /\ file' = [file EXCEPT ![rm.dev] = <<>>]
    /\ rm' = [rm EXCEPT !.step = "copy back", !.at = 1]
    /\ UNCHANGED <<phase, restored, memVars, procVars, present, temp, leaked, answer,
                   crashes>>

(* All of "temp" is copied back. *)
CopyBack ==
    /\ rm.step = "copy back" /\ rm.at <= Len(temp)
    /\ file' = [file EXCEPT ![rm.dev] = Append(@, temp[rm.at])]
    /\ rm' = [rm EXCEPT !.at = @ + 1]
    /\ UNCHANGED <<phase, restored, memVars, procVars, present, temp, leaked, answer,
                   crashes>>

(* "temp" is removed, which frees its descriptors. *)
TempNotRemoved ==    \* slip: "temp" is kept
    /\ rm.step = "copy back" /\ rm.at > Len(temp)
    /\ rm' = Idle
    /\ Answered("pairRemoveIndex", "2.04", rm.dev, NoRecord)
    /\ UNCHANGED <<phase, restored, memVars, procVars, flashVars, leaked, crashes>>
RemoveDone ==
    /\ rm.step = "copy back" /\ rm.at > Len(temp)
    /\ temp' = <<>> /\ leaked' = 0
    /\ rm' = Idle
    /\ Answered("pairRemoveIndex", "2.04", rm.dev, NoRecord)
    /\ UNCHANGED <<phase, restored, memVars, procVars, present, file, crashes>>

-----------------------------------------------------------------------------

Node ==
    \/ PowerOn \/ RestorePairs \/ HandlePair
    \/ CopyOut \/ Recreate \/ CopyBack \/ RemoveDone
Client ==
    \/ \E d \in Devices, r \in Records : JoinCreated(d, r) \/ JoinRefused(d, r)
    \/ JoinNoBlock
    \/ \E d \in Devices : RemoveAll(d) \/ RemoveRefused(d)
    \/ \E d \in Devices : \E drop \in SUBSET (1..Len(file[d])) \ {{}} : RemoveIndex(d, drop)

Next == Node \/ Client \/ Crash

(* The scheduler takes the events in turn, between the commands; clients   *)
(* and power losses are under no obligation.                               *)
Spec == Init /\ [][Next]_vars
FairSpec == Spec /\ WF_vars(Node) /\ SF_vars(HandlePair)

-----------------------------------------------------------------------------

Answers == [request : {"none", "join", "pairRemoveAll", "pairRemoveIndex"},
            code : {"none", "2.01", "2.04", "3.04", "4.00", "refused"},
            dev : Devices, rec : Records \cup {NoRecord}]

(* The value of every variable. *)
TypeOK ==
    /\ phase \in {"off", "coap", "restore", "on"}
    /\ restored \in 0..NDev
    /\ blk \in [Blocks -> [dev : Devices, rec : Records \cup {NoRecord},
                           suburl : Urls \cup {NoUrl}]]
    /\ allocated \in 0..PoolSize
    /\ pairs \in [Devices -> Seq(Blocks)]
    /\ queue \in Seq(Blocks) /\ Len(queue) <= QueueMax
    /\ observees \subseteq [block : Blocks, dst : {r.dst : r \in Records},
                            url : Urls]
    /\ handler \in [Devices -> {r.action : r \in Records} \cup {NoHandler}]
    /\ present \subseteq Devices
    /\ file \in [Devices -> Seq(Records)]
    /\ temp \in Seq(Records)
    /\ leaked \in 0..MaxFd
    /\ rm \in [step : {"none", "copy out", "copy back"}, dev : Devices,
               drop : SUBSET Nat, at : Nat \ {0}, kept : Nat]
    /\ answer \in Answers
    /\ crashes \in 0..MaxCrashes

(* The blocks that a list, an event or an observee points at. *)
Listed(d) == {pairs[d][i] : i \in 1..Len(pairs[d])}
Queued == {queue[i] : i \in 1..Len(queue)}
Observed == {o.block : o \in observees}
Referenced == (UNION {Listed(d) : d \in Devices}) \cup Queued \cup Observed

(* While the node runs, no command changes a pair that a list, an event on *)
(* its way or the callback data of an observee still points at.            *)
PairsStayPut == [][phase' # "off" => \A b \in Referenced : blk'[b] = blk[b]]_vars

Stored(d) == {file[d][i] : i \in 1..Len(file[d])}
ListedPairs(d) == {blk[b].rec : b \in Listed(d)}

(* A join answered 2.01 Created is in flash: however many refused removals *)
(* came before it, there is a descriptor left to write the record with.    *)
CreatedIsStored ==
    answer.request = "join" /\ answer.code = "2.01" => answer.rec \in Stored(answer.dev)

(* A join answered 3.04 is in flash already, so it survives a power loss. *)
RefusedIsStored ==
    answer.request = "join" /\ answer.code = "3.04" => answer.rec \in Stored(answer.dev)

(* A join answered 3.04 is for a source the device is paired with. *)
RefusedIsListed ==
    answer.request = "join" /\ answer.code = "3.04" =>
        \E r \in ListedPairs(answer.dev) :
            r.dst = answer.rec.dst /\ r.url = answer.rec.url

(* The node can boot: the pool has a block for every stored record. *)
StoredUpTo[d \in 0..NDev] ==
    IF d = 0 THEN 0 ELSE StoredUpTo[d - 1] + Len(file[d])
RecordsFitPool == StoredUpTo[NDev] <= PoolSize

(* No device has two stored pairs with one source URL. *)
NoRedundantPairs ==
    \A d \in Devices : \A i, j \in 1..Len(file[d]) :
        i # j => file[d][i].url # file[d][j].url

(* A removal is refused only if there is nothing to remove. *)
RemovalsHaveDescriptors ==
    answer.request = "pairRemoveIndex" /\ answer.code = "refused" =>
        file[answer.dev] = <<>>

(* After pairRemoveAll the device observes nobody. *)
RemoveAllStopsObserving ==
    answer.request = "pairRemoveAll" /\ answer.code = "2.04" =>
        \A o \in observees : blk[o.block].dev # answer.dev

(* The observe relation of a pair is for the URL of its source. *)
ObservesOwnUrl == \A o \in observees : o.url = blk[o.block].rec.url

(* An event of a pair's source triggers the action of that pair. *)
HandlersMatch ==
    \A o \in observees : handler[blk[o.block].dev] = blk[o.block].rec.action

(* Every listed pair, joined or read back at boot, gets its observe        *)
(* relation, unless it is removed or power fails before.                   *)
EveryPairObserved ==
    \A d \in Devices : \A r \in Records :
        phase = "on" /\ r \in ListedPairs(d) ~>
            \/ phase # "on"
            \/ r \notin ListedPairs(d)
            \/ \E b \in Observed : blk[b].dev = d /\ blk[b].rec = r

(* The stored pairs as the clients see them, PairStore.  The removal takes *)
(* effect when the file is removed: from then on its content is "temp".    *)
StoredPairs ==
    [d \in Devices |-> IF rm.step = "copy back" /\ rm.dev = d THEN temp ELSE file[d]]
Asked == IF rm.step = "copy out" THEN {<<rm.dev, rm.drop>>} ELSE {}
Store == INSTANCE PairStore WITH store <- StoredPairs, asked <- Asked
ImplementsPairStore == Store!Spec
=============================================================================
