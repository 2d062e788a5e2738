------------------------------- MODULE NodeStore -------------------------------
(***************************************************************************)
(* What the GUI knows of nodes and sensors, and what it keeps in its       *)
(* database (SensorsUnleasedGui/suGui: sensorsunleashed.cpp, node.cpp,     *)
(* nodestore.cpp, sensorstore.cpp, borderrouter.cpp, database.h).          *)
(*                                                                         *)
(* The table of nodes is only read: a node the user creates, or the border *)
(* router reports, is gone at the next start.  The table of sensors gets a *)
(* row each time a sensor is appended to allsensorslist, whether the table *)
(* has it or not; at start it is loaded before that signal is connected.   *)
(* An insert can fail, which updateDB passes over: the sensor is listed    *)
(* and has no row.  So can the reading of either table, which is then as   *)
(* good as empty until the next start.                                     *)
(* The border router's nodes are in the list of nodes only, so that the    *)
(* user cannot ask one for its sensors before creating it.                 *)
(*                                                                         *)
(* A pair whose destination no list knows makes pairlist::append append a  *)
(* sensor without a node; once the row is inserted, updateDB reads the     *)
(* name of its node through a null pointer: the GUI ends.                  *)
(***************************************************************************)
EXTENDS Integers, Sequences, Selections

CONSTANTS
    Nodes,         \* addresses of nodes
    KnownNodes,    \* the rows of the table of nodes, in order
    Published,     \* the sensors a node's .well-known/core lists, per node
    Destinations,  \* the pairs' destinations, each [addr, uri]
    MaxRows        \* bound on the rows of the table, and on the sensors listed

Nodeinfo == "su/nodeinfo"

VARIABLES
    sensorsTable,  \* the database's table of sensors: rows [addr, uri]
    running,       \* whether the GUI runs
    read,          \* whether it could read both tables when it started (history)
    nodes,         \* sensorsunleashed's nodes
    sensors,       \* the sensors of each of them, in order: [uri, stored], where
                   \* stored says that the sensor's row was read or inserted (history)
    allsensors,    \* allsensorslist
    nodesmodel,    \* the list of nodes the user sees: rows [addr, seen]
    links          \* requests for the links of a node, not yet answered

volatileVars == <<nodes, sensors, allsensors, nodesmodel, links>>
storeVars == <<sensorsTable, running, read, volatileVars>>

Sensor == [addr : Nodes, uri : {d.uri : d \in Destinations}
                               \cup UNION {{Published[a][i] : i \in DOMAIN Published[a]}
                                           : a \in Nodes}]

Listed == [uri : {s.uri : s \in Sensor}, stored : BOOLEAN]

TypeOK ==
    /\ sensorsTable \in Seq(Sensor)
    /\ {running, read} \subseteq BOOLEAN
    /\ nodes \in Seq(Nodes)
    /\ \A a \in Nodes : sensors[a] \in Seq(Listed)
    /\ allsensors \in Seq(Sensor)
    /\ nodesmodel \in Seq([addr : Nodes, seen : BOOLEAN])
    /\ links \in [Nodes -> Nat]

-----------------------------------------------------------------------------

Init ==
    /\ sensorsTable = <<>> /\ running = FALSE /\ read = FALSE
    /\ nodes = <<>> /\ sensors = [a \in Nodes |-> <<>>] /\ allsensors = <<>>
    /\ nodesmodel = <<>> /\ links = [a \in Nodes |-> 0]

Contained(seq, x) == \E i \in DOMAIN seq : seq[i] = x

(* node::addSensor passes over the node's own resources.                   *)
DeviceRows == {row \in Sensor : row.uri \notin {Nodeinfo, ".well-known/core"}}
RowsOfNode(a) == {row \in Sensor : row.addr = a}

(* nodestore::updateWith with the time a node was seen: the first row of   *)
(* the address, or else a new one.  The time is set on a row that exists;  *)
(* the node of a new row is created with the report, unseen.               *)
UpdatedWith(list, a) ==
    IF \E i \in DOMAIN list : list[i].addr = a
    THEN LET first == CHOOSE i \in DOMAIN list :
                          list[i].addr = a /\ \A j \in 1..(i - 1) : list[j].addr # a
         IN [list EXCEPT ![first].seen = TRUE]
    ELSE Append(list, [addr |-> a, seen |-> FALSE])

(* The sensors of the table whose node is known, in the table's order.     *)
Loaded(table, known) == Only(table, {row \in DeviceRows : Contained(known, row.addr)})
UrisOf(rows, a) ==
    LET own == Only(rows, RowsOfNode(a))
    IN [i \in DOMAIN own |-> own[i].uri]

(* Sensors appended, those at the positions ok with a row; the uris of     *)
(* those that have one; and rows of a node.                                *)
WithRows(uris, ok) == [i \in DOMAIN uris |-> [uri |-> uris[i], stored |-> i \in ok]]
StoredOf(list) ==
    LET kept == Only(list, {x \in Listed : x.stored})
    IN [i \in DOMAIN kept |-> kept[i].uri]
RowsFor(a, uris) == [i \in DOMAIN uris |-> [addr |-> a, uri |-> uris[i]]]

(* The constructor of sensorsunleashed: the tables are read, as far as     *)
(* they can be, and only then is sensorAdded connected to updateDB.        *)
StartWith(known, loaded) ==
    /\ ~running /\ running' = TRUE
    /\ nodes' = known
    /\ sensors' = [a \in Nodes |-> LET uris == UrisOf(loaded, a)
                                   IN WithRows(uris, DOMAIN uris)]
    /\ allsensors' = loaded
    /\ nodesmodel' = [i \in DOMAIN known |-> [addr |-> known[i], seen |-> FALSE]]
    /\ links' = [a \in Nodes |-> 0]
StartConnected ==    \* slip: connected before the sensors are loaded
    LET loaded == Loaded(sensorsTable, KnownNodes)
    IN /\ StartWith(KnownNodes, loaded) /\ read' = TRUE
       /\ Len(sensorsTable) + Len(loaded) <= MaxRows
       /\ sensorsTable' = sensorsTable \o loaded
Start ==
    \E nodesRead, sensorsRead \in BOOLEAN :
        LET known == IF nodesRead THEN KnownNodes ELSE <<>>
            table == IF sensorsRead THEN sensorsTable ELSE <<>>
        IN /\ StartWith(known, Loaded(table, known))
           /\ read' = (nodesRead /\ sensorsRead)
           /\ UNCHANGED sensorsTable

Forget ==
    /\ running' = FALSE /\ read' = FALSE
    /\ nodes' = <<>> /\ sensors' = [a \in Nodes |-> <<>>] /\ allsensors' = <<>>
    /\ nodesmodel' = <<>> /\ links' = [a \in Nodes |-> 0]

Quit == running /\ Forget /\ UNCHANGED sensorsTable

(* sensorsunleashed::createNode, called from the user's form.              *)
createNode(a) ==
    /\ running /\ ~Contained(nodes, a)
    /\ nodes' = Append(nodes, a)
    /\ UNCHANGED <<sensorsTable, running, read, sensors, allsensors, nodesmodel, links>>

(* The border router reports a node: parseNodeinList.                      *)
Reported(a) ==
    /\ running
    /\ nodesmodel' = UpdatedWith(nodesmodel, a)
    /\ UNCHANGED <<sensorsTable, running, read, nodes, sensors, allsensors, links>>

(* The links of a node that addSensor takes.                               *)
Links(a) == UrisOf(Only(RowsFor(a, Published[a]), DeviceRows), a)

(* The bounds on rows and sensors.                                         *)
RoomFor(n) == Len(sensorsTable) + n <= MaxRows /\ Len(allsensors) + n <= MaxRows

(* changeActiveNode finds the node, and its page asks for the links.       *)
requestLinks(a) ==
    /\ running /\ Contained(nodes, a)
    /\ RoomFor((links[a] + 1) * Len(Links(a)))
    /\ links' = [links EXCEPT ![a] = @ + 1]
    /\ UNCHANGED <<sensorsTable, running, read, nodes, sensors, allsensors, nodesmodel>>

(* parseAppLinkFormat: every link is added once more, and updateDB inserts *)
(* a row of each, or fails to.  An answer can also be given up.            *)
parseAppLinkFormat(a) ==
    /\ running /\ links[a] > 0
    /\ RoomFor(Len(Links(a)))
    /\ links' = [links EXCEPT ![a] = @ - 1]
    /\ allsensors' = allsensors \o RowsFor(a, Links(a))
    /\ \E inserted \in SUBSET DOMAIN Links(a) :
           LET new == WithRows(Links(a), inserted)
           IN /\ sensors' = [sensors EXCEPT ![a] = @ \o new]
              /\ sensorsTable' = sensorsTable \o RowsFor(a, StoredOf(new))
    /\ UNCHANGED <<running, read, nodes, nodesmodel>>
nodeNotResponding(a) ==
    /\ running /\ links[a] > 0
    /\ links' = [links EXCEPT ![a] = @ - 1]
    /\ UNCHANGED <<sensorsTable, running, read, nodes, sensors, allsensors, nodesmodel>>

(* pairlist::append of a destination the lists do not have.  A row that   *)
(* cannot be inserted spares the GUI: the destination is listed.           *)
UnknownDestination(d) ==
    /\ running /\ ~Contained(allsensors, d)
    /\ RoomFor(1)
    /\ \/ sensorsTable' = Append(sensorsTable, d) /\ Forget
       \/ /\ allsensors' = Append(allsensors, d)
          /\ UNCHANGED <<sensorsTable, running, read, nodes, sensors, nodesmodel, links>>

Next ==
    \/ Start \/ Quit
    \/ \E a \in Nodes : \/ createNode(a) \/ Reported(a) \/ requestLinks(a)
                        \/ parseAppLinkFormat(a) \/ nodeNotResponding(a)
    \/ \E d \in Destinations : UnknownDestination(d)

Spec == Init /\ [][Next]_storeVars

-----------------------------------------------------------------------------

(* While a GUI runs that could read its database, the sensors it shows of  *)
(* a node from the database are just the rows the database has of it, and  *)
(* between them those whose insert failed; however often it was restarted, *)
(* in whatever order links came in, wherever it ended.  So a sensor whose  *)
(* insert failed is gone at the next start, and no other is.               *)
RowsAreShown ==
    running /\ read =>
        \A i \in DOMAIN KnownNodes :
            StoredOf(sensors[KnownNodes[i]])
                = UrisOf(Only(sensorsTable, DeviceRows), KnownNodes[i])

(* A sensor is listed once.  It does not hold: asking a node for its links *)
(* again lists, and stores, all its sensors again.                         *)
ListedOnce ==
    \A a \in Nodes : \A i, j \in DOMAIN sensors[a] :
        sensors[a][i].uri = sensors[a][j].uri => i = j

(* What the GUI showed before it ended it shows again.  It does not hold:  *)
(* the nodes a user created are not stored.                                *)
EverythingReturns ==
    running => \A i \in DOMAIN sensorsTable :
                   LET row == sensorsTable[i]
                   IN Contained(nodes, row.addr) => Contained(StoredOf(sensors[row.addr]), row.uri)
=============================================================================
