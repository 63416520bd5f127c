------------------------------ MODULE SdpGraph ------------------------------
(***************************************************************************)
(* The graph of items (src/graph/main.go).                                 *)
(*                                                                         *)
(* Items are added one at a time and in any order.  A link to an item that *)
(* is there becomes an edge at once; a link to one that is not is kept in  *)
(* unseenEdges under the name it wants, and becomes an edge when an item   *)
(* of that name is added.  Nothing is ever removed from unseenEdges, and   *)
(* an item may be added again under a name that is taken.                  *)
(*                                                                         *)
(* The list of edges is a bag here: edges[u][v] is how often the edge from *)
(* node u to node v is in it.  Weights and the order of the list are left  *)
(* out: an edge's weight is fixed by its nodes.                            *)
(***************************************************************************)
EXTENDS Integers, FiniteSets

CONSTANTS
  Names,      \* globally unique names
  Links,      \* the linked items an item may have: how often it links a name
  MaxNodes    \* bound: the items that are added

ASSUME LinksAssumption == Links \subseteq [Names -> Nat]
ASSUME MaxNodesAssumption == MaxNodes \in Nat

VARIABLES
  undirected,   \* set by NewSDPGraph
  nodesByID,    \* the nodes: their names and links, by ID
  nodesByGUN,   \* the ID of the node of a name, 0 when there is none
  unseenEdges,  \* unseenEdges[name][u]: how often node u waits for the name
  edges

vars == <<undirected, nodesByID, nodesByGUN, unseenEdges, edges>>

Ids == 1 .. MaxNodes
Unused == [used |-> FALSE]
Node == [used : {TRUE}, gun : Names, links : Links]
Used == {id \in Ids : nodesByID[id].used}

TypeOK ==
  /\ undirected \in BOOLEAN
  /\ nodesByID \in [Ids -> Node \cup {Unused}]
  /\ nodesByGUN \in [Names -> Ids \cup {0}]
  /\ unseenEdges \in [Names -> [Ids -> Nat]]
  /\ edges \in [Ids -> [Ids -> Nat]]

\* NewSDPGraph
Init ==
  /\ undirected \in BOOLEAN
  /\ nodesByID = [id \in Ids |-> Unused]
  /\ nodesByGUN = [name \in Names |-> 0]
  /\ unseenEdges = [name \in Names |-> [id \in Ids |-> 0]]
  /\ edges = [u \in Ids |-> [v \in Ids |-> 0]]

----------------------------------------------------------------------------
(* AddItem.  The name of the new node is registered before its links are   *)
(* looked at, so an item that links itself finds itself.                   *)

Exists(name) == nodesByGUN'[name] /= 0

\* The edges from the new node to the nodes its links name now.
SeenEdges(id, links, u, v) ==
  IF u = id /\ nodesByID'[v].used /\ nodesByGUN'[nodesByID'[v].gun] = v
  THEN links[nodesByID'[v].gun] ELSE 0

\* The edges to the new node from those that waited for its name.
LateEdges(id, gun, u, v) == IF v = id THEN unseenEdges'[gun][u] ELSE 0

NewEdges(id, gun, links, u, v) ==
  SeenEdges(id, links, u, v) + LateEdges(id, gun, u, v)

\* In an undirected graph each new edge comes with its reverse.
AddedEdges(id, gun, links, u, v) ==
  NewEdges(id, gun, links, u, v)
    + (IF undirected THEN NewEdges(id, gun, links, v, u) ELSE 0)

\* Mutant: the list of those that wait for a name is made anew each time.
RememberLast(id, links) ==
  unseenEdges' = [name \in Names |->
                    IF Exists(name) \/ links[name] = 0 THEN unseenEdges[name]
                    ELSE [u \in Ids |-> IF u = id THEN 1 ELSE 0]]

\* Mutant: a name that is registered later is not waited for when the item
\* links itself.
RememberNothing(id, links) ==
  unseenEdges' = IF Exists(nodesByID'[id].gun) /\ links[nodesByID'[id].gun] > 0
                 THEN unseenEdges
                 ELSE [name \in Names |->
                         IF Exists(name) THEN unseenEdges[name]
                         ELSE [unseenEdges[name] EXCEPT ![id] = @ + links[name]]]

Remember(id, links) ==
  unseenEdges' = [name \in Names |->
                    IF Exists(name) THEN unseenEdges[name]
                    ELSE [unseenEdges[name] EXCEPT ![id] = @ + links[name]]]

\* Mutant: the map of names counts the nodes from one, the IDs from zero.
AddItemShifted(id, gun, links) ==
  /\ nodesByID' = [nodesByID EXCEPT
                     ![id] = [used |-> TRUE, gun |-> gun, links |-> links]]
  /\ nodesByGUN' = [nodesByGUN EXCEPT ![gun] = id + 1]
  /\ UNCHANGED <<unseenEdges, edges, undirected>>

AddItem(id, gun, links) ==
  /\ nodesByID' = [nodesByID EXCEPT
                     ![id] = [used |-> TRUE, gun |-> gun, links |-> links]]
  /\ nodesByGUN' = [nodesByGUN EXCEPT ![gun] = id]
  /\ Remember(id, links)
  /\ edges' = [u \in Ids |-> [v \in Ids |->
                 edges[u][v] + AddedEdges(id, gun, links, u, v)]]
  /\ UNCHANGED undirected

\* uidSet.NewID (external) returns an ID that is not in use.
NewID(id) == id \in Ids \ Used /\ \A other \in Ids \ Used : id <= other

Full == Used = Ids /\ UNCHANGED vars

Next == \/ \E id \in Ids, gun \in Names, links \in Links :
             NewID(id) /\ AddItem(id, gun, links)
        \/ Full

Spec == Init /\ [][Next]_vars

----------------------------------------------------------------------------
(* The graph's questions. *)

HasEdgeFromTo(u, v) == edges[u][v] > 0
HasEdgeBetween(x, y) == HasEdgeFromTo(x, y) \/ HasEdgeFromTo(y, x)
\* The nodes it returns, one for each edge, as a bag.
From(id) == [v \in Ids |-> edges[id][v]]
\* To appends the end of the edge, not its beginning.
To(id) == {v \in Ids : v = id /\ \E u \in Ids : HasEdgeFromTo(u, v)}

----------------------------------------------------------------------------
(* Properties *)

\* No other node has the name of this one.
OnlyOfItsName(id) ==
  \A other \in Used : nodesByID[other].gun = nodesByID[id].gun => other = id

\* How often the item of node u links the name of node v.
LinksTo(u, v) == nodesByID[u].links[nodesByID[v].gun]

\* From returns a node that is the only one of its name exactly as often as
\* links ask for, whichever end came first (main.go:190 and 210) and whoever
\* was added twice; in an undirected graph the links of both ends count, and
\* both must be the only ones.  Of two such nodes HasEdgeBetween tells whether
\* one of them links the other.
EdgesAreLinks ==
  \A u, v \in Used : OnlyOfItsName(v) =>
    /\ (undirected => OnlyOfItsName(u)) =>
         From(u)[v] = LinksTo(u, v) + (IF undirected THEN LinksTo(v, u) ELSE 0)
    /\ OnlyOfItsName(u) =>
         (HasEdgeBetween(u, v) <=> LinksTo(u, v) > 0 \/ LinksTo(v, u) > 0)

\* "all edges will be bidirectional" (main.go:158), also when items are added
\* again and edges that waited are made a second time.
EdgesAreBidirectional ==
  undirected => \A u, v \in Ids : edges[u][v] = edges[v][u]

\* Also when an item is added again: every link to a name that some item has
\* leads, as often as it was made, to a node of that name that From returns.
LinksLeadToTheirName ==
  \A u \in Used, name \in Names :
    nodesByGUN[name] /= 0 =>
      \E v \in Used : /\ nodesByID[v].gun = name
                      /\ From(u)[v] >= nodesByID[u].links[name]

\* "To returns all nodes that can reach directly to the node" (main.go:237).
ToReachesBack == \A id \in Ids : To(id) = {u \in Ids : From(u)[id] > 0}
============================================================================
